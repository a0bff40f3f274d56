CONSTANTS
    MaxIrq = 2
    Half = 4
SPECIFICATION Spec
INVARIANT NothingInvented
\* An unloaded module stops.
CHECK_DEADLOCK FALSE
