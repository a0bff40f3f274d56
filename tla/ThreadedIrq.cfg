\* Three interrupts over 3-bit counters: todo in -4 .. 3.  A thread that runs
\* away goes once round, 8 events, before it stops.
CONSTANTS
    MaxIrq = 3
    Half = 4
SPECIFICATION Spec
INVARIANTS
    ConservationModulo
PROPERTY QueueDrains
\* An unloaded module stops.
CHECK_DEADLOCK FALSE
