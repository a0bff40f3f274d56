\* Three interrupts: one handled, one that finds the thread in its loop, one
\* after the thread was stopped.
CONSTANTS
    MaxIrq = 3
    Signals = TRUE
SPECIFICATION Spec
INVARIANTS
    TypeOK
    NoLostWakeup
PROPERTIES
    ImplementsEventCounter
    EveryEventHandled
    UnloadFinishes
\* An unloaded module stops.
CHECK_DEADLOCK FALSE
