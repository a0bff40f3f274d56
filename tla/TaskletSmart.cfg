\* Four interrupts: enough for a schedule merged with a pending one while a
\* third interrupt is in its top half and a fourth arrives at unload.
CONSTANT MaxIrq = 4
SPECIFICATION Spec
INVARIANTS
    TypeOK
    Conservation
    NoStrandedEvent
PROPERTIES
    ImplementsEventCounter
    EveryEventHandled
\* An unloaded module stops.
CHECK_DEADLOCK FALSE
