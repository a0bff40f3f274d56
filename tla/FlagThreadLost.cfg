\* The driver that catches up still sleeps on an event.
CONSTANTS
    Drivers = {"lab3_one_thread_improved"}
    NLines = 1
    Cpus = {"cpu0"}
    MaxIrq = 3
    MaxAll = 0
SPECIFICATION Spec
PROPERTY EveryInterruptAnswered
\* An unloaded module stops.
CHECK_DEADLOCK FALSE
