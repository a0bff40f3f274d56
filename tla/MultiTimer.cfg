\* The solution with writes and timers in any order, the laboratory one thing
\* at a time.
CONSTANTS
    Timers = {t1, t2, t3}
    Writers = {w1, w2}
    ListHead = head
    Own = {TRUE, FALSE}
    Serial = {FALSE}
SPECIFICATION Spec
INVARIANTS TypeOK NoUseAfterFree UnloadWaits
PROPERTY EveryTimerFreed
\* An unloaded module stops.
CHECK_DEADLOCK FALSE
