\* The laboratory, with writes and timers in any order.
CONSTANTS
    Timers = {t1, t2, t3}
    Writers = {w1, w2}
    ListHead = head
    Own = {FALSE}
    Serial = {}
SPECIFICATION Spec
INVARIANT NoUseAfterFree
\* An unloaded module stops.
CHECK_DEADLOCK FALSE
