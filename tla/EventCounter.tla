---------------------------- MODULE EventCounter ----------------------------
(***************************************************************************)
(* What every bottom half of chapter 20 promises its top half, whatever it *)
(* is built from (tasklet, kernel thread, threaded interrupt, work item):  *)
(* an event is handled only after it was posted, never twice, and every    *)
(* posted event is handled in the end.  The counters are the two that each *)
(* driver prints: posted is N_th (counter_th), handled is done             *)
(* (counter_bh).  The drivers' modules refine this one.                    *)
(***************************************************************************)
EXTENDS Naturals

CONSTANT MaxIrq     \* how many interrupts may ever arrive

VARIABLES posted, handled

vars == <<posted, handled>>

Init == posted = 0 /\ handled = 0

Post ==
    /\ posted < MaxIrq
    /\ posted' = posted + 1
    /\ UNCHANGED handled

Handle ==
    /\ handled < posted
    /\ handled' = handled + 1
    /\ UNCHANGED posted

Next == Post \/ Handle

Safety == Init /\ [][Next]_vars

Spec == Safety /\ WF_vars(Handle)

NothingInvented == handled <= posted
=============================================================================
