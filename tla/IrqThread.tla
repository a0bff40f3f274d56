------------------------------ MODULE IrqThread ------------------------------
(***************************************************************************)
(* A module that owns an interrupt line and a kernel thread, loaded and    *)
(* unloaded as the counting thread of 20_LAB3_kthread_smart does it: the   *)
(* thread is started first and stopped first.                              *)
(*                                                                         *)
(* Sleeping: a driver's wait_event is two places, a waiting one that       *)
(* evaluates the condition and goes to "sleep" in one step, because        *)
(* prepare_to_wait queues the thread before the condition is read, and     *)
(* "sleep", which only a wake-up leaves.                                   *)
(***************************************************************************)
EXTENDS IrqLine

VARIABLES
    thread,     \* where the thread stands
    stop        \* kthread_should_stop()

task == <<thread, stop>>

ThreadInit == LineInit /\ thread = "none" /\ stop = FALSE

Alive == thread \notin {"none", "errptr", "exited"}

\* wake_up: the thread evaluates its condition again.
Woken == IF thread = "sleep" THEN "wait" ELSE thread

\* The thread does one operation, while its text is there.
At(pc) == TextPresent /\ thread = pc /\ UNCHANGED <<line, stop>>

\* kthread_run answers a failure with an ERR_PTR, which the drivers' test for
\* NULL lets pass.
RunThread(first) ==
    /\ module = "out"
    /\ module' = "starting"
    /\ thread' \in {first, "errptr"}
    /\ UNCHANGED <<top, stop>>

\* A failing request_irq ends the load without stopping the thread.
Load(first) ==
    \/ RunThread(first)
    \/ RequestIrq("starting") /\ UNCHANGED task

\* kthread_stop asks, wakes, and waits in JoinThread; on an ERR_PTR it oopses.
StopThread ==
    /\ module = "in"
    /\ \/ thread = "errptr" /\ module' = "oops" /\ UNCHANGED task
       \/ /\ thread # "errptr"
          /\ module' = "stopping"
          /\ stop' = TRUE
          /\ thread' = Woken
    /\ UNCHANGED top

JoinThread ==
    /\ module = "stopping"
    /\ thread = "exited"
    /\ module' = "stopped"
    /\ UNCHANGED <<top, task>>

Unload ==
    \/ StopThread
    \/ JoinThread
    \/ GiveBackLine("stopped") /\ UNCHANGED task

\* The thread a failed load left behind runs freed text.
FreedTextRuns ==
    /\ module = "failed"
    /\ Alive
    /\ module' = "oops"
    /\ UNCHANGED <<top, task>>
=============================================================================
