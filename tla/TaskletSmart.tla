---------------------------- MODULE TaskletSmart ----------------------------
(***************************************************************************)
(* 20_LAB3_tasklet_smart/Nirq.c: a top half that counts an interrupt in    *)
(* todo and schedules one static tasklet, and a tasklet that catches up    *)
(* with every event counted so far, so that schedules merged by            *)
(* TASKLET_STATE_SCHED lose nothing.                                       *)
(*                                                                         *)
(* Each atomic_t operation is a step of its own: the two halves run on     *)
(* different CPUs.  The kernel guarantees only that one handler of the     *)
(* line runs at a time and that a tasklet does not run against itself.     *)
(***************************************************************************)
EXTENDS Integers, IrqLine

CONSTANT MaxIrq     \* bound on the interrupts that arrive

ASSUME MaxIrqAssumption == MaxIrq \in Nat

VARIABLES
    N_th,       \* interrupts counted
    todo,       \* events counted and not yet consumed
    done,       \* events handled
    bottom,     \* where isr_bottom stands; not "idle": TASKLET_STATE_RUN
    sched       \* TASKLET_STATE_SCHED of tsk

counters == <<N_th, todo, done>>
tasklet == <<bottom, sched>>
vars == <<line, counters, tasklet>>

TypeOK ==
    /\ module \in Phase
    /\ top \in {"idle", "count", "schedule"}
    /\ N_th \in 0 .. MaxIrq
    /\ todo \in 0 .. MaxIrq
    /\ done \in 0 .. MaxIrq
    /\ bottom \in {"idle", "check", "inc", "dec"}
    /\ sched \in BOOLEAN

Init ==
    /\ LineInit
    /\ N_th = 0 /\ todo = 0 /\ done = 0
    /\ bottom = "idle" /\ sched = FALSE

\* isr_bottom goes from one operation to the next, while its text is there.
BottomStep(from) ==
    /\ TextPresent
    /\ bottom = from
    /\ UNCHANGED <<line, N_th, sched>>

-----------------------------------------------------------------------------
(* Mutated forms of the actions below, only ever used to test properties. *)

\* the test of l. 20 forgotten
BottomCheckDropped ==
    /\ BottomStep("check")
    /\ bottom' = "inc"
    /\ UNCHANGED <<todo, done>>

\* the test of l. 20 off by one
BottomCheckOffByOne ==
    /\ BottomStep("check")
    /\ bottom' = IF todo <= 1 THEN "idle" ELSE "inc"
    /\ UNCHANGED <<todo, done>>

\* one event per run instead of a loop: no catching up
BottomDecOnce ==
    /\ BottomStep("dec")
    /\ todo' = todo - 1
    /\ bottom' = "idle"
    /\ UNCHANGED done

\* atomic_set(&todo, 0) instead of a decrement
BottomDecReset ==
    /\ BottomStep("dec")
    /\ todo' = 0
    /\ bottom' = "idle"
    /\ UNCHANGED done

-----------------------------------------------------------------------------
(* Load and unload *)

Nirq_init == RequestIrq("out") /\ UNCHANGED <<counters, tasklet>>

\* synchronize_irq, free_irq; nothing waits for the tasklet.
Nirq_exit == GiveBackLine("in") /\ UNCHANGED <<counters, tasklet>>

\* A tasklet still pending or running when the text is freed runs freed memory.
FreedTextRuns ==
    /\ module = "freed"
    /\ sched \/ bottom # "idle"
    /\ module' = "oops"
    /\ UNCHANGED <<top, counters, tasklet>>

-----------------------------------------------------------------------------
(* isr_top *)

TopTodo ==
    /\ Enter("count")
    /\ N_th < MaxIrq
    /\ todo' = todo + 1
    /\ UNCHANGED <<N_th, done, tasklet>>

TopCount ==
    /\ Step("count", "schedule")
    /\ N_th' = N_th + 1
    /\ UNCHANGED <<todo, done, tasklet>>

TopSchedule ==
    /\ Step("schedule", "idle")
    /\ sched' = TRUE
    /\ UNCHANGED <<counters, bottom>>

-----------------------------------------------------------------------------
(* The softirq and isr_bottom *)

\* tasklet_action clears SCHED before it calls the function.
TaskletRun ==
    /\ TextPresent
    /\ sched
    /\ bottom = "idle"
    /\ sched' = FALSE
    /\ bottom' = "check"
    /\ UNCHANGED <<line, counters>>

BottomCheck ==
    /\ BottomStep("check")
    /\ bottom' = IF todo <= 0 THEN "idle" ELSE "inc"
    /\ UNCHANGED <<todo, done>>

BottomInc ==
    /\ BottomStep("inc")
    /\ done' = done + 1
    /\ bottom' = "dec"
    /\ UNCHANGED todo

BottomDec ==
    /\ BottomStep("dec")
    /\ todo' = todo - 1
    /\ bottom' = IF todo' = 0 THEN "idle" ELSE "inc"
    /\ UNCHANGED done

-----------------------------------------------------------------------------

isr_top == TopTodo \/ TopCount \/ TopSchedule
isr_bottom == BottomCheck \/ BottomInc \/ BottomDec
Next ==
    \/ Nirq_init \/ Nirq_exit \/ FreedTextRuns
    \/ isr_top \/ TaskletRun \/ isr_bottom

Safety == Init /\ [][Next]_vars

\* A handler that was entered runs to its end (interrupts are not preempted by
\* threads), a raised softirq is run, and runs to its end.  No interrupt has to
\* arrive, and nobody has to load or unload the module.
Fairness ==
    /\ WF_vars(TopCount \/ TopSchedule)
    /\ WF_vars(TaskletRun)
    /\ WF_vars(isr_bottom)

Spec == Safety /\ Fairness

-----------------------------------------------------------------------------
(* Properties *)

\* The events that entered the driver: N_th lags todo inside isr_top.
Posted == N_th + (IF top = "count" THEN 1 ELSE 0)

\* The events taken out of todo: done leads inside the catch-up loop.
Consumed == done - (IF bottom = "dec" THEN 1 ELSE 0)

\* No interleaving of the handlers loses or duplicates a count: what is to do
\* is what was posted and not consumed (l. 24-28 against l. 38-39).
Conservation == todo = Posted - Consumed

\* The loop never takes an event that is not there: todo is positive whenever
\* the loop is about to count one (nothing makes the test of l. 20 stale
\* before l. 28).
NoUnderflow == bottom \in {"inc", "dec"} => todo > 0

\* An event in todo always has something on its way that will handle it: the
\* top half that posted it, a scheduled tasklet or a running one.  This is
\* what merging schedules in TASKLET_STATE_SCHED could break.
NoStrandedEvent ==
    todo > 0 => top # "idle" \/ sched \/ bottom # "idle"

Counter == INSTANCE EventCounter WITH posted <- Posted, handled <- done

\* The pair of counters implements the abstract event counter.
ImplementsEventCounter == Counter!Safety

\* The n-th interrupt is handled, unless the module is unloaded first.
EveryEventHandled ==
    \A n \in 1 .. MaxIrq :
        N_th >= n ~> done >= n \/ module \in {"freed", "oops"}
=============================================================================
