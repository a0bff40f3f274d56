---------------------------- MODULE KthreadSmart ----------------------------
(***************************************************************************)
(* 20_LAB3_kthread_smart/Nirq.c: the catch-up bottom half in a kernel      *)
(* thread that waits on the counter itself.                                *)
(***************************************************************************)
EXTENDS Integers, IrqThread

CONSTANTS
    MaxIrq,     \* bound on the interrupts that arrive
    Signals     \* TRUE: a signal may reach the thread (comment at l. 52)

ASSUME ConstantsAssumption == MaxIrq \in Nat /\ Signals \in BOOLEAN

VARIABLES
    N_th,       \* interrupts counted
    todo,       \* events counted and not yet consumed
    done,       \* events handled
    sig         \* signal_pending(current): nothing in the thread clears it

counters == <<N_th, todo, done>>
vars == <<line, task, counters, sig>>

TypeOK ==
    /\ module \in Phase
    /\ top \in {"idle", "todo", "wake"}
    /\ thread \in {"none", "errptr", "wait", "sleep", "stop?", "todo?",
                   "inc", "dec", "while", "exited"}
    /\ stop \in BOOLEAN
    /\ N_th \in 0 .. MaxIrq
    /\ todo \in 0 .. MaxIrq
    /\ done \in 0 .. MaxIrq
    /\ sig \in BOOLEAN

Init == ThreadInit /\ N_th = 0 /\ todo = 0 /\ done = 0 /\ sig = FALSE

-----------------------------------------------------------------------------
(* Mutated forms of the actions below, only ever used to test properties. *)

TopWakeForgotten == Step("wake", "idle") /\ UNCHANGED <<task, counters, sig>>

TodoTestDropped ==
    At("todo?") /\ thread' = "inc" /\ UNCHANGED <<counters, sig>>

\* one event per wake-up, then to sleep without a look
DecThenSleep ==
    /\ At("dec")
    /\ todo' = todo - 1
    /\ thread' = "sleep"
    /\ UNCHANGED <<N_th, done, sig>>

\* the condition of l. 42 without kthread_should_stop()
WaitIgnoresStop ==
    /\ At("wait")
    /\ thread' = IF todo # 0 \/ sig THEN "stop?" ELSE "sleep"
    /\ UNCHANGED <<counters, sig>>

-----------------------------------------------------------------------------

Nirq_init == Load("wait") /\ UNCHANGED <<counters, sig>>
Nirq_exit == Unload /\ UNCHANGED <<counters, sig>>
LeftBehind == FreedTextRuns /\ UNCHANGED <<counters, sig>>

Signal ==
    /\ Signals
    /\ Alive /\ ~sig
    /\ sig' = TRUE
    /\ thread' = Woken
    /\ UNCHANGED <<line, stop, counters>>

-----------------------------------------------------------------------------
(* isr_top *)

TopCount ==
    /\ Enter("todo")
    /\ N_th < MaxIrq
    /\ N_th' = N_th + 1
    /\ UNCHANGED <<task, todo, done, sig>>

TopTodo ==
    /\ Step("todo", "wake")
    /\ todo' = todo + 1
    /\ UNCHANGED <<task, N_th, done, sig>>

TopWake ==
    /\ Step("wake", "idle")
    /\ thread' = Woken
    /\ UNCHANGED <<stop, counters, sig>>

-----------------------------------------------------------------------------
(* isr_bottom *)

\* wait_event_interruptible(wq, todo || kthread_should_stop())
ThreadWait ==
    /\ At("wait")
    /\ thread' = IF todo # 0 \/ stop \/ sig THEN "stop?" ELSE "sleep"
    /\ UNCHANGED <<counters, sig>>

ThreadStopTest ==
    /\ At("stop?")
    /\ thread' = IF stop THEN "exited" ELSE "todo?"
    /\ UNCHANGED <<counters, sig>>

\* The continue of l. 54 goes to the test of the do-while.
ThreadTodoTest ==
    /\ At("todo?")
    /\ thread' = IF todo <= 0 THEN "while" ELSE "inc"
    /\ UNCHANGED <<counters, sig>>

ThreadInc ==
    /\ At("inc")
    /\ done' = done + 1
    /\ thread' = "dec"
    /\ UNCHANGED <<N_th, todo, sig>>

ThreadDec ==
    /\ At("dec")
    /\ todo' = todo - 1
    /\ thread' = IF todo' = 0 THEN "while" ELSE "inc"
    /\ UNCHANGED <<N_th, done, sig>>

ThreadWhile ==
    /\ At("while")
    /\ thread' = IF stop THEN "exited" ELSE "wait"
    /\ UNCHANGED <<counters, sig>>

-----------------------------------------------------------------------------

isr_top == TopCount \/ TopTodo \/ TopWake
isr_bottom ==
    \/ ThreadWait \/ ThreadStopTest \/ ThreadTodoTest
    \/ ThreadInc \/ ThreadDec \/ ThreadWhile
Next ==
    Nirq_init \/ Nirq_exit \/ LeftBehind \/ Signal \/ isr_top \/ isr_bottom

Safety == Init /\ [][Next]_vars

\* A runnable thread is scheduled, a handler that was entered runs to its end,
\* an unload that was begun goes on when what it waits for has come.
\* Interrupts, signals, load and unload need not happen.
Fairness ==
    /\ WF_vars(isr_bottom)
    /\ WF_vars(TopTodo \/ TopWake)
    /\ WF_vars(module # "in" /\ Nirq_exit)

Spec == Safety /\ Fairness

-----------------------------------------------------------------------------
(* Properties *)

\* A thread asleep on a condition that holds has its wake-up on the way:
\* isr_top counts before it wakes (l. 28, 32), kthread_stop sets before it
\* wakes.
NoLostWakeup ==
    thread = "sleep" => (todo > 0 => top = "wake") /\ ~stop

Counter == INSTANCE EventCounter WITH posted <- N_th, handled <- done

\* The driver's two counters implement the abstract event counter: under no
\* interleaving, signal or unload does the loop of l. 57 count an event that
\* is not there, though todo was read at l. 42 and again at l. 53.
ImplementsEventCounter == Counter!Safety

\* The n-th interrupt is handled, unless the load failed or the thread was
\* asked to stop: the thread leaves at l. 45 without looking at todo.
EveryEventHandled ==
    \A n \in 1 .. MaxIrq :
        N_th >= n ~> \/ done >= n
                     \/ stop
                     \/ thread = "errptr"
                     \/ module \in {"failed", "oops"}

\* rmmod ends, and then nothing of the module runs: the thread sees the stop
\* whatever it was doing, it is joined, and the line is given back.
UnloadFinishes ==
    module = "stopping" ~> module = "freed" /\ ~Alive /\ top = "idle"
=============================================================================
