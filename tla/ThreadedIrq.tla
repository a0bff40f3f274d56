----------------------------- MODULE ThreadedIrq -----------------------------
(***************************************************************************)
(* 20_LAB6/Nirq.c (and SOLUTIONS/s_20/lab6_one_threaded.c, the same two    *)
(* handlers): the bottom half is the thread function of a threaded         *)
(* interrupt.  It counts first and tests afterwards, so it must only be    *)
(* called when there is an event; but the top half counts the event long   *)
(* before it asks for the thread (mdelay, l. 37), and a thread that is     *)
(* still in its loop consumes it in between.                               *)
(*                                                                         *)
(* todo is an atomic_t: a signed integer that wraps around.                 *)
(***************************************************************************)
EXTENDS Integers, IrqLine

CONSTANTS
    MaxIrq,     \* bound on the interrupts that arrive
    Half        \* an atomic_t goes from -Half to Half - 1 (2 ^ 31 in the build)

ASSUME ConstantsAssumption ==
    /\ MaxIrq \in Nat
    /\ Half \in Nat \ {0}

VARIABLES
    N_th,       \* top halves
    todo,       \* events counted and not yet consumed, wrapping
    done,       \* events the bottom half says it handled
    runthread,  \* IRQTF_RUNTHREAD: the thread was asked to run
    thread,     \* where the interrupt's thread stands
    stop        \* free_irq asked the thread to exit

counters == <<N_th, todo, done>>
task == <<runthread, thread, stop>>
vars == <<line, counters, task>>

Modulus == 2 * Half
Wrap(n) == ((n + Half) % Modulus) - Half

TypeOK ==
    /\ module \in Phase
    /\ top \in {"idle", "count", "wake"}
    /\ N_th \in 0 .. MaxIrq
    /\ todo \in -Half .. Half - 1
    /\ done \in Nat
    /\ runthread \in BOOLEAN
    /\ thread \in {"none", "wait", "sleep", "inc", "dec", "exited"}
    /\ stop \in BOOLEAN

Init ==
    /\ LineInit
    /\ N_th = 0 /\ todo = 0 /\ done = 0
    /\ runthread = FALSE /\ thread = "none" /\ stop = FALSE

Woken == IF thread = "sleep" THEN "wait" ELSE thread

-----------------------------------------------------------------------------
(* Mutated forms of the actions below, only ever used to test properties. *)

\* the top half forgets an event while the thread runs
TopTodoSet ==
    /\ Enter("count")
    /\ N_th < MaxIrq
    /\ todo' = 1
    /\ UNCHANGED <<N_th, done, task>>

\* one event per run of the thread
BottomDecOnce ==
    /\ thread = "dec"
    /\ todo' = Wrap(todo - 1)
    /\ thread' = "wait"
    /\ UNCHANGED <<line, N_th, done, runthread, stop>>

-----------------------------------------------------------------------------
(* Load and unload *)

\* request_threaded_irq creates the thread and links the handler, or neither.
Nirq_init ==
    /\ RequestIrq("out")
    /\ thread' = IF module' = "in" THEN "wait" ELSE thread
    /\ UNCHANGED <<counters, runthread, stop>>

\* synchronize_irq waits for the handler and for a thread function in flight.
ExitSynchronize ==
    /\ SynchronizeIrq("in")
    /\ thread \notin {"inc", "dec"}
    /\ UNCHANGED <<counters, task>>

\* free_irq unlinks, waits for handler and thread function, stops the thread.
ExitUnlink == UnlinkIrq /\ UNCHANGED <<counters, task>>

ExitStop ==
    /\ module = "unlinked"
    /\ top = "idle"
    /\ thread \notin {"inc", "dec"}
    /\ ~stop
    /\ stop' = TRUE
    /\ thread' = Woken
    /\ UNCHANGED <<line, counters, runthread>>

ExitFree ==
    /\ FreeIrq
    /\ stop /\ thread = "exited"
    /\ UNCHANGED <<counters, task>>

-----------------------------------------------------------------------------
(* isr_top *)

TopTodo ==
    /\ Enter("count")
    /\ N_th < MaxIrq
    /\ todo' = Wrap(todo + 1)
    /\ UNCHANGED <<N_th, done, task>>

TopCount ==
    /\ Step("count", "wake")
    /\ N_th' = N_th + 1
    /\ UNCHANGED <<todo, done, task>>

\* IRQ_WAKE_THREAD, after mdelay(10)
TopWakeThread ==
    /\ Step("wake", "idle")
    /\ runthread' = TRUE
    /\ thread' = Woken
    /\ UNCHANGED <<counters, stop>>

-----------------------------------------------------------------------------
(* The interrupt's thread *)

\* irq_wait_for_interrupt: a stop goes before a request to run.
ThreadWait ==
    /\ thread = "wait"
    /\ \/ /\ stop
          /\ thread' = "exited"
          /\ UNCHANGED runthread
       \/ /\ ~stop /\ runthread
          /\ thread' = "inc"
          /\ runthread' = FALSE
       \/ /\ ~stop /\ ~runthread
          /\ thread' = "sleep"
          /\ UNCHANGED runthread
    /\ UNCHANGED <<line, counters, stop>>

BottomInc ==
    /\ thread = "inc"
    /\ done' = done + 1
    /\ thread' = "dec"
    /\ UNCHANGED <<line, N_th, todo, runthread, stop>>

BottomDec ==
    /\ thread = "dec"
    /\ todo' = Wrap(todo - 1)
    /\ thread' = IF todo' = 0 THEN "wait" ELSE "inc"
    /\ UNCHANGED <<line, N_th, done, runthread, stop>>

-----------------------------------------------------------------------------

Nirq_exit == ExitSynchronize \/ ExitUnlink \/ ExitStop \/ ExitFree
isr_top == TopTodo \/ TopCount \/ TopWakeThread
isr_bottom == BottomInc \/ BottomDec
Next == Nirq_init \/ Nirq_exit \/ isr_top \/ ThreadWait \/ isr_bottom

Safety == Init /\ [][Next]_vars

\* A handler that was entered returns, the thread runs when it can, and an
\* unload that was begun goes on.
Fairness ==
    /\ WF_vars(TopCount \/ TopWakeThread)
    /\ WF_vars(ThreadWait \/ isr_bottom)
    /\ WF_vars(module # "in" /\ Nirq_exit)

Spec == Safety /\ Fairness

-----------------------------------------------------------------------------
(* Properties *)

Posted == N_th + (IF top = "count" THEN 1 ELSE 0)
Consumed == done - (IF thread = "dec" THEN 1 ELSE 0)

\* Even when the loop runs away, the counters agree modulo the width of an
\* atomic_t, and therefore what is over-counted at rest is whole turns of it.
ConservationModulo ==
    /\ todo = Wrap(Posted - Consumed)
    /\ top = "idle" /\ thread \in {"wait", "sleep"} =>
          (Posted - todo - done) % Modulus = 0

\* Whatever is in todo is brought back to zero, unless free_irq stops the
\* thread first; a loop that runs away ends when todo has gone round.
QueueDrains == todo # 0 ~> todo = 0 \/ stop

Counter == INSTANCE EventCounter WITH posted <- Posted, handled <- done

\* "solve the producer/consumer problem with a threaded interrupt handler"
\* (lab6_one_threaded.c:22-23): nothing is consumed that was not produced.
\* A request to run raised for an event already consumed breaks it.
NothingInvented == Counter!NothingInvented
=============================================================================
