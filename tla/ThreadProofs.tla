---------------------------- MODULE ThreadProofs ----------------------------
(***************************************************************************)
(* The drivers whose bottom half is a thread, for every bound on the       *)
(* interrupts: the catch-up thread of KthreadSmart, with or without        *)
(* signals, and the threaded handler of ThreadedIrq, whatever the width of *)
(* its counters.                                                           *)
(*                                                                         *)
(* Of the first: its types, that it never sleeps on an event or on a stop, *)
(* that it refines the abstract event counter, and that nothing of it is   *)
(* left when rmmod returns.  Of the second, which refines nothing: its     *)
(* types, that its counters agree modulo their width, that it never sleeps *)
(* on an event either, and that nothing of it is left.                     *)
(***************************************************************************)
EXTENDS KthreadSmart, TLAPS

CONSTANT Half
VARIABLE runthread

\* The other variables and MaxIrq have the names they have here.
Threaded == INSTANCE ThreadedIrq

-----------------------------------------------------------------------------
(* The catch-up thread *)

\* Types with the counters unbounded: their bounds follow from Conservation.
Shape ==
    /\ module \in Phase
    /\ top \in {"idle", "todo", "wake"}
    /\ thread \in {"none", "errptr", "wait", "sleep", "stop?", "todo?",
                   "inc", "dec", "while", "exited"}
    /\ stop \in BOOLEAN
    /\ N_th \in 0 .. MaxIrq
    /\ todo \in Int
    /\ done \in Int
    /\ sig \in BOOLEAN

\* What is to do is what isr_top has posted, less what the loop has consumed:
\* todo lags N_th inside isr_top, done leads inside the loop.
Conservation ==
    todo = (N_th - (IF top = "todo" THEN 1 ELSE 0))
             - (done - (IF thread = "dec" THEN 1 ELSE 0))

\* Inside the loop todo is positive: only the thread takes events out, so the
\* tests of l. 53 and l. 63 are still true when it does.
LoopHasEvent ==
    /\ todo >= 0 /\ done >= 0
    /\ thread = "dec" => done > 0
    /\ thread \in {"inc", "dec"} => todo > 0

\* kthread_run is called once, and rmmod passes kthread_stop only when the
\* thread has exited.
LifeOfThread ==
    /\ module = "out" => thread = "none"
    /\ module \in {"stopped", "leaving", "unlinked", "freed"}
          => thread = "exited"

\* free_irq returns only when the handler in flight has.
LifeOfHandler == module = "freed" => top = "idle"

\* The inductive invariant.  NoLostWakeup is inductive by itself; the bounds
\* of TypeOK need Conservation with LoopHasEvent, and those need LifeOfThread,
\* for a second kthread_run would forget that the loop holds an event.
IInv ==
    /\ Shape
    /\ Conservation
    /\ LoopHasEvent
    /\ NoLostWakeup
    /\ LifeOfThread
    /\ LifeOfHandler

\* The inductive invariant holds before the module is loaded.
LEMMA InitIInv == Init => IInv
<1> SUFFICES ASSUME Init PROVE IInv
  OBVIOUS
<1>1. stop \in BOOLEAN /\ sig \in BOOLEAN /\ ~stop
  BY Zenon DEF Init, ThreadInit
<1>2. module = "out" /\ top = "idle" /\ thread = "none"
  BY DEF Init, ThreadInit, LineInit
<1>3. N_th = 0 /\ todo = 0 /\ done = 0
  BY DEF Init
<1>4. QED
  BY ConstantsAssumption, <1>1, <1>2, <1>3
  DEF IInv, Shape, Conservation, LoopHasEvent, NoLostWakeup, LifeOfThread,
      LifeOfHandler, Phase

\* Every step of the handlers, of load and of unload keeps it.
LEMMA NextIInv == IInv /\ [Next]_vars => IInv'
<1> SUFFICES ASSUME IInv, [Next]_vars
             PROVE  IInv'
  OBVIOUS
<1> USE ConstantsAssumption
    DEF IInv, Shape, Conservation, LoopHasEvent, NoLostWakeup, LifeOfThread,
        LifeOfHandler, Phase
<1>1. CASE Nirq_init
  <2>1. CASE RunThread("wait")
    BY <1>1, <2>1 DEF Nirq_init, RunThread, counters
  <2>2. CASE RequestIrq("starting") /\ UNCHANGED task
    BY <1>1, <2>2 DEF Nirq_init, RequestIrq, task, counters
  <2>3. QED
    BY <1>1, <2>1, <2>2 DEF Nirq_init, Load
<1>2. CASE Nirq_exit
  <2>1. CASE StopThread
    BY <1>2, <2>1 DEF Nirq_exit, StopThread, Woken, task, counters
  <2>2. CASE JoinThread
    BY <1>2, <2>2 DEF Nirq_exit, JoinThread, task, counters
  <2>3. CASE GiveBackLine("stopped") /\ UNCHANGED task
    BY <1>2, <2>3 DEF Nirq_exit, GiveBackLine, SynchronizeIrq, UnlinkIrq,
                      FreeIrq, task, counters
  <2>4. QED
    BY <1>2, <2>1, <2>2, <2>3 DEF Nirq_exit, Unload
<1>3. CASE LeftBehind
  BY <1>3 DEF LeftBehind, FreedTextRuns, task, counters
<1>4. CASE Signal
  BY <1>4 DEF Signal, Alive, Woken, line, counters
<1>5. CASE TopCount
  BY <1>5 DEF TopCount, Enter, Linked, task
<1>6. CASE TopTodo
  BY <1>6 DEF TopTodo, Step, task
<1>7. CASE TopWake
  BY <1>7 DEF TopWake, Step, Woken, counters
<1>8. CASE ThreadWait
  BY <1>8 DEF ThreadWait, At, line, counters
<1>9. CASE ThreadStopTest
  BY <1>9 DEF ThreadStopTest, At, line, counters
<1>10. CASE ThreadTodoTest
  BY <1>10 DEF ThreadTodoTest, At, line, counters
<1>11. CASE ThreadInc
  BY <1>11 DEF ThreadInc, At, line
<1>12. CASE ThreadDec
  BY <1>12 DEF ThreadDec, At, line
<1>13. CASE ThreadWhile
  BY <1>13 DEF ThreadWhile, At, line, counters
<1>14. CASE UNCHANGED vars
  BY <1>14 DEF vars, line, task, counters
<1>15. QED
  BY <1>1, <1>2, <1>3, <1>4, <1>5, <1>6, <1>7, <1>8, <1>9, <1>10, <1>11,
     <1>12, <1>13, <1>14
  DEF Next, isr_top, isr_bottom

\* So it always holds.
LEMMA Invariance == Spec => []IInv
<1>1. Spec => Safety
  BY DEF Spec
<1>2. QED
  BY InitIInv, NextIInv, <1>1, PTL DEF Safety

\* Every variable keeps its type and its bound, whatever the interleaving of
\* isr_top, isr_bottom, signals, load and unload.
THEOREM TypeCorrect == Spec => []TypeOK
<1>1. IInv => TypeOK
  BY ConstantsAssumption
  DEF IInv, Shape, Conservation, LoopHasEvent, TypeOK
<1>2. QED
  BY <1>1, Invariance, PTL

\* The thread never sleeps on an event whose wake-up is not on its way, nor on
\* a stop.
THEOREM WakeupNeverLost == Spec => []NoLostWakeup
  BY Invariance, PTL DEF IInv

\* When Nirq_exit has returned, the thread has exited and no handler runs.
THEOREM NothingRunsAfterUnload ==
    Spec => [](module = "freed" => thread = "exited" /\ top = "idle")
<1>1. IInv => (module = "freed" => thread = "exited" /\ top = "idle")
  BY DEF IInv, LifeOfThread, LifeOfHandler
<1>2. QED
  BY <1>1, Invariance, PTL

\* The counters of the driver implement the abstract event counter.
THEOREM Refinement == Spec => ImplementsEventCounter
<1>1. Init => Counter!Init
  BY DEF Init, Counter!Init
<1>2. IInv /\ [Next]_vars => [Counter!Next]_(Counter!vars)
  <2> SUFFICES ASSUME IInv, [Next]_vars
               PROVE  [Counter!Next]_(Counter!vars)
    OBVIOUS
  <2> USE DEF Counter!vars
  <2>1. CASE TopCount
    BY <2>1 DEF TopCount, Counter!Next, Counter!Post
  <2>2. CASE ThreadInc
    <3>1. done < N_th
      BY <2>2 DEF IInv, Shape, Conservation, LoopHasEvent, ThreadInc, At
    <3>2. QED
      BY <2>2, <3>1 DEF ThreadInc, Counter!Next, Counter!Handle
  <2>3. CASE Nirq_init \/ Nirq_exit \/ LeftBehind \/ Signal
    BY <2>3 DEF Nirq_init, Nirq_exit, LeftBehind, Signal, counters
  <2>4. CASE TopTodo \/ TopWake
    BY <2>4 DEF TopTodo, TopWake, counters
  <2>5. CASE ThreadWait \/ ThreadStopTest \/ ThreadTodoTest
    BY <2>5 DEF ThreadWait, ThreadStopTest, ThreadTodoTest, counters
  <2>6. CASE ThreadDec \/ ThreadWhile
    BY <2>6 DEF ThreadDec, ThreadWhile, counters
  <2>7. CASE UNCHANGED vars
    BY <2>7 DEF vars, counters
  <2>8. QED
    BY <2>1, <2>2, <2>3, <2>4, <2>5, <2>6, <2>7
    DEF Next, isr_top, isr_bottom
<1>3. Spec => Safety
  BY DEF Spec
<1>4. QED
  BY <1>1, <1>2, <1>3, Invariance, PTL
  DEF Safety, ImplementsEventCounter, Counter!Safety
-----------------------------------------------------------------------------
(* Arithmetic modulo the number of values of an atomic_t. *)

\* Wrapping is in range, and subtracts whole turns.
LEMMA WrapTurns ==
    ASSUME Half \in Nat \ {0}, NEW n \in Int
    PROVE  /\ Threaded!Wrap(n) \in -Half .. Half - 1
           /\ \E q \in Int : Threaded!Wrap(n) = n - Threaded!Modulus * q
<1> DEFINE m == Threaded!Modulus
           q == (n + Half) \div m
<1>1. m \in Nat \ {0} /\ m = 2 * Half
  BY DEF Threaded!Modulus
<1> HIDE DEF m
<1>2. (n + Half) % m \in 0 .. m - 1 /\ q \in Int
  BY <1>1
<1>3. n + Half = m * q + ((n + Half) % m)
  BY <1>1
<1> HIDE DEF q
<1>4. Threaded!Wrap(n) = ((n + Half) % m) - Half
  BY DEF Threaded!Wrap, m
<1>5. m * q \in Int
  BY <1>1, <1>2
<1>6. Threaded!Wrap(n) = n - m * q
  BY <1>2, <1>3, <1>4, <1>5
<1>7. Threaded!Wrap(n) \in -Half .. Half - 1
  BY <1>1, <1>2, <1>4
<1> QED
  BY <1>2, <1>6, <1>7 DEF m

\* A number in range is what anything whole turns away from it wraps to.
LEMMA TurnsWrap ==
    ASSUME Half \in Nat \ {0}, NEW n \in Int, NEW q \in Int,
           NEW r \in -Half .. Half - 1, n = r + Threaded!Modulus * q
    PROVE  Threaded!Wrap(n) = r
<1> DEFINE m == Threaded!Modulus
<1>1. m \in Nat \ {0} /\ m = 2 * Half
  BY DEF Threaded!Modulus
<1>2. n = r + m * q
  OBVIOUS
<1>3. Threaded!Wrap(n) = ((n + Half) % m) - Half
  BY DEF Threaded!Wrap
<1> HIDE DEF m
<1>4. r + Half \in 0 .. m - 1
  BY <1>1
<1>5. PICK s \in 0 .. m - 1 : s = r + Half
  BY <1>4
<1>6. (m * q + s) % m = s
  BY <1>1
<1>7. n + Half = m * q + s
  BY <1>1, <1>2, <1>5
<1> QED
  BY <1>3, <1>5, <1>6, <1>7

\* Wrapping a count step by step is wrapping it once.
LEMMA WrapStep ==
    ASSUME Half \in Nat \ {0}, NEW n \in Int, NEW k \in Int
    PROVE  Threaded!Wrap(Threaded!Wrap(n) + k) = Threaded!Wrap(n + k)
<1> DEFINE m == Threaded!Modulus
<1>1. m \in Nat
  BY DEF Threaded!Modulus
<1>2. PICK q \in Int : Threaded!Wrap(n) = n - m * q
  BY WrapTurns
<1>3. PICK p \in Int : Threaded!Wrap(n + k) = (n + k) - m * p
  BY WrapTurns
<1>4. Threaded!Wrap(n) \in Int /\ Threaded!Wrap(n + k) \in -Half .. Half - 1
  BY WrapTurns
<1>5. Threaded!Wrap(n) + k = Threaded!Wrap(n + k) + m * (p - q)
  <2>1. m * (p - q) = m * p - m * q /\ m * p \in Int /\ m * q \in Int
    BY <1>1
  <2> HIDE DEF m
  <2> QED
    BY <1>2, <1>3, <2>1
<1>6. p - q \in Int
  OBVIOUS
<1> QED
  BY <1>4, <1>5, <1>6, TurnsWrap

-----------------------------------------------------------------------------
(* The threaded handler *)

ThreadedShape ==
    /\ module \in Phase
    /\ top \in {"idle", "count", "wake"}
    /\ N_th \in 0 .. MaxIrq
    /\ top = "count" => N_th < MaxIrq
    /\ done \in Nat
    /\ runthread \in BOOLEAN
    /\ thread \in {"none", "wait", "sleep", "inc", "dec", "exited"}
    /\ stop \in BOOLEAN

\* todo is what was posted less what was consumed, whole turns apart.
Turns == todo = Threaded!Wrap(Threaded!Posted - Threaded!Consumed)

\* The request to run comes after the event it is for, and the thread looks
\* for a request before it sleeps.
Asked ==
    /\ todo # 0 => \/ top # "idle" \/ runthread \/ stop
                   \/ thread \in {"inc", "dec"}
    /\ runthread => thread # "sleep"
    /\ stop => thread # "sleep"

\* request_threaded_irq is called once, and free_irq returns when the handler
\* and the thread have.
ThreadedLife ==
    /\ module = "out" => thread = "none"
    /\ thread = "exited" => stop
    /\ module = "freed" => thread = "exited" /\ top = "idle"

ThreadedInv == ThreadedShape /\ Turns /\ Asked /\ ThreadedLife

LEMMA ThreadedInit ==
    ASSUME Half \in Nat \ {0}, MaxIrq \in Nat, Threaded!Init
    PROVE  ThreadedInv
<1> USE DEF Threaded!Init, LineInit, Threaded!LineInit
<1>1. todo = 0 /\ Threaded!Posted - Threaded!Consumed = 0
  BY DEF Threaded!Posted, Threaded!Consumed
<1>2. Threaded!Wrap(0) = 0
  <2>1. 0 = 0 + Threaded!Modulus * 0
    BY DEF Threaded!Modulus
  <2> QED
    BY <2>1, TurnsWrap
<1>3. ThreadedShape
  <2>1. runthread \in BOOLEAN /\ stop \in BOOLEAN
    BY Zenon
  <2> QED
    BY <2>1 DEF ThreadedShape, Phase
<1> QED
  BY <1>1, <1>2, <1>3 DEF ThreadedInv, Turns, Asked, ThreadedLife

\* Each operation of the two handlers moves both sides of Turns alike.
LEMMA TurnsStays ==
    ASSUME Half \in Nat \ {0}, ThreadedInv, [Threaded!Next]_(Threaded!vars)
    PROVE  Turns'
<1> DEFINE x == Threaded!Posted - Threaded!Consumed
<1> USE DEF ThreadedInv, ThreadedShape, Threaded!Posted, Threaded!Consumed,
            Threaded!counters, Threaded!task, Threaded!line
<1>0. x \in Int
  OBVIOUS
<1>1. CASE todo' = todo /\ x' = x
  BY <1>1 DEF Turns
<1>2. ASSUME NEW k \in Int, todo' = Threaded!Wrap(todo + k), x' = x + k
      PROVE  Turns'
  <2> HIDE DEF x
  <2>1. todo = Threaded!Wrap(x)
    BY DEF Turns, x
  <2>2. todo' = Threaded!Wrap(x + k)
    BY <1>0, <1>2, <2>1, WrapStep
  <2>3. todo' = Threaded!Wrap(x')
    BY <1>2, <2>2
  <2> QED
    BY <2>3 DEF Turns, x
<1>3. CASE Threaded!Nirq_init
  <2>1. thread = "none" /\ thread' \in {"none", "wait"} /\ top' = top
    BY <1>3 DEF Threaded!Nirq_init, Threaded!RequestIrq, ThreadedLife
  <2> QED
    BY <1>1, <1>3, <2>1 DEF Threaded!Nirq_init
<1>4. CASE Threaded!Nirq_exit
  BY <1>1, <1>4
     DEF Threaded!Nirq_exit, Threaded!ExitSynchronize, Threaded!ExitUnlink,
         Threaded!ExitStop, Threaded!ExitFree, Threaded!SynchronizeIrq,
         Threaded!UnlinkIrq, Threaded!FreeIrq, Threaded!Woken
<1>5. CASE Threaded!TopTodo
  BY <1>2, <1>5 DEF Threaded!TopTodo, Threaded!Enter
<1>6. CASE Threaded!TopCount
  BY <1>1, <1>6 DEF Threaded!TopCount, Threaded!Step
<1>7. CASE Threaded!TopWakeThread
  BY <1>1, <1>7 DEF Threaded!TopWakeThread, Threaded!Step, Threaded!Woken
<1>8. CASE Threaded!ThreadWait
  BY <1>1, <1>8 DEF Threaded!ThreadWait
<1>9. CASE Threaded!BottomInc
  BY <1>1, <1>9 DEF Threaded!BottomInc
<1>10. CASE Threaded!BottomDec
  <2>1. todo' = Threaded!Wrap(todo + (-1))
    <3>1. todo \in Int
      BY <1>0, WrapTurns DEF Turns
    <3>2. todo - 1 = todo + (-1)
      BY <3>1
    <3> QED
      BY <1>10, <3>2 DEF Threaded!BottomDec
  <2>2. x' = x + (-1)
    BY <1>10 DEF Threaded!BottomDec
  <2> QED
    BY <1>2, <2>1, <2>2
<1>11. CASE UNCHANGED Threaded!vars
  BY <1>1, <1>11 DEF Threaded!vars
<1> QED
  BY <1>3, <1>4, <1>5, <1>6, <1>7, <1>8, <1>9, <1>10, <1>11
     DEF Threaded!Next, Threaded!isr_top, Threaded!isr_bottom

\* Every step of the handlers, of load and of unload keeps the rest.
LEMMA ThreadedNext ==
    ASSUME Half \in Nat \ {0}, ThreadedInv, [Threaded!Next]_(Threaded!vars)
    PROVE  ThreadedInv'
<1> USE ConstantsAssumption
    DEF ThreadedInv, ThreadedShape, Asked, ThreadedLife, Phase,
        Threaded!counters, Threaded!task, Threaded!line, Threaded!Phase
<1> DEFINE Rest == ThreadedShape /\ Asked /\ ThreadedLife
<1>0. SUFFICES Rest'
  BY TurnsStays
<1>1. CASE Threaded!Nirq_init
  BY <1>1 DEF Threaded!Nirq_init, Threaded!RequestIrq
<1>2. CASE Threaded!Nirq_exit
  <2>1. CASE Threaded!ExitSynchronize
    BY <2>1 DEF Threaded!ExitSynchronize, Threaded!SynchronizeIrq
  <2>2. CASE Threaded!ExitUnlink
    BY <2>2 DEF Threaded!ExitUnlink, Threaded!UnlinkIrq
  <2>3. CASE Threaded!ExitStop
    BY <2>3 DEF Threaded!ExitStop, Threaded!Woken
  <2>4. CASE Threaded!ExitFree
    BY <2>4 DEF Threaded!ExitFree, Threaded!FreeIrq
  <2> QED
    BY <1>2, <2>1, <2>2, <2>3, <2>4 DEF Threaded!Nirq_exit
<1>5. CASE Threaded!TopTodo
  BY <1>5 DEF Threaded!TopTodo, Threaded!Enter, Threaded!Linked
<1>6. CASE Threaded!TopCount
  BY <1>6 DEF Threaded!TopCount, Threaded!Step
<1>7. CASE Threaded!TopWakeThread
  BY <1>7 DEF Threaded!TopWakeThread, Threaded!Step, Threaded!Woken
<1>8. CASE Threaded!ThreadWait
  <2>1. UNCHANGED <<module, top, N_th, todo, done, stop>> /\ thread = "wait"
    BY <1>8 DEF Threaded!ThreadWait
  <2>2. \/ stop /\ thread' = "exited" /\ runthread' = runthread
        \/ ~stop /\ thread' = "inc" /\ ~runthread'
        \/ ~stop /\ ~runthread /\ thread' = "sleep" /\ runthread' = runthread
    BY <1>8 DEF Threaded!ThreadWait
  <2>3. runthread' \in BOOLEAN
    BY <1>8 DEF Threaded!ThreadWait
  <2> QED
    BY <2>1, <2>2, <2>3
<1>9. CASE Threaded!BottomInc
  BY <1>9 DEF Threaded!BottomInc
<1>10. CASE Threaded!BottomDec
  BY <1>10 DEF Threaded!BottomDec
<1>11. CASE UNCHANGED Threaded!vars
  BY <1>11 DEF Threaded!vars
<1> QED
  BY <1>0, <1>1, <1>2, <1>5, <1>6, <1>7, <1>8, <1>9, <1>10, <1>11
     DEF Threaded!Next, Threaded!isr_top, Threaded!isr_bottom

LEMMA ThreadedInvariance ==
    ASSUME Half \in Nat \ {0}
    PROVE  Threaded!Spec => []ThreadedInv
<1>1. Threaded!Init => ThreadedInv
  BY ConstantsAssumption, ThreadedInit
<1>2. ThreadedInv /\ [Threaded!Next]_(Threaded!vars) => ThreadedInv'
  BY ThreadedNext
<1> QED
  BY <1>1, <1>2, PTL DEF Threaded!Spec, Threaded!Safety

\* Every variable keeps its type, whatever the width of an atomic_t: done alone
\* has no bound, since a loop that runs away goes round once more each time.
THEOREM ThreadedTypeCorrect ==
    ASSUME Half \in Nat \ {0}
    PROVE  Threaded!Spec => []Threaded!TypeOK
<1>1. ThreadedInv => Threaded!TypeOK
  <2> SUFFICES ASSUME ThreadedInv PROVE Threaded!TypeOK
    OBVIOUS
  <2> USE DEF ThreadedInv, ThreadedShape
  <2>1. Threaded!Posted - Threaded!Consumed \in Int
    BY DEF Threaded!Posted, Threaded!Consumed
  <2>2. todo \in -Half .. Half - 1
    BY <2>1, WrapTurns DEF Turns
  <2> QED
    BY <2>2 DEF Threaded!TypeOK, Phase, Threaded!Phase
<1> QED
  BY <1>1, ThreadedInvariance, PTL

\* Even when the loop runs away, todo is what isr_top counted less what
\* isr_bottom consumed, modulo the width of an atomic_t; and at rest the three
\* counters agree modulo it.
THEOREM CountersAgree ==
    ASSUME Half \in Nat \ {0}
    PROVE  Threaded!Spec => []Threaded!ConservationModulo
<1> DEFINE m == Threaded!Modulus
<1>0. m \in Nat \ {0}
  BY DEF Threaded!Modulus
<1>1. ThreadedInv => Threaded!ConservationModulo
  <2> SUFFICES ASSUME ThreadedInv,
                      top = "idle" /\ thread \in {"wait", "sleep"}
               PROVE  (Threaded!Posted - todo - done) % m = 0
    BY DEF ThreadedInv, Turns, Threaded!ConservationModulo
  <2> USE DEF ThreadedInv, ThreadedShape
  <2>1. Threaded!Posted \in Int /\ Threaded!Consumed = done /\ done \in Int
    BY DEF Threaded!Posted, Threaded!Consumed
  <2>2. PICK q \in Int : todo = Threaded!Posted - done - m * q
    BY <2>1, WrapTurns DEF Turns
  <2> HIDE DEF m
  <2>3. Threaded!Posted - todo - done = m * q
    BY <1>0, <2>1, <2>2
  <2>4. (m * q) % m = 0
    BY <1>0
  <2> QED
    BY <2>3, <2>4
<1> QED
  BY <1>1, ThreadedInvariance, PTL

\* The thread never waits or sleeps on an event, unless the handler that counted
\* it has yet to ask for the thread or has asked and the thread is awake to see
\* it; or free_irq has stopped it.
THEOREM ThreadedWakeupNeverLost ==
    ASSUME Half \in Nat \ {0}
    PROVE  Threaded!Spec =>
               [](todo # 0 /\ thread \in {"wait", "sleep"} /\ ~stop =>
                      top # "idle" \/ (runthread /\ thread = "wait"))
<1>1. ThreadedInv =>
          (todo # 0 /\ thread \in {"wait", "sleep"} /\ ~stop =>
               top # "idle" \/ (runthread /\ thread = "wait"))
  BY DEF ThreadedInv, Asked
<1> QED
  BY <1>1, ThreadedInvariance, PTL

\* When free_irq has returned, the interrupt's thread has exited and no handler
\* runs.
THEOREM ThreadedNothingRunsAfterUnload ==
    ASSUME Half \in Nat \ {0}
    PROVE  Threaded!Spec =>
               [](module = "freed" => thread = "exited" /\ top = "idle")
<1>1. ThreadedInv => (module = "freed" => thread = "exited" /\ top = "idle")
  BY DEF ThreadedInv, ThreadedLife
<1> QED
  BY <1>1, ThreadedInvariance, PTL
=============================================================================
