------------------------- MODULE TaskletSmartProofs -------------------------
(***************************************************************************)
(* The catch-up tasklet, for every bound on the interrupts: its types, the *)
(* conservation of events, that no event is stranded, and that it refines  *)
(* the abstract event counter.                                             *)
(***************************************************************************)
EXTENDS TaskletSmart, TLAPS

\* Types with the counters unbounded: the bounds follow from Conservation.
Shape ==
    /\ module \in Phase
    /\ top \in {"idle", "count", "schedule"}
    /\ N_th \in 0 .. MaxIrq
    /\ todo \in Int
    /\ done \in Int
    /\ bottom \in {"idle", "check", "inc", "dec"}
    /\ sched \in BOOLEAN

\* A handler about to count its event was let in below the bound.
Room == top = "count" => N_th < MaxIrq

\* todo and done never go below zero, inside the loop or out of it.
NonNegative ==
    /\ todo >= 0
    /\ done >= 0
    /\ bottom = "dec" => done > 0

\* The inductive invariant.  Conservation alone does not bound done: that
\* takes NoUnderflow, which says the test of l. 20 is still true at l. 28.
\* NoStrandedEvent is inductive only with TopPc "idle" reached through
\* TopSchedule, which Shape gives.
IInv ==
    /\ Shape
    /\ Room
    /\ NonNegative
    /\ Conservation
    /\ NoUnderflow
    /\ NoStrandedEvent

\* The inductive invariant holds before the module is loaded.
LEMMA InitIInv == Init => IInv
<1> SUFFICES ASSUME Init PROVE IInv
  OBVIOUS
<1>1. sched \in BOOLEAN
  BY Zenon DEF Init
<1>2. module = "out" /\ top = "idle" /\ bottom = "idle"
  BY DEF Init, LineInit
<1>3. N_th = 0 /\ todo = 0 /\ done = 0
  BY DEF Init
<1>4. QED
  BY MaxIrqAssumption, <1>1, <1>2, <1>3
  DEF IInv, Shape, Room, NonNegative, Conservation, Posted,
      Consumed, NoUnderflow, NoStrandedEvent, Phase

\* Every step of the handlers, of load and of unload keeps it.
LEMMA NextIInv == IInv /\ [Next]_vars => IInv'
<1> SUFFICES ASSUME IInv, [Next]_vars
             PROVE  IInv'
  OBVIOUS
<1> USE MaxIrqAssumption DEF IInv, Shape, Room, NonNegative, Conservation,
        Posted, Consumed, NoUnderflow, NoStrandedEvent, Phase
<1>1. CASE Nirq_init
  BY <1>1 DEF Nirq_init, RequestIrq, counters, tasklet
<1>2. CASE Nirq_exit
  BY <1>2 DEF Nirq_exit, GiveBackLine, SynchronizeIrq, UnlinkIrq, FreeIrq,
              counters, tasklet
<1>3. CASE FreedTextRuns
  BY <1>3 DEF FreedTextRuns, counters, tasklet
<1>4. CASE TopTodo
  BY <1>4 DEF TopTodo, Enter, tasklet
<1>5. CASE TopCount
  BY <1>5 DEF TopCount, Step, tasklet
<1>6. CASE TopSchedule
  BY <1>6 DEF TopSchedule, Step, counters
<1>7. CASE TaskletRun
  BY <1>7 DEF TaskletRun, line, counters
<1>8. CASE BottomCheck
  BY <1>8 DEF BottomCheck, BottomStep, line
<1>9. CASE BottomInc
  BY <1>9 DEF BottomInc, BottomStep, line
<1>10. CASE BottomDec
  BY <1>10 DEF BottomDec, BottomStep, line
<1>11. CASE UNCHANGED vars
  BY <1>11 DEF vars, line, counters, tasklet
<1>12. QED
  BY <1>1, <1>2, <1>3, <1>4, <1>5, <1>6, <1>7, <1>8, <1>9, <1>10, <1>11
  DEF Next, isr_top, isr_bottom

\* So it always holds.
LEMMA Invariance == Spec => []IInv
<1>1. Spec => Safety
  BY DEF Spec
<1>2. QED
  BY InitIInv, NextIInv, <1>1, PTL DEF Safety

\* Every variable keeps its type and its bound: no counter exceeds the number
\* of interrupts, whatever the interleaving of isr_top and isr_bottom.
THEOREM TypeCorrect == Spec => []TypeOK
<1>1. IInv => TypeOK
  BY MaxIrqAssumption
  DEF IInv, Shape, Room, NonNegative, Conservation, Posted, Consumed,
      NoUnderflow, TypeOK
<1>2. QED
  BY <1>1, Invariance, PTL

\* No interleaving of isr_top and isr_bottom loses or duplicates an event.
THEOREM ConservationHolds == Spec => []Conservation
  BY Invariance, PTL DEF IInv

\* An event in todo always has a top half, a scheduled or a running tasklet
\* ahead of it that will see it.
THEOREM NoEventStranded == Spec => []NoStrandedEvent
  BY Invariance, PTL DEF IInv

\* The counters of the driver implement the abstract event counter.
THEOREM Refinement == Spec => ImplementsEventCounter
<1>1. Init => Counter!Init
  BY DEF Init, LineInit, Counter!Init, Posted
<1>2. IInv /\ [Next]_vars => [Counter!Next]_(Counter!vars)
  <2> SUFFICES ASSUME IInv, [Next]_vars
               PROVE  [Counter!Next]_(Counter!vars)
    OBVIOUS
  <2> USE MaxIrqAssumption DEF IInv, Shape, Room, NonNegative, Conservation,
          Posted, Consumed, NoUnderflow, Counter!vars
  <2>1. CASE TopTodo
    BY <2>1 DEF TopTodo, Enter, tasklet, Counter!Next, Counter!Post
  <2>2. CASE BottomInc
    BY <2>2 DEF BottomInc, BottomStep, line, Counter!Next, Counter!Handle
  <2>3. CASE TopCount
    BY <2>3 DEF TopCount, Step, tasklet
  <2>4. CASE Nirq_init
    BY <2>4 DEF Nirq_init, RequestIrq, counters
  <2>5. CASE Nirq_exit
    BY <2>5 DEF Nirq_exit, GiveBackLine, SynchronizeIrq, UnlinkIrq, FreeIrq,
                counters
  <2>6. CASE FreedTextRuns
    BY <2>6 DEF FreedTextRuns, counters
  <2>7. CASE TopSchedule
    BY <2>7 DEF TopSchedule, Step, counters
  <2>8. CASE TaskletRun
    BY <2>8 DEF TaskletRun, line, counters
  <2>9. CASE BottomCheck
    BY <2>9 DEF BottomCheck, BottomStep, line
  <2>10. CASE BottomDec
    BY <2>10 DEF BottomDec, BottomStep, line
  <2>11. CASE UNCHANGED vars
    BY <2>11 DEF vars, line, counters
  <2>12. QED
    BY <2>1, <2>2, <2>3, <2>4, <2>5, <2>6, <2>7, <2>8, <2>9, <2>10, <2>11
    DEF Next, isr_top, isr_bottom
<1>3. Spec => Safety
  BY DEF Spec
<1>4. QED
  BY <1>1, <1>2, <1>3, Invariance, PTL
  DEF Safety, ImplementsEventCounter, Counter!Safety
=============================================================================
