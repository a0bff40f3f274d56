------------------------- MODULE BottomHalvesProofs -------------------------
(***************************************************************************)
(* Seven invariants of every driver of BottomHalves, for any number of     *)
(* lines, CPUs and interrupts, each on top of the one before:              *)
(*                                                                         *)
(* IInv  the lines that get_irqs takes are those that freeup_irqs gives    *)
(*       back.  The loops look at interrupts[], in which handlers count    *)
(*       meanwhile; it says what is known of the lines before, at and      *)
(*       after the one a loop is at, and that nobody counts on a line that *)
(*       was not taken.                                                    *)
(* CInv  a counter is short of the interrupts of its line by the handler   *)
(*       that has yet to count, and by those its reset forgot.             *)
(* OInv  what an interrupt allocates is with its handler, in the queue or  *)
(*       with a function, in one of them, and is what it brought.          *)
(* TInv  a bottom half that is counted was asked for by an interrupt that  *)
(*       no other counts: the interrupts cover those counted, the handlers *)
(*       that have yet to ask, and what waits.                             *)
(* BInv  a line is charged only for those of its own interrupts that wait  *)
(*       nowhere any more, where each brings its data.                     *)
(* LInv  what a handler stores before it asks is read, overwritten, or     *)
(*       where a function on its way will read it.                         *)
(* EInv  what comes in where the function catches up is counted or waits,  *)
(*       and then so does the function, or goes on.                        *)
(***************************************************************************)
EXTENDS BottomHalves, FiniteSetTheorems, TLAPS

-----------------------------------------------------------------------------
(* What a driver's record can be: its parts, and what its handler does in   *)
(* which order.                                                             *)

Parts(r, from, by, loop, own, top_, bottom_) ==
    /\ r.from = from /\ r.by = by /\ r.loop = loop /\ r.own = own
    /\ r.top = top_ /\ r.bottom = bottom_

Kind(r) ==
    \/ Parts(r, "line", "tasklet", "none", FALSE,
             <<"count", "stamp", "schedule">>, <<"count", "print", "unlock">>)
    \/ Parts(r, "line", "work", "none", FALSE,
             <<"count", "stamp", "schedule">>, <<"count", "print">>)
    \/ Parts(r, "line", "thread", "flag", FALSE,
             <<"count", "stamp", "raise", "wake">>, <<>>)
    \/ Parts(r, "line", "thread", "catchup", FALSE,
             <<"event", "count", "raise", "stamp", "wake">>, <<>>)
    \/ Parts(r, "line", "tasklet", "catchup", FALSE,
             <<"count", "event", "stamp", "schedule">>,
             <<"events?", "count", "print", "dec", "unlock">>)
    \/ Parts(r, "line", "tasklet", "none", TRUE,
             <<"alloc", "stamp", "count", "schedule">>,
             <<"count", "print", "free", "unlock">>)
    \/ Parts(r, "line", "work", "none", TRUE,
             <<"alloc", "stamp", "count", "schedule">>,
             <<"count", "print", "free">>)
    \/ Parts(r, "line", "tasklet", "none", TRUE,
             <<"alloc", "count", "schedule">>,
             <<"count", "free null", "unlock">>)
    \/ Parts(r, "lines", "tasklet", "none", FALSE,
             <<"stamp", "count", "schedule">>, <<"charge", "unlock">>)
    \/ Parts(r, "lines", "work", "none", FALSE,
             <<"stamp", "count", "schedule">>, <<"charge">>)
    \/ Parts(r, "lines", "thread", "charge", FALSE,
             <<"stamp", "raise", "count", "wake">>, <<>>)
    \/ Parts(r, "lines", "tasklet", "none", TRUE,
             <<"alloc", "stamp", "count", "schedule">>,
             <<"charge", "free", "unlock">>)
    \/ Parts(r, "lines", "work", "none", TRUE,
             <<"alloc", "stamp", "count", "schedule">>, <<"charge", "free">>)
    \/ Parts(r, "lines", "none", "none", FALSE, <<"read", "write">>, <<>>)
    \/ Parts(r, "file", "tasklet", "none", FALSE,
             <<"schedule", "stamp">>, <<"print", "unlock">>)
    \/ Parts(r, "file", "work", "none", FALSE,
             <<"schedule", "stamp">>, <<"print">>)
    \/ Parts(r, "file", "tasklet", "none", FALSE,
             <<"stamp", "schedule">>, <<"print", "unlock">>)
    \/ Parts(r, "file", "work", "none", FALSE,
             <<"stamp", "schedule">>, <<"print">>)

\* The catalogue has no other.
LEMMA Every ==
    ASSUME driver \in Drivers
    PROVE  Kind(d)
<1> USE DEF Kind, Parts, lab2_one_tasklet
<1>1. /\ Kind(lab2_one_tasklet) /\ Kind(lab2_one_workqueue)
      /\ Kind(lab2_one_thread) /\ Kind(lab3_one_thread_improved)
      /\ Kind(lab3_one_tasklet_improved)
  BY DEF lab2_one_workqueue, lab2_one_thread, lab3_one_thread_improved,
         lab3_one_tasklet_improved
<1>2. /\ Kind(lab3_one_tasklet_dynamic) /\ Kind(lab3_one_workqueue_dynamic)
      /\ Kind(Nirq_dynamic)
      /\ Kind(lab5_all_tasklet_dynamic) /\ Kind(lab5_all_workqueue_dynamic)
  BY DEF lab3_one_tasklet_dynamic, lab3_one_workqueue_dynamic, Nirq_dynamic,
         lab5_all_tasklet_dynamic, lab5_all_workqueue_dynamic
<1>3. /\ Kind(lab4_all_tasklet) /\ Kind(lab4_all_workqueue)
      /\ Kind(lab4_all_thread) /\ Kind(lab2_interrupt)
  BY DEF lab4_all_tasklet, lab4_all_workqueue, lab4_all_thread,
         lab2_one_thread, lab2_interrupt
<1>4. /\ Kind(lab1_tasklet) /\ Kind(lab1_workqueue_shared)
      /\ Kind(lab1_workqueue_private) /\ Kind(lab1_workqueue_newapi)
      /\ Kind(tasklet) /\ Kind(workqueue)
  BY DEF lab1_tasklet, lab1_workqueue_shared, lab1_workqueue_private,
         lab1_workqueue_newapi, tasklet, workqueue
<1> HIDE DEF Kind, Parts, lab2_one_tasklet
<1>5. driver \in DOMAIN Driver
  BY DriversAssumption
<1> QED
  BY <1>1, <1>2, <1>3, <1>4, <1>5 DEF d, Driver
\* a sequence written out, of which none here is longer
WrittenOut(s) ==
    \/ \E a : s = <<a>>
    \/ \E a, b : s = <<a, b>>
    \/ \E a, b, c : s = <<a, b, c>>
    \/ \E a, b, c, e : s = <<a, b, c, e>>
    \/ \E a, b, c, e, f : s = <<a, b, c, e, f>>

LEMMA Sizes ==
    ASSUME NEW s, WrittenOut(s)
    PROVE  Len(s) \in Nat /\ DOMAIN s = 1 .. Len(s) /\ Len(s) # 0
<1>2. ASSUME NEW a, s = <<a>> PROVE Len(s) = 1 /\ DOMAIN s = 1 .. 1
  BY <1>2
<1>3. ASSUME NEW a, NEW b, s = <<a, b>> PROVE Len(s) = 2 /\ DOMAIN s = 1 .. 2
  BY <1>3
<1>4. ASSUME NEW a, NEW b, NEW c, s = <<a, b, c>>
      PROVE  Len(s) = 3 /\ DOMAIN s = 1 .. 3
  BY <1>4
<1>5. ASSUME NEW a, NEW b, NEW c, NEW e, s = <<a, b, c, e>>
      PROVE  Len(s) = 4 /\ DOMAIN s = 1 .. 4
  BY <1>5
<1>6. ASSUME NEW a, NEW b, NEW c, NEW e, NEW f, s = <<a, b, c, e, f>>
      PROVE  Len(s) = 5 /\ DOMAIN s = 1 .. 5
  BY <1>6
<1>7. \/ (Len(s) = 1 /\ DOMAIN s = 1 .. 1)
      \/ (Len(s) = 2 /\ DOMAIN s = 1 .. 2) \/ (Len(s) = 3 /\ DOMAIN s = 1 .. 3)
      \/ (Len(s) = 4 /\ DOMAIN s = 1 .. 4) \/ (Len(s) = 5 /\ DOMAIN s = 1 .. 5)
  BY <1>2, <1>3, <1>4, <1>5, <1>6, Zenon DEF WrittenOut
<1> QED
  BY <1>7

LEMMA Sized ==
    ASSUME driver \in Drivers
    PROVE  /\ Len(d.top) \in Nat \ {0} /\ DOMAIN d.top = 1 .. Len(d.top)
           /\ Len(d.bottom) \in Nat /\ DOMAIN d.bottom = 1 .. Len(d.bottom)
<1>1. /\ WrittenOut(d.top)
      /\ d.bottom = <<>> \/ WrittenOut(d.bottom)
  BY Every, Zenon DEF Kind, Parts, WrittenOut
<1> QED
  BY <1>1, Sizes

-----------------------------------------------------------------------------
(* The lines: the invariant                                                 *)

\* Line l was taken if and only if its counter is one.
Known(l) == l \in linked <=> interrupts[l] >= 0

Shapes ==
    /\ driver \in Drivers
    /\ irq \in Lines
    /\ linked \subseteq Lines
    /\ top = [l \in Lines |-> top[l]]
    /\ interrupts \in [Lines -> Int]
    /\ local \in [Lines -> Int]
    /\ \A l \in Lines : interrupts[l] >= -1 /\ local[l] >= -1

\* A handler in flight is one of a line that was taken.
InFlight ==
    \A l \in Lines :
        top[l] # 0 => \/ l \in linked
                      \/ (module = "waiting" /\ irq = l)
                      \/ module = "oops"

\* Where each kind of driver can be, and at which line.
Places ==
    /\ module \in {"loading", "reset"} => d.from = "lines"
    /\ module \in {"unlinking", "waiting"} => d.from # "file"
    /\ module \in {"out", "starting", "in", "stopping"} => irq = 1
    /\ d.from = "line" => (irq = 1 /\ linked \subseteq {1})
    /\ ((d.from = "line" /\ module = "waiting") => linked = {})
    /\ module = "freed" => linked = {}

\* The loops over all lines
Loops ==
    d.from = "lines" =>
        /\ module \in {"out", "starting", "failed"} => linked = {}
        /\ module \in {"loading", "reset"} =>
              \A l \in Lines : /\ l < irq => Known(l)
                               /\ l > irq => l \notin linked
        /\ module = "loading" => irq \notin linked
        /\ module = "reset" => irq \in linked
        /\ module \in {"in", "stopping"} => \A l \in Lines : Known(l)
        /\ module \in {"leaving", "unlinking", "waiting"} =>
              \A l \in Lines : /\ l < irq => l \notin linked
                               /\ l > irq => Known(l)
        /\ module = "leaving" => Known(irq)
        /\ module = "unlinking" => irq \in linked
        /\ module = "waiting" => irq \notin linked

IInv == Shapes /\ InFlight /\ Places /\ Loops

-----------------------------------------------------------------------------

\* What the handlers, the bottom halves and the thread do to line l: they count
\* only where a handler is in flight.
Quiet(l) ==
    /\ top'[l] # 0 => (top[l] # 0 \/ l \in linked)
    /\ local'[l] >= -1
    /\ \/ interrupts'[l] = interrupts[l]
       \/ (top[l] # 0 /\ TextPresent /\ interrupts'[l] >= 0)

Counts ==
    /\ UNCHANGED life
    /\ top' = [l \in Lines |-> top'[l]]
    /\ interrupts' \in [Lines -> Int]
    /\ local' \in [Lines -> Int]
    /\ \A l \in Lines : Quiet(l)

LEMMA NothingCounted ==
    ASSUME Shapes, UNCHANGED <<life, top, interrupts, local>>
    PROVE  Counts
BY DEF Shapes, Counts, Quiet

LEMMA TopCounts ==
    ASSUME Shapes, NEW l \in Lines, my_interrupt(l)
    PROVE  Counts
<1> DEFINE goes == /\ UNCHANGED life
                   /\ TextPresent /\ top[l] # 0
                   /\ top' = [top EXCEPT ![l] = (@ + 1) % (Len(d.top) + 1)]
<1>1. ASSUME NEW op, Does(l, op) PROVE goes
  BY <1>1 DEF Does, AtTop
<1>2. ASSUME goes
      PROVE  /\ top' = [k \in Lines |-> top'[k]]
             /\ \A k \in Lines : top'[k] # 0 => (top[k] # 0 \/ k \in linked)
  <2> DEFINE n == (top[l] + 1) % (Len(d.top) + 1)
  <2>1. top' = [top EXCEPT ![l] = n]
    BY <1>2
  <2> HIDE DEF n
  <2>2. top[l] # 0
    BY <1>2
  <2> QED
    BY <2>1, <2>2 DEF Shapes
<1>3. ASSUME goes, UNCHANGED interrupts, UNCHANGED local PROVE Counts
  BY <1>2, <1>3 DEF Counts, Quiet, Shapes
<1>4. CASE TopCount(l)
  <2>1. goes /\ interrupts' = [interrupts EXCEPT ![l] = @ + 1] /\ local' = local
    BY <1>1, <1>4 DEF TopCount
  <2>2. interrupts' \in [Lines -> Int] /\ interrupts'[l] >= 0
    BY <2>1 DEF Shapes
  <2>3. \A k \in Lines : k = l \/ interrupts'[k] = interrupts[k]
    BY <2>1 DEF Shapes
  <2> QED
    BY <1>2, <2>1, <2>2, <2>3 DEF Counts, Quiet, Shapes
<1>5. CASE TopRead(l)
  <2>1. goes /\ local' = [local EXCEPT ![l] = interrupts[l]]
        /\ interrupts' = interrupts
    BY <1>1, <1>5 DEF TopRead
  <2>2. local' \in [Lines -> Int] /\ \A k \in Lines : local'[k] >= -1
    BY <2>1 DEF Shapes
  <2> QED
    BY <1>2, <2>1, <2>2 DEF Counts, Quiet, Shapes
<1>6. CASE TopWrite(l)
  <2>1. goes /\ interrupts' = [interrupts EXCEPT ![l] = local[l] + 1]
        /\ local' = local
    BY <1>1, <1>6 DEF TopWrite
  <2>2. interrupts' \in [Lines -> Int] /\ interrupts'[l] >= 0
    BY <2>1 DEF Shapes
  <2>3. \A k \in Lines : k = l \/ interrupts'[k] = interrupts[k]
    BY <2>1 DEF Shapes
  <2> QED
    BY <1>2, <2>1, <2>2, <2>3 DEF Counts, Quiet, Shapes
<1>7. ASSUME \/ TopAlloc(l) \/ TopStamp(l) \/ TopEvent(l)
             \/ TopSchedule(l) \/ TopRaise(l) \/ TopWake(l)
      PROVE  Counts
  <2>1. goes
    BY <1>1, <1>7
       DEF TopAlloc, TopStamp, TopEvent, TopSchedule, TopRaise, TopWake
  <2>2. UNCHANGED interrupts /\ UNCHANGED local
    BY <1>7
       DEF TopAlloc, TopStamp, TopEvent, TopSchedule, TopRaise, TopWake
  <2> QED
    BY <1>3, <2>1, <2>2
<1> QED
  BY <1>4, <1>5, <1>6, <1>7 DEF my_interrupt

LEMMA RunnableCounts ==
    ASSUME Shapes, Runnable
    PROVE  Counts
<1>1. ASSUME NEW c \in Cpus, bottom(c) PROVE Counts
  BY <1>1, NothingCounted
     DEF bottom, BottomCount, BottomCharge, BottomPrint, BottomFree,
         BottomOther, BottomTest, BottomDec, Runs, Goes, tops
<1>2. ASSUME NEW c \in Cpus, NEW i \in Items, BottomRun(c, i) PROVE Counts
  BY <1>2, NothingCounted DEF BottomRun, tops, counters
<1>3. CASE thr_fun
  BY <1>3, NothingCounted
     DEF thr_fun, ThreadRead, ThreadClear, ThreadWait, ThreadCount,
         ThreadPrint, ThreadStopTest, ThreadEventsTest, ThreadInc, ThreadDec,
         ThreadWhile, At, tops
<1> QED
  BY <1>1, <1>2, <1>3, TopCounts DEF Runnable

LEMMA EnterCounts ==
    ASSUME Shapes, NEW l \in Lines, Enter(l)
    PROVE  Counts
BY DEF Shapes, Counts, Quiet, Enter, counters

\* Counting where a handler is in flight changes nothing that is known.
LEMMA CountsIInv ==
    ASSUME IInv, Counts
    PROVE  IInv'
<1> USE DEF IInv
<1>1. /\ UNCHANGED <<module, irq, linked>> /\ d' = d /\ driver' = driver
      /\ TextPresent' = TextPresent
  BY DEF Counts, life, d, TextPresent
<1>2. Shapes'
  BY <1>1 DEF Shapes, Counts, Quiet
<1>3. InFlight'
  BY <1>1 DEF InFlight, Counts, Quiet
<1>4. Places'
  BY <1>1 DEF Places
<1>5. ASSUME NEW l \in Lines, Known(l), ~(module = "waiting" /\ irq = l)
      PROVE  Known(l)'
  BY <1>1, <1>5 DEF Known, Counts, Quiet, InFlight, TextPresent, Shapes
<1>6. Loops'
  <2> SUFFICES ASSUME d.from = "lines" PROVE Loops'
    BY <1>1 DEF Loops
  <2>1. \A l \in Lines : Known(l) /\ module # "waiting" => Known(l)'
    BY <1>5
  <2>2. \A l \in Lines : Known(l) /\ l # irq => Known(l)'
    BY <1>5
  <2>3. \A l \in Lines : l > irq => l # irq
    BY DEF Shapes, Lines
  <2> QED
    BY <1>1, <2>1, <2>2, <2>3 DEF Loops, Shapes
<1> QED
  BY <1>2, <1>3, <1>4, <1>6

-----------------------------------------------------------------------------

\* What a loop over the lines does
LEMMA LoopMoves ==
    ASSUME Shapes, NEW next, NEW done, LoopFrom(next, done)
    PROVE  /\ irq' \in Lines
           /\ \/ (module' = done /\ irq' = 1
                    /\ (d.from = "line" \/ \A l \in Lines : l <= irq))
              \/ (module' = next /\ irq' = irq + 1 /\ d.from # "line")
BY ConstantsAssumption DEF LoopFrom, Shapes, Lines

\* No record's from field changes while a driver is loaded.
LEMMA SameDriver ==
    ASSUME UNCHANGED driver
    PROVE  d' = d
BY DEF d

LEMMA EveryFrom ==
    ASSUME driver \in Drivers
    PROVE  d.from \in {"line", "lines", "file"}
BY Every DEF Kind, Parts

LEMMA InitIInv ==
    ASSUME Init
    PROVE  IInv
BY ConstantsAssumption
   DEF Init, IInv, Shapes, InFlight, Places, Loops, Lines

LEMMA RunThreadIInv ==
    ASSUME IInv, RunThread
    PROVE  IInv'
BY SameDriver
   DEF IInv, Shapes, InFlight, Places, Loops, Known, RunThread, tops, counters

LEMMA RegisterIInv ==
    ASSUME IInv, Register
    PROVE  IInv'
<1>1. /\ UNCHANGED <<irq, top, local, interrupts>> /\ d' = d /\ driver' = driver
      /\ module \in {"out", "starting"}
  BY SameDriver DEF Register, tops, counters
<1>2. linked' \in {linked, {1}, {}, Lines} /\ module' \in {"failed", "loading", "in"}
  BY DEF Register
<1>3. Shapes'
  BY <1>1, <1>2, ConstantsAssumption DEF IInv, Shapes, Lines
<1>4. InFlight'
  BY <1>1 DEF IInv, InFlight, Places, Loops, Shapes, Register
<1>5. Places'
  BY <1>1 DEF IInv, Places, Register
<1>6. Loops'
  BY <1>1, ConstantsAssumption DEF IInv, Places, Loops, Register, Lines
<1> QED
  BY <1>3, <1>4, <1>5, <1>6 DEF IInv

LEMMA RequestIInv ==
    ASSUME IInv, RequestLine
    PROVE  IInv'
<1>1. /\ UNCHANGED <<top, local>> /\ d' = d /\ driver' = driver
      /\ module = "loading" /\ d.from = "lines" /\ irq \in Lines
      /\ interrupts' = [interrupts EXCEPT ![irq] = -1]
  BY SameDriver DEF IInv, Places, Shapes, RequestLine, tops
<1>2. /\ interrupts' \in [Lines -> Int] /\ interrupts'[irq] = -1
      /\ \A l \in Lines : l = irq \/ interrupts'[l] = interrupts[l]
  BY <1>1 DEF IInv, Shapes
<1>3. /\ irq \notin linked
      /\ \A l \in Lines : (l < irq => Known(l)) /\ (l > irq => l \notin linked)
  BY <1>1 DEF IInv, Loops
<1>4. CASE linked' = linked \cup {irq} /\ module' = "reset" /\ irq' = irq
  <2>1. Shapes'
    BY <1>1, <1>2, <1>4 DEF IInv, Shapes
  <2>2. InFlight'
    BY <1>1, <1>4 DEF IInv, InFlight
  <2>3. Places'
    BY <1>1, <1>4 DEF IInv, Places
  <2>4. \A l \in Lines : (l < irq => Known(l)') /\ (l > irq => l \notin linked')
    BY <1>2, <1>3, <1>4, <1>1 DEF Known, Lines
  <2>5. Loops'
    BY <1>1, <1>4, <2>4 DEF Loops
  <2> QED
    BY <2>1, <2>2, <2>3, <2>5 DEF IInv
<1>5. CASE linked' = linked /\ LoopFrom("loading", "in")
  <2>1. /\ irq' \in Lines
        /\ \/ (module' = "in" /\ irq' = 1 /\ \A l \in Lines : l <= irq)
           \/ (module' = "loading" /\ irq' = irq + 1)
    BY <1>1, <1>5, LoopMoves DEF IInv
  <2>2. Shapes'
    BY <1>1, <1>2, <1>5, <2>1 DEF IInv, Shapes
  <2>3. InFlight'
    BY <1>1, <1>5 DEF IInv, InFlight
  <2>4. Places'
    BY <1>1, <1>5, <2>1 DEF IInv, Places
  <2>5. \A l \in Lines : (l <= irq => Known(l)') /\ (l > irq => l \notin linked')
    BY <1>1, <1>2, <1>3, <1>5 DEF Known, Lines
  <2>6. Loops'
    BY <1>1, <2>1, <2>5, <1>3, <1>5 DEF Loops, Lines
  <2> QED
    BY <2>2, <2>3, <2>4, <2>6 DEF IInv
<1> QED
  BY <1>4, <1>5 DEF RequestLine

LEMMA ResetIInv ==
    ASSUME IInv, ResetCounter
    PROVE  IInv'
<1>1. /\ UNCHANGED <<top, local, linked>> /\ d' = d /\ driver' = driver
      /\ module = "reset" /\ d.from = "lines" /\ irq \in Lines
      /\ interrupts' = [interrupts EXCEPT ![irq] = 0]
  BY SameDriver DEF IInv, Places, Shapes, ResetCounter, tops
<1>2. /\ interrupts' \in [Lines -> Int] /\ interrupts'[irq] = 0
      /\ \A l \in Lines : l = irq \/ interrupts'[l] = interrupts[l]
  BY <1>1 DEF IInv, Shapes
<1>3. /\ irq \in linked
      /\ \A l \in Lines : (l < irq => Known(l)) /\ (l > irq => l \notin linked)
  BY <1>1 DEF IInv, Loops
<1>4. /\ irq' \in Lines
      /\ \/ (module' = "in" /\ irq' = 1 /\ \A l \in Lines : l <= irq)
         \/ (module' = "loading" /\ irq' = irq + 1)
  BY <1>1, LoopMoves DEF IInv, ResetCounter
<1>5. Shapes'
  BY <1>1, <1>2, <1>4 DEF IInv, Shapes
<1>6. InFlight'
  BY <1>1 DEF IInv, InFlight
<1>7. Places'
  BY <1>1, <1>4 DEF IInv, Places
<1>8. \A l \in Lines : (l <= irq => Known(l)') /\ (l > irq => l \notin linked')
  BY <1>1, <1>2, <1>3 DEF Known, Lines
<1>9. Loops'
  BY <1>1, <1>4, <1>8 DEF Loops, Lines
<1> QED
  BY <1>5, <1>6, <1>7, <1>9 DEF IInv

\* kthread_stop, and its return
LEMMA ThreadStopIInv ==
    ASSUME IInv, StopThread \/ JoinThread
    PROVE  IInv'
<1>1. /\ UNCHANGED <<irq, top, local, interrupts, linked>> /\ d' = d /\ driver' = driver
      /\ \/ (module = "in" /\ module' \in {"stopping", "oops"})
         \/ (module = "stopping" /\ module' = "leaving")
  BY SameDriver DEF StopThread, JoinThread, tops, counters
<1>2. Shapes' /\ InFlight'
  BY <1>1 DEF IInv, Shapes, InFlight
<1>3. Places'
  BY <1>1 DEF IInv, Places
<1>4. \A l \in Lines : Known(l)' = Known(l)
  BY <1>1 DEF Known
<1>5. Loops'
  BY <1>1, <1>4 DEF IInv, Loops, Places, Shapes, Lines
<1> QED
  BY <1>2, <1>3, <1>5 DEF IInv

LEMMA SynchronizeIInv ==
    ASSUME IInv, SynchronizeIrq
    PROVE  IInv'
<1>1. /\ UNCHANGED <<top, local, interrupts, linked>> /\ d' = d /\ driver' = driver
      /\ module \in {"in", "leaving"} /\ d.from # "file" /\ irq \in Lines
  BY SameDriver DEF IInv, Shapes, SynchronizeIrq, Leaving, tops, counters
<1>2. \A l \in Lines : Known(l)' = Known(l)
  BY <1>1 DEF Known
<1>3. d.from = "lines" =>
          /\ Known(irq)
          /\ \A l \in Lines : (l < irq => l \notin linked) /\ (l > irq => Known(l))
  BY <1>1 DEF IInv, Loops, Places, Lines
<1>4. CASE /\ d.from = "lines" /\ interrupts[irq] < 0
           /\ LoopFrom("leaving", "freed")
  <2>1. /\ irq' \in Lines
        /\ \/ (module' = "freed" /\ irq' = 1 /\ \A l \in Lines : l <= irq)
           \/ (module' = "leaving" /\ irq' = irq + 1)
    BY <1>1, <1>4, LoopMoves DEF IInv
  <2>2. \A l \in Lines : (l <= irq => l \notin linked) /\ (l > irq => Known(l))
    BY <1>1, <1>3, <1>4 DEF Known, IInv, Shapes, Lines
  <2>3. Shapes'
    BY <1>1, <2>1 DEF IInv, Shapes
  <2>4. InFlight'
    BY <1>1 DEF IInv, InFlight
  <2>5. Places'
    BY <1>1, <1>4, <2>1, <2>2 DEF IInv, Places, Shapes
  <2>6. Loops'
    BY <1>1, <1>2, <2>1, <2>2 DEF Loops, Lines
  <2> QED
    BY <2>3, <2>4, <2>5, <2>6 DEF IInv
<1>5. CASE /\ ~(d.from = "lines" /\ interrupts[irq] < 0)
           /\ top[irq] = 0 /\ module' = "unlinking" /\ irq' = irq
  <2>1. Shapes'
    BY <1>1, <1>5 DEF IInv, Shapes
  <2>2. InFlight'
    BY <1>1 DEF IInv, InFlight
  <2>3. Places'
    BY <1>1, <1>5 DEF IInv, Places
  <2>4. d.from = "lines" => irq \in linked
    BY <1>1, <1>3, <1>5 DEF Known, IInv, Shapes
  <2>5. Loops'
    BY <1>1, <1>2, <1>3, <1>5, <2>4 DEF Loops
  <2> QED
    BY <2>1, <2>2, <2>3, <2>5 DEF IInv
<1> QED
  BY <1>4, <1>5 DEF SynchronizeIrq

LEMMA UnlinkIInv ==
    ASSUME IInv, UnlinkIrq
    PROVE  IInv'
<1>1. /\ UNCHANGED <<irq, top, local, interrupts>> /\ d' = d /\ driver' = driver
      /\ module = "unlinking" /\ module' = "waiting"
      /\ linked' = linked \ {irq}
  BY SameDriver DEF UnlinkIrq, tops, counters
<1>2. Shapes' /\ InFlight'
  BY <1>1 DEF IInv, Shapes, InFlight
<1>3. Places'
  BY <1>1 DEF IInv, Places
<1>4. \A l \in Lines : l > irq => (Known(l) => Known(l)')
  BY <1>1 DEF Known, IInv, Shapes, Lines
<1>5. Loops'
  BY <1>1, <1>4 DEF IInv, Loops
<1> QED
  BY <1>2, <1>3, <1>5 DEF IInv

LEMMA FreeIInv ==
    ASSUME IInv, FreeIrq
    PROVE  IInv'
<1>1. /\ UNCHANGED <<top, local, interrupts, linked>> /\ d' = d /\ driver' = driver
      /\ module = "waiting" /\ d.from # "file" /\ irq \in Lines /\ top[irq] = 0
  BY SameDriver DEF IInv, Shapes, Places, FreeIrq, tops, counters
<1>2. \A l \in Lines : Known(l)' = Known(l)
  BY <1>1 DEF Known
<1>3. d.from = "lines" =>
          \A l \in Lines : (l <= irq => l \notin linked) /\ (l > irq => Known(l))
  BY <1>1 DEF IInv, Loops, Lines
<1>4. /\ irq' \in Lines
      /\ \/ (module' = "freed" /\ irq' = 1
               /\ (d.from = "line" \/ \A l \in Lines : l <= irq))
         \/ (module' = "leaving" /\ irq' = irq + 1 /\ d.from # "line")
  BY <1>1, LoopMoves DEF IInv, FreeIrq
<1>5. Shapes'
  BY <1>1, <1>4 DEF IInv, Shapes
<1>6. InFlight'
  BY <1>1 DEF IInv, InFlight
<1>7. Places'
  BY <1>1, <1>3, <1>4, EveryFrom DEF IInv, Places, Shapes
<1>8. Loops'
  BY <1>1, <1>2, <1>3, <1>4 DEF Loops, Lines
<1> QED
  BY <1>5, <1>6, <1>7, <1>8 DEF IInv

\* misc_deregister, and the steps that end in an oops
LEMMA OtherIInv ==
    ASSUME IInv,
           \/ Deregister \/ FreedTextRuns \/ \E l \in Lines : AllocFails(l)
    PROVE  IInv'
<1>1. UNCHANGED <<irq, top, local, interrupts>> /\ d' = d /\ driver' = driver
  BY SameDriver DEF Deregister, FreedTextRuns, AllocFails, tops, counters
<1>2. CASE module' = "oops" /\ linked' = linked
  <2>1. Shapes' /\ InFlight'
    BY <1>1, <1>2 DEF IInv, Shapes, InFlight
  <2>2. Places' /\ Loops'
    BY <1>1, <1>2 DEF IInv, Places, Loops
  <2> QED
    BY <2>1, <2>2 DEF IInv
<1>3. CASE Deregister
  <2>1. /\ module' = "freed" /\ linked' = {} /\ d.from = "file"
        /\ \A l \in Lines : top[l] = 0
    BY <1>3 DEF Deregister
  <2>2. Shapes' /\ InFlight'
    BY <1>1, <2>1 DEF IInv, Shapes, InFlight
  <2>3. Places' /\ Loops'
    BY <1>1, <2>1 DEF IInv, Places, Loops
  <2> QED
    BY <2>2, <2>3 DEF IInv
<1> QED
  BY <1>2, <1>3 DEF FreedTextRuns, AllocFails

LEMMA StepIInv ==
    ASSUME IInv, [Next]_vars
    PROVE  IInv'
<1>1. CASE my_init
  BY <1>1, RunThreadIInv, RegisterIInv, RequestIInv, ResetIInv DEF my_init
<1>2. CASE my_exit
  BY <1>2, ThreadStopIInv, SynchronizeIInv, UnlinkIInv, FreeIInv, OtherIInv
     DEF my_exit
<1>3. CASE FreedTextRuns \/ \E l \in Lines : AllocFails(l)
  BY <1>3, OtherIInv
<1>4. ASSUME NEW l \in Lines, Enter(l) PROVE IInv'
  BY <1>4, EnterCounts, CountsIInv DEF IInv
<1>5. CASE Runnable
  BY <1>5, RunnableCounts, CountsIInv DEF IInv
<1>6. CASE UNCHANGED vars
  BY <1>6, NothingCounted, CountsIInv DEF IInv, vars, tops, counters
<1> QED
  BY <1>1, <1>2, <1>3, <1>4, <1>5, <1>6 DEF Next

\* freeup_irqs gives back every line that get_irqs took and no other, though
\* what tells it, interrupts[] < 0, counts while the loops run; and my_exit of
\* a driver of one line or of a file leaves nothing linked either.
THEOREM LinesTakenAreGivenBack == Spec => []LinesGivenBack
<1>1. IInv => LinesGivenBack
  BY DEF IInv, Places, Loops, Known, LinesGivenBack
<1> QED
  BY InitIInv, StepIInv, <1>1, PTL DEF Spec
-----------------------------------------------------------------------------
(* Handlers: where they stand, and how many there were                      *)

Tops == top \in [Lines -> 0 .. Len(d.top)]

\* The place of the one of ops in the handler
Unique(ops) ==
    \E n \in DOMAIN d.top :
        /\ d.top[n] \in ops
        /\ \A m \in DOMAIN d.top : d.top[m] \in ops => m = n
Place(ops) == CHOOSE n \in DOMAIN d.top : d.top[n] \in ops

\* The handler of l has the one of ops still to do.
Ahead(l, ops) == top[l] # 0 /\ top[l] <= Place(ops)

\* the remainder by which a handler goes on
LEMMA Around ==
    ASSUME NEW n \in Nat, NEW m \in 0 .. n
    PROVE  (m + 1) % (n + 1) = IF m = n THEN 0 ELSE m + 1
<1>1. ASSUME NEW k \in Nat \ {0}, NEW j \in Nat, j < k PROVE j % k = j
  BY <1>1
<1>2. ASSUME NEW k \in Nat \ {0} PROVE k % k = 0
  BY <1>2
<1> QED
  BY <1>1, <1>2

LEMMA Placed ==
    ASSUME driver \in Drivers, NEW ops, Unique(ops)
    PROVE  /\ Place(ops) \in 1 .. Len(d.top) /\ d.top[Place(ops)] \in ops
           /\ \A m \in 1 .. Len(d.top) : d.top[m] \in ops => m = Place(ops)
BY Sized DEF Unique, Place

\* A handler goes on to its next operation, or returns.
LEMMA Advances ==
    ASSUME driver \in Drivers, Tops, NEW l \in Lines, NEW op, Does(l, op)
    PROVE  /\ UNCHANGED <<life, item, bhs, counter_bh, runner, fired, early>>
           /\ TextPresent /\ d' = d /\ Tops'
           /\ top[l] \in 1 .. Len(d.top) /\ d.top[top[l]] = op
           /\ top'[l] = IF top[l] = Len(d.top) THEN 0 ELSE top[l] + 1
           /\ \A k \in Lines \ {l} : top'[k] = top[k]
<1>1. /\ UNCHANGED <<life, item, bhs, counter_bh, runner, fired, early>>
      /\ TextPresent /\ top[l] # 0 /\ d.top[top[l]] = op
      /\ top' = [top EXCEPT ![l] = (@ + 1) % (Len(d.top) + 1)]
  BY DEF Does, AtTop
<1>2. d' = d
  BY <1>1, SameDriver DEF life
<1>3. Len(d.top) \in Nat \ {0} /\ top[l] \in 1 .. Len(d.top)
  BY <1>1, Sized DEF Tops
<1>4. (top[l] + 1) % (Len(d.top) + 1) =
          IF top[l] = Len(d.top) THEN 0 ELSE top[l] + 1
  BY <1>3, Around
<1> DEFINE n == IF top[l] = Len(d.top) THEN 0 ELSE top[l] + 1
<1>5. n \in 0 .. Len(d.top)
  BY <1>3
<1>6. top' = [top EXCEPT ![l] = n]
  BY <1>1, <1>4
<1> HIDE DEF n
<1>7. top'[l] = n /\ Tops' /\ \A k \in Lines \ {l} : top'[k] = top[k]
  BY <1>2, <1>5, <1>6 DEF Tops
<1> QED
  BY <1>1, <1>2, <1>3, <1>7 DEF n

\* It has done the one of ops after that operation, and no other handler has.
LEMMA AheadMoves ==
    ASSUME driver \in Drivers, Tops, NEW ops, Unique(ops),
           NEW l \in Lines, NEW op, Does(l, op)
    PROVE  /\ op \in ops => Ahead(l, ops) /\ ~Ahead(l, ops)'
           /\ op \notin ops => Ahead(l, ops)' = Ahead(l, ops)
           /\ \A k \in Lines \ {l} : Ahead(k, ops)' = Ahead(k, ops)
<1>1. /\ d' = d /\ top[l] \in 1 .. Len(d.top) /\ d.top[top[l]] = op
      /\ top'[l] = IF top[l] = Len(d.top) THEN 0 ELSE top[l] + 1
      /\ \A k \in Lines \ {l} : top'[k] = top[k]
  BY Advances
<1>2. Place(ops)' = Place(ops)
  BY <1>1 DEF Place
<1>3. /\ Place(ops) \in 1 .. Len(d.top) /\ d.top[Place(ops)] \in ops
      /\ \A m \in 1 .. Len(d.top) : d.top[m] \in ops => m = Place(ops)
      /\ Len(d.top) \in Nat
  BY Placed, Sized
<1>4. \A k \in Lines \ {l} : Ahead(k, ops)' = Ahead(k, ops)
  BY <1>1, <1>2 DEF Ahead
<1>5. ASSUME op \in ops PROVE Ahead(l, ops) /\ ~Ahead(l, ops)'
  BY <1>1, <1>2, <1>3, <1>5 DEF Ahead
<1>6. ASSUME op \notin ops PROVE Ahead(l, ops)' = Ahead(l, ops)
  <2>1. top[l] # Place(ops)
    BY <1>1, <1>3, <1>6
  <2> QED
    BY <1>1, <1>2, <1>3, <2>1 DEF Ahead
<1> QED
  BY <1>4, <1>5, <1>6

\* The interrupts of a line are one more when one comes.
LEMMA FiredGrows ==
    ASSUME fired \in Seq(Lines), NEW l \in Lines, fired' = Append(fired, l)
    PROVE  /\ fired' \in Seq(Lines) /\ Len(fired') = Len(fired) + 1
           /\ \A k \in Lines : Fired(k)' = IF k = l THEN Fired(k) + 1 ELSE Fired(k)
<1> DEFINE n == Len(fired) + 1
           F(k) == {i \in DOMAIN fired : fired[i] = k}
<1>1. /\ fired' \in Seq(Lines) /\ Len(fired') = n /\ DOMAIN fired' = 1 .. n
      /\ DOMAIN fired = 1 .. Len(fired) /\ n \in Nat /\ n \notin DOMAIN fired
      /\ fired'[n] = l /\ \A i \in DOMAIN fired : fired'[i] = fired[i]
  OBVIOUS
<1>2. ASSUME NEW k \in Lines
      PROVE  Fired(k)' = IF k = l THEN Fired(k) + 1 ELSE Fired(k)
  <2>1. IsFiniteSet(F(k))
    <3>1. IsFiniteSet(1 .. Len(fired))
      BY <1>1, FS_Interval
    <3> QED
      BY <1>1, <3>1, FS_Subset
  <2>2. CASE k = l
    <3>1. {i \in DOMAIN fired' : fired'[i] = k} = F(k) \cup {n}
      BY <1>1, <2>2
    <3>2. n \notin F(k)
      BY <1>1
    <3> QED
      BY <2>1, <2>2, <3>1, <3>2, FS_AddElement DEF Fired
  <2>3. CASE k # l
    <3>1. {i \in DOMAIN fired' : fired'[i] = k} = F(k)
      BY <1>1, <2>3
    <3> QED
      BY <2>3, <3>1 DEF Fired
  <2> QED
    BY <2>2, <2>3
<1> QED
  BY <1>1, <1>2

LEMMA FiredCounts ==
    ASSUME fired \in Seq(Lines), NEW l \in Lines
    PROVE  Fired(l) \in Nat
<1>1. IsFiniteSet(1 .. Len(fired))
  BY FS_Interval
<1>2. IsFiniteSet({i \in DOMAIN fired : fired[i] = l})
  BY <1>1, FS_Subset
<1> QED
  BY <1>2, FS_CardinalityType DEF Fired

-----------------------------------------------------------------------------
(* What is forgotten: a counter and the interrupts of its line              *)

Counters == {"count", "write"}
Owed(l) == IF Ahead(l, Counters) THEN 1 ELSE 0
AtWrite(l) == top[l] # 0 /\ d.top[top[l]] = "write"

\* Line l is taken and its counter is one, and nothing but a counter.
Counted(l) == l \in linked /\ module # "oops" /\ ~(module = "reset" /\ irq = l)

Histories ==
    /\ Tops
    /\ fired \in Seq(Lines) /\ early \in [Lines -> Int]

\* The handlers that have yet to count, one for each line at most, make up the
\* difference; lab2_interrupt's count is in its local variable for a while.
CountsUp ==
    d.from = "lines" =>
        \A l \in Lines :
            /\ top[l] # 0 => Fired(l) >= 1
            /\ interrupts[l] + Owed(l) <= Fired(l)
            /\ AtWrite(l) => local[l] < Fired(l)
            /\ Counted(l) =>
                  /\ interrupts[l] + Owed(l) >= Fired(l) - early[l]
                  /\ AtWrite(l) => local[l] + 1 >= Fired(l) - early[l]

CInv == IInv /\ Histories /\ CountsUp

LEMMA LinesTops ==
    ASSUME driver \in Drivers, d.from = "lines"
    PROVE  /\ Unique(Counters)
           /\ d.top[1] # "write"
           /\ \A n \in DOMAIN d.top :
                 /\ d.top[n] = "read" =>
                       n + 1 \in DOMAIN d.top /\ d.top[n + 1] = "write"
                 /\ n + 1 \in DOMAIN d.top /\ d.top[n + 1] = "write" =>
                       d.top[n] = "read"
<1>1. \/ d.top = <<"stamp", "count", "schedule">>
      \/ d.top = <<"stamp", "raise", "count", "wake">>
      \/ d.top = <<"alloc", "stamp", "count", "schedule">>
      \/ d.top = <<"read", "write">>
  BY Every DEF Kind, Parts
<1>2. CASE d.top = <<"stamp", "count", "schedule">>
  <2>1. d.top[2] \in Counters
    BY <1>2 DEF Counters
  <2> QED
    BY <1>2, <2>1 DEF Unique, Counters
<1>3. CASE d.top = <<"stamp", "raise", "count", "wake">>
  <2>1. d.top[3] \in Counters
    BY <1>3 DEF Counters
  <2> QED
    BY <1>3, <2>1 DEF Unique, Counters
<1>4. CASE d.top = <<"alloc", "stamp", "count", "schedule">>
  <2>1. d.top[3] \in Counters
    BY <1>4 DEF Counters
  <2> QED
    BY <1>4, <2>1 DEF Unique, Counters
<1>5. CASE d.top = <<"read", "write">>
  <2>1. d.top[2] \in Counters
    BY <1>5 DEF Counters
  <2> QED
    BY <1>5, <2>1 DEF Unique, Counters
<1> QED
  BY <1>1, <1>2, <1>3, <1>4, <1>5

\* Nothing changes while no line becomes one that counts.
LEMMA StandsUp ==
    ASSUME CInv, UNCHANGED <<driver, top, interrupts, local, fired, early>>,
           \A l \in Lines : Counted(l)' => Counted(l)
    PROVE  Histories' /\ CountsUp'
<1>1. d' = d
  BY SameDriver
<1>2. \A l \in Lines : /\ Fired(l)' = Fired(l) /\ Owed(l)' = Owed(l)
                       /\ AtWrite(l)' = AtWrite(l)
  BY <1>1 DEF Fired, Owed, Ahead, Place, AtWrite
<1>3. Histories'
  BY <1>1 DEF CInv, Histories, Tops
<1>4. CountsUp'
  BY <1>1, <1>2 DEF CInv, CountsUp
<1> QED
  BY <1>3, <1>4

LEMMA RequestUp ==
    ASSUME CInv, RequestLine
    PROVE  Histories' /\ CountsUp'
<1>1. /\ UNCHANGED <<top, local, fired, early, driver>> /\ d' = d
      /\ module = "loading" /\ d.from = "lines" /\ irq \in Lines
      /\ interrupts' = [interrupts EXCEPT ![irq] = -1]
  BY SameDriver
     DEF CInv, IInv, Places, Shapes, RequestLine, tops, history
<1>2. /\ interrupts' \in [Lines -> Int] /\ interrupts'[irq] = -1
      /\ \A l \in Lines : l = irq \/ interrupts'[l] = interrupts[l]
  BY <1>1 DEF CInv, IInv, Shapes
<1>3. \A l \in Lines : /\ Fired(l)' = Fired(l) /\ Owed(l)' = Owed(l)
                       /\ AtWrite(l)' = AtWrite(l)
  BY <1>1 DEF Fired, Owed, Ahead, Place, AtWrite
<1>4. irq \notin linked /\ top[irq] = 0
  BY <1>1 DEF CInv, IInv, Loops, InFlight
<1>5. Owed(irq) = 0 /\ ~AtWrite(irq) /\ Fired(irq) \in Nat
  BY <1>1, <1>4, FiredCounts DEF Owed, Ahead, AtWrite, CInv, Histories
<1>6. \A l \in Lines : Counted(l)' => l # irq /\ Counted(l)
  <2>1. \/ linked' = linked
        \/ linked' = linked \cup {irq} /\ module' = "reset" /\ irq' = irq
    BY DEF RequestLine
  <2> QED
    BY <1>1, <1>4, <2>1 DEF Counted
<1>7. Histories'
  BY <1>1 DEF CInv, Histories, Tops
<1>8. CountsUp'
  <2> SUFFICES ASSUME NEW l \in Lines
               PROVE  /\ top[l] # 0 => Fired(l) >= 1
                      /\ interrupts'[l] + Owed(l) <= Fired(l)
                      /\ AtWrite(l) => local[l] < Fired(l)
                      /\ Counted(l)' =>
                          /\ interrupts'[l] + Owed(l) >= Fired(l) - early[l]
                          /\ AtWrite(l) => local[l] + 1 >= Fired(l) - early[l]
    BY <1>1, <1>3 DEF CountsUp
  <2>1. CASE l = irq
    BY <1>2, <1>4, <1>5, <1>6, <2>1
  <2>2. CASE l # irq
    BY <1>1, <1>2, <1>6, <2>2 DEF CInv, CountsUp
  <2> QED
    BY <2>1, <2>2
<1> QED
  BY <1>7, <1>8

\* All that came before the reset is early, and may still be counted.
LEMMA ResetUp ==
    ASSUME CInv, ResetCounter
    PROVE  Histories' /\ CountsUp'
<1>1. /\ UNCHANGED <<top, local, fired, driver, linked>> /\ d' = d
      /\ module = "reset" /\ d.from = "lines" /\ irq \in Lines
      /\ interrupts' = [interrupts EXCEPT ![irq] = 0]
      /\ early' = [early EXCEPT ![irq] = Fired(irq)]
  BY SameDriver DEF CInv, IInv, Places, Shapes, ResetCounter, tops
<1>2. /\ interrupts' \in [Lines -> Int] /\ interrupts'[irq] = 0
      /\ \A l \in Lines : l = irq \/ interrupts'[l] = interrupts[l]
  BY <1>1 DEF CInv, IInv, Shapes
<1>3. \A l \in Lines : /\ Fired(l)' = Fired(l) /\ Owed(l)' = Owed(l)
                       /\ AtWrite(l)' = AtWrite(l) /\ Fired(l) \in Nat
  BY <1>1, FiredCounts
     DEF Fired, Owed, Ahead, Place, AtWrite, CInv, Histories
<1>4. /\ early' \in [Lines -> Int] /\ early'[irq] = Fired(irq)
      /\ \A l \in Lines : l = irq \/ early'[l] = early[l]
  BY <1>1, <1>3 DEF CInv, Histories
<1>5. Owed(irq) \in {0, 1} /\ Owed(irq) <= Fired(irq) /\ local[irq] >= -1
  BY <1>1, <1>3 DEF Owed, Ahead, CInv, CountsUp, IInv, Shapes
<1>6. \A l \in Lines : Counted(l)' => l = irq \/ Counted(l)
  BY <1>1 DEF Counted
<1>7. Histories'
  BY <1>1, <1>4 DEF CInv, Histories, Tops
<1>8. local[irq] \in Int
  BY <1>1 DEF CInv, IInv, Shapes
<1>9. CountsUp'
  <2> SUFFICES ASSUME NEW l \in Lines
               PROVE  /\ top[l] # 0 => Fired(l) >= 1
                      /\ interrupts'[l] + Owed(l) <= Fired(l)
                      /\ AtWrite(l) => local[l] < Fired(l)
                      /\ Counted(l)' =>
                          /\ interrupts'[l] + Owed(l) >= Fired(l) - early'[l]
                          /\ AtWrite(l) => local[l] + 1 >= Fired(l) - early'[l]
    BY <1>1, <1>3 DEF CountsUp
  <2>1. CASE l = irq
    BY <1>1, <1>2, <1>3, <1>4, <1>5, <1>8, <2>1 DEF CInv, CountsUp
  <2>2. CASE l # irq
    BY <1>1, <1>2, <1>4, <1>6, <2>2 DEF CInv, CountsUp
  <2> QED
    BY <2>1, <2>2
<1> QED
  BY <1>7, <1>9

LEMMA EnterUp ==
    ASSUME CInv, NEW l \in Lines, Enter(l)
    PROVE  Histories' /\ CountsUp'
<1>1. /\ UNCHANGED <<local, interrupts, early, life>> /\ d' = d
      /\ driver \in Drivers
      /\ top[l] = 0 /\ top' = [top EXCEPT ![l] = 1] /\ l \in linked
      /\ fired' = Append(fired, l)
  BY SameDriver DEF CInv, IInv, Shapes, Enter, counters, life
<1>2. /\ fired' \in Seq(Lines)
      /\ \A k \in Lines : Fired(k)' = IF k = l THEN Fired(k) + 1 ELSE Fired(k)
      /\ \A k \in Lines : Fired(k) \in Nat
  BY <1>1, FiredGrows, FiredCounts DEF CInv, Histories
<1>3. Tops' /\ top'[l] = 1 /\ \A k \in Lines \ {l} : top'[k] = top[k]
  BY <1>1, Sized DEF CInv, Histories, Tops
<1>4. Histories'
  BY <1>1, <1>2, <1>3 DEF CInv, Histories
<1>5. /\ \A k \in Lines : Counted(k)' = Counted(k)
      /\ \A k \in Lines \ {l} : Owed(k)' = Owed(k) /\ AtWrite(k)' = AtWrite(k)
  BY <1>1, <1>3 DEF Counted, life, Owed, Ahead, Place, AtWrite
<1>6. Owed(l) = 0
  BY <1>1 DEF Owed, Ahead
<1>7. CASE d.from = "lines"
  <2>1. Owed(l)' = 1
    <3>1. Place(Counters) \in 1 .. Len(d.top) /\ Place(Counters)' = Place(Counters)
      BY <1>1, <1>7, LinesTops, Placed DEF Place
    <3> QED
      BY <1>3, <3>1, Sized, <1>1 DEF Owed, Ahead
  <2>2. ~AtWrite(l)'
    BY <1>1, <1>3, <1>7, LinesTops DEF AtWrite
  <2>3. /\ interrupts[l] <= Fired(l)
        /\ Counted(l) => interrupts[l] >= Fired(l) - early[l]
        /\ interrupts[l] \in Int /\ early[l] \in Int
    BY <1>6, <1>7 DEF CInv, CountsUp, IInv, Shapes, Histories
  <2> SUFFICES ASSUME NEW k \in Lines
               PROVE  /\ top'[k] # 0 => Fired(k)' >= 1
                      /\ interrupts[k] + Owed(k)' <= Fired(k)'
                      /\ AtWrite(k)' => local[k] < Fired(k)'
                      /\ Counted(k)' =>
                          /\ interrupts[k] + Owed(k)' >= Fired(k)' - early[k]
                          /\ AtWrite(k)' => local[k] + 1 >= Fired(k)' - early[k]
    BY <1>1, <1>4 DEF CountsUp
  <2>4. CASE k = l
    BY <1>2, <1>5, <2>1, <2>2, <2>3, <2>4
  <2>5. CASE k # l
    BY <1>2, <1>3, <1>5, <1>7, <2>5 DEF CInv, CountsUp
  <2> QED
    BY <2>4, <2>5
<1> QED
  BY <1>1, <1>4, <1>7 DEF CountsUp

LEMMA TopUp ==
    ASSUME CInv, NEW l \in Lines, my_interrupt(l)
    PROVE  Histories' /\ CountsUp'
<1>1. PICK op : /\ Does(l, op)
                /\ interrupts' = IF op = "count"
                                   THEN [interrupts EXCEPT ![l] = @ + 1]
                                 ELSE IF op = "write"
                                   THEN [interrupts EXCEPT ![l] = local[l] + 1]
                                 ELSE interrupts
                /\ local' = IF op = "read"
                              THEN [local EXCEPT ![l] = interrupts[l]]
                              ELSE local
  BY DEF my_interrupt, TopAlloc, TopStamp, TopEvent, TopCount, TopRead,
         TopWrite, TopSchedule, TopRaise, TopWake
<1>2. /\ UNCHANGED <<life, fired, early>> /\ d' = d /\ Tops'
      /\ driver \in Drivers
      /\ top[l] \in 1 .. Len(d.top) /\ d.top[top[l]] = op
      /\ top'[l] = IF top[l] = Len(d.top) THEN 0 ELSE top[l] + 1
      /\ \A k \in Lines \ {l} : top'[k] = top[k]
  BY <1>1, Advances DEF CInv, IInv, Shapes, Histories
<1>3. Histories'
  BY <1>2 DEF CInv, Histories
<1>4. SUFFICES ASSUME d.from = "lines" PROVE CountsUp'
  BY <1>2, <1>3 DEF CountsUp
<1>5. /\ op \in Counters => Owed(l) = 1 /\ Owed(l)' = 0
      /\ op \notin Counters => Owed(l)' = Owed(l)
      /\ \A k \in Lines \ {l} : Owed(k)' = Owed(k)
  BY <1>1, <1>2, <1>4, AheadMoves, LinesTops DEF Owed, CInv, Histories
<1>6. /\ op = "write" => AtWrite(l)
      /\ AtWrite(l)' => op = "read"
      /\ op = "read" => Owed(l) = 1
      /\ \A k \in Lines \ {l} : AtWrite(k)' = AtWrite(k)
  <2>1. AtWrite(l)' => op = "read"
    BY <1>2, <1>4, LinesTops, Sized DEF AtWrite
  <2>2. ASSUME op = "read" PROVE Owed(l) = 1
    <3>1. d.top[top[l] + 1] = "write" /\ Len(d.top) \in Nat
      BY <1>2, <1>4, <2>2, LinesTops, Sized
    <3>2. /\ Place(Counters) \in 1 .. Len(d.top)
          /\ d.top[Place(Counters)] \in Counters
      BY <1>2, <1>4, LinesTops, Placed
    <3>3. CASE Place(Counters) >= top[l]
      BY <1>2, <3>2, <3>3 DEF Owed, Ahead
    <3>4. CASE Place(Counters) < top[l]
      <4>1. top[l] + 1 \in 1 .. Len(d.top)
        BY <1>2, <2>2, <1>4, LinesTops, Sized
      <4> QED
        BY <1>2, <1>4, <3>1, <3>2, <3>4, <4>1, LinesTops, Placed DEF Counters
    <3> QED
      BY <1>2, <3>2, <3>3, <3>4
  <2> QED
    BY <1>2, <2>1, <2>2 DEF AtWrite
<1>7. \A k \in Lines : /\ Fired(k)' = Fired(k) /\ Fired(k) \in Nat
                       /\ Counted(k)' = Counted(k)
                       /\ early[k] \in Int /\ Owed(k) \in {0, 1}
                       /\ interrupts[k] \in Int /\ local[k] \in Int
  BY <1>2, FiredCounts
     DEF Fired, Counted, life, Owed, CInv, Histories, IInv, Shapes
<1>8. /\ interrupts'[l] = IF op = "count" THEN interrupts[l] + 1
                          ELSE IF op = "write" THEN local[l] + 1
                          ELSE interrupts[l]
      /\ local'[l] = IF op = "read" THEN interrupts[l] ELSE local[l]
      /\ \A k \in Lines \ {l} : /\ interrupts'[k] = interrupts[k]
                                /\ local'[k] = local[k]
  BY <1>1 DEF CInv, IInv, Shapes
<1> SUFFICES ASSUME NEW k \in Lines
             PROVE  /\ top'[k] # 0 => Fired(k) >= 1
                    /\ interrupts'[k] + Owed(k)' <= Fired(k)
                    /\ AtWrite(k)' => local'[k] < Fired(k)
                    /\ Counted(k) =>
                        /\ interrupts'[k] + Owed(k)' >= Fired(k) - early[k]
                        /\ AtWrite(k)' => local'[k] + 1 >= Fired(k) - early[k]
  BY <1>2, <1>7 DEF CountsUp
<1>9. CASE k = l
  <2>1. /\ top[l] # 0 /\ Fired(l) >= 1
        /\ interrupts[l] + Owed(l) <= Fired(l)
        /\ AtWrite(l) => local[l] < Fired(l)
        /\ Counted(l) =>
              /\ interrupts[l] + Owed(l) >= Fired(l) - early[l]
              /\ AtWrite(l) => local[l] + 1 >= Fired(l) - early[l]
    BY <1>2, <1>4 DEF CInv, CountsUp
  <2> QED
    BY <1>5, <1>6, <1>7, <1>8, <1>9, <2>1 DEF Counters
<1>10. CASE k # l
  BY <1>2, <1>4, <1>5, <1>6, <1>8, <1>10 DEF CInv, CountsUp
<1> QED
  BY <1>9, <1>10

LEMMA StepCInv ==
    ASSUME CInv, [Next]_vars
    PROVE  CInv'
<1>1. IInv'
  BY StepIInv DEF CInv
<1>2. SUFFICES Histories' /\ CountsUp'
  BY <1>1 DEF CInv
<1>3. ASSUME UNCHANGED <<driver, top, interrupts, local, fired, early>>,
             \/ UNCHANGED <<module, irq, linked>>
             \/ module' = "oops" \/ linked' = {}
             \/ module # "reset" /\ linked' \subseteq linked /\ module # "oops"
      PROVE  Histories' /\ CountsUp'
  BY <1>3, StandsUp DEF Counted
<1>4. CASE RunThread \/ Register
  <2>1. CASE d.from = "lines"
    BY <1>3, <1>4, <2>1 DEF RunThread, Register, tops, counters, history
  <2>2. CASE d.from # "lines"
    <3>1. UNCHANGED <<driver, top, fired, early>> /\ d' = d
      BY <1>4, SameDriver DEF RunThread, Register, tops, history
    <3> QED
      BY <2>2, <3>1 DEF CInv, Histories, Tops, CountsUp
  <2> QED
    BY <2>1, <2>2
<1>5. CASE my_exit \/ FreedTextRuns \/ \E l \in Lines : AllocFails(l)
  BY <1>3, <1>5
     DEF my_exit, StopThread, JoinThread, SynchronizeIrq, Leaving, UnlinkIrq,
         FreeIrq, Deregister, FreedTextRuns, AllocFails, tops, counters, history
<1>6. ASSUME NEW c \in Cpus, bottom(c) PROVE Histories' /\ CountsUp'
  BY <1>3, <1>6
     DEF bottom, BottomCount, BottomCharge, BottomPrint, BottomFree,
         BottomOther, BottomTest, BottomDec, Runs, Goes, tops, life, history
<1>7. ASSUME NEW c \in Cpus, NEW i \in Items, BottomRun(c, i)
      PROVE  Histories' /\ CountsUp'
  BY <1>3, <1>7 DEF BottomRun, tops, counters, life, history
<1>8. CASE thr_fun
  BY <1>3, <1>8
     DEF thr_fun, ThreadRead, ThreadClear, ThreadWait, ThreadCount,
         ThreadPrint, ThreadStopTest, ThreadEventsTest, ThreadInc, ThreadDec,
         ThreadWhile, At, tops, life
<1>9. CASE UNCHANGED vars
  BY <1>3, <1>9 DEF vars, tops, counters, life, history
<1> QED
  BY <1>4, <1>5, <1>6, <1>7, <1>8, <1>9, RequestUp, ResetUp, EnterUp, TopUp
     DEF Next, my_init, Runnable

LEMMA InitCInv ==
    ASSUME Init
    PROVE  CInv
<1>1. IInv
  BY InitIInv
<1>2. Histories
  BY Sized DEF Init, Histories, Tops
<1>3. \A l \in Lines : Fired(l) = 0
  <2>1. \A l \in Lines : {i \in DOMAIN fired : fired[i] = l} = {}
    BY DEF Init
  <2> QED
    BY <2>1, FS_EmptySet DEF Fired
<1>4. CountsUp
  BY <1>3 DEF Init, CountsUp, Owed, Ahead, AtWrite, Counted
<1> QED
  BY <1>1, <1>2, <1>4 DEF CInv

\* In lab_all_interrupt.h and lab2_interrupt.c a counter misses at most the
\* interrupts that came between request_irq and its reset, and counts none
\* twice, though lab2_interrupt counts with a ++ that is not atomic.
THEOREM OnlyEarlyOnesForgotten == Spec => []ForgottenOnlyAtLoad
<1>1. ASSUME CInv PROVE ForgottenOnlyAtLoad
  <2> SUFFICES ASSUME d.from = "lines", module # "oops", NEW l \in linked,
                      top[l] = 0, module # "reset" \/ irq # l
               PROVE  interrupts[l] \in Fired(l) - early[l] .. Fired(l)
    BY DEF ForgottenOnlyAtLoad
  <2>1. l \in Lines /\ Counted(l) /\ Owed(l) = 0
    BY <1>1 DEF CInv, IInv, Shapes, Counted, Owed, Ahead
  <2>2. interrupts[l] \in Int /\ early[l] \in Int /\ Fired(l) \in Nat
    BY <1>1, <2>1, FiredCounts DEF CInv, IInv, Shapes, Histories
  <2> QED
    BY <1>1, <2>1, <2>2 DEF CInv, CountsUp
<1> QED
  BY InitCInv, StepCInv, <1>1, PTL DEF Spec

-----------------------------------------------------------------------------
(* An interrupt's own memory: its handler has it, then the queue, then the  *)
(* function                                                                 *)

Queues ==
    /\ item \in [Lines -> Items]
    /\ pending \subseteq Items
    /\ d.by \notin {"tasklet", "work"} => pending = {}
    /\ runner \in [Cpus -> Items \X (0 .. Len(d.bottom))]

\* No item is in two places, and each is the one its interrupt brought.
Apart ==
    d.own =>
        /\ \A l \in Lines : top[l] # 0 =>
              /\ item[l] \in (1 .. Len(fired)) \ pending
              /\ fired[item[l]] = l
        /\ pending \subseteq 1 .. Len(fired)
        /\ \A c \in Cpus : Busy(c) =>
              /\ runner[c][1] \in (1 .. Len(fired)) \ pending
              /\ \A l \in Lines : top[l] # 0 => item[l] # runner[c][1]
              /\ \A e \in Cpus : Busy(e) /\ runner[e][1] = runner[c][1] => e = c

AsHeld ==
    d.own =>
        \A i \in Items \ {0} :
            /\ i \in heap /\ driver \notin NothingFreed => Held(i)
            /\ Held(i) => i \in heap

OInv == CInv /\ Queues /\ Apart /\ AsHeld

\* Only a handler that has a function queues it.
LEMMA Defers ==
    ASSUME driver \in Drivers
    PROVE  /\ \A n \in 1 .. Len(d.top) :
                 d.top[n] = "schedule" => d.by \in {"tasklet", "work"}
           /\ d.by \in {"tasklet", "work"} => Len(d.bottom) >= 1
<1>1. \/ d.by \in {"tasklet", "work"} /\ WrittenOut(d.bottom)
      \/ /\ d.by \notin {"tasklet", "work"}
         /\ \/ d.top = <<"count", "stamp", "raise", "wake">>
            \/ d.top = <<"event", "count", "raise", "stamp", "wake">>
            \/ d.top = <<"stamp", "raise", "count", "wake">>
            \/ d.top = <<"read", "write">>
  BY Every, Zenon DEF Kind, Parts, WrittenOut
<1>2. CASE d.by \in {"tasklet", "work"} /\ WrittenOut(d.bottom)
  BY <1>2, Sizes
<1>3. ASSUME NEW s, \/ s = <<"count", "stamp", "raise", "wake">>
                    \/ s = <<"stamp", "raise", "count", "wake">>
      PROVE  Len(s) = 4 /\ \A n \in 1 .. 4 : s[n] # "schedule"
  BY <1>3
<1>4. ASSUME NEW s, s = <<"event", "count", "raise", "stamp", "wake">>
      PROVE  Len(s) = 5 /\ \A n \in 1 .. 5 : s[n] # "schedule"
  BY <1>4
<1>5. ASSUME NEW s, s = <<"read", "write">>
      PROVE  Len(s) = 2 /\ \A n \in 1 .. 2 : s[n] # "schedule"
  BY <1>5
<1>6. ASSUME d.by \notin {"tasklet", "work"}
      PROVE  \A n \in 1 .. Len(d.top) : d.top[n] # "schedule"
  <2>1. \/ Len(d.top) = 4 /\ \A n \in 1 .. 4 : d.top[n] # "schedule"
        \/ Len(d.top) = 5 /\ \A n \in 1 .. 5 : d.top[n] # "schedule"
        \/ Len(d.top) = 2 /\ \A n \in 1 .. 2 : d.top[n] # "schedule"
    BY <1>1, <1>3, <1>4, <1>5, <1>6, Zenon
  <2> QED
    BY <2>1
<1> QED
  BY <1>1, <1>2, <1>6

\* The drivers whose interrupts bring their own, by what they free when
LEMMA OwnDrivers ==
    ASSUME driver \in Drivers, d.own
    PROVE  /\ \/ d.top = <<"alloc", "stamp", "count", "schedule">>
              \/ d.top = <<"alloc", "count", "schedule">> /\ d.from = "line"
           /\ \/ /\ d.bottom = <<"count", "print", "free", "unlock">>
                 /\ driver \in FreedBeforeUnlock \ NothingFreed
              \/ /\ d.bottom = <<"charge", "free", "unlock">>
                 /\ driver \in FreedBeforeUnlock \ NothingFreed
              \/ /\ d.bottom = <<"count", "free null", "unlock">>
                 /\ driver \in NothingFreed \ FreedBeforeUnlock
              \/ /\ d.bottom = <<"count", "print", "free">>
                 /\ driver \notin FreedBeforeUnlock \cup NothingFreed
              \/ /\ d.bottom = <<"charge", "free">>
                 /\ driver \notin FreedBeforeUnlock \cup NothingFreed
<1> USE DEF lab2_one_tasklet, lab3_one_tasklet_dynamic
<1>1. /\ ~lab2_one_tasklet.own /\ ~lab2_one_workqueue.own
      /\ ~lab2_one_thread.own /\ ~lab3_one_thread_improved.own
      /\ ~lab3_one_tasklet_improved.own
      /\ ~lab4_all_tasklet.own /\ ~lab4_all_workqueue.own
      /\ ~lab4_all_thread.own /\ ~lab2_interrupt.own
  BY DEF lab2_one_workqueue, lab2_one_thread, lab3_one_thread_improved,
         lab3_one_tasklet_improved, lab4_all_tasklet, lab4_all_workqueue,
         lab4_all_thread, lab2_interrupt
<1>2. /\ ~lab1_tasklet.own /\ ~lab1_workqueue_shared.own
      /\ ~lab1_workqueue_private.own /\ ~lab1_workqueue_newapi.own
      /\ ~tasklet.own /\ ~workqueue.own
  BY DEF lab1_tasklet, lab1_workqueue_shared, lab1_workqueue_private,
         lab1_workqueue_newapi, tasklet, workqueue
<1> DEFINE t == <<"alloc", "stamp", "count", "schedule">>
<1>3. /\ lab3_one_tasklet_dynamic.top = t
      /\ lab3_one_tasklet_dynamic.bottom = <<"count", "print", "free", "unlock">>
      /\ lab3_one_workqueue_dynamic.top = t
      /\ lab3_one_workqueue_dynamic.bottom = <<"count", "print", "free">>
  BY DEF lab3_one_workqueue_dynamic
<1>4. /\ lab5_all_tasklet_dynamic.top = t
      /\ lab5_all_tasklet_dynamic.bottom = <<"charge", "free", "unlock">>
      /\ lab5_all_workqueue_dynamic.top = t
      /\ lab5_all_workqueue_dynamic.bottom = <<"charge", "free">>
  BY DEF lab5_all_tasklet_dynamic, lab5_all_workqueue_dynamic
<1>5. /\ Nirq_dynamic.top = <<"alloc", "count", "schedule">>
      /\ Nirq_dynamic.bottom = <<"count", "free null", "unlock">>
      /\ Nirq_dynamic.from = "line"
  BY DEF Nirq_dynamic
<1> HIDE DEF lab2_one_tasklet, lab3_one_tasklet_dynamic, t
<1>6. driver \in DOMAIN Driver
  BY DriversAssumption
<1>7. \/ driver = "lab3_one_tasklet_dynamic" /\ d = lab3_one_tasklet_dynamic
      \/ driver = "lab3_one_workqueue_dynamic" /\ d = lab3_one_workqueue_dynamic
      \/ driver = "Nirq_dynamic" /\ d = Nirq_dynamic
      \/ driver = "lab5_all_tasklet_dynamic" /\ d = lab5_all_tasklet_dynamic
      \/ driver = "lab5_all_workqueue_dynamic" /\ d = lab5_all_workqueue_dynamic
  BY <1>1, <1>2, <1>6 DEF d, Driver
<1> QED
  BY <1>3, <1>4, <1>5, <1>7 DEF FreedBeforeUnlock, NothingFreed, t

\* What the n-th operation of a function that has memory of its own is
InOrder(n) ==
    \/ /\ d.bottom[n] \in {"count", "print", "charge"}
       /\ n + 1 \in 1 .. Len(d.bottom)
       /\ d.bottom[n + 1] # "unlock"
    \/ /\ d.bottom[n] = "free"
       /\ driver \in FreedBeforeUnlock =>
             /\ n + 1 \in 1 .. Len(d.bottom)
             /\ d.bottom[n + 1] = "unlock"
       /\ driver \notin FreedBeforeUnlock => n = Len(d.bottom)
    \/ /\ d.bottom[n] = "unlock" /\ n = Len(d.bottom)
       /\ driver \in FreedBeforeUnlock \cup NothingFreed
    \/ /\ driver \in NothingFreed \ FreedBeforeUnlock
       /\ d.bottom[n] \in {"count", "free null"}

\* They allocate first and queue last, and free last but for the unlock.
LEMMA OwnOrder ==
    ASSUME driver \in Drivers, d.own
    PROVE  /\ d.top[1] = "alloc"
           /\ \A n \in 1 .. Len(d.top) :
                 /\ d.top[n] = "alloc" => n = 1 /\ n # Len(d.top)
                 /\ d.top[n] = "schedule" <=> n = Len(d.top)
           /\ Len(d.bottom) >= 1 /\ d.bottom[1] # "unlock"
           /\ \A n \in 1 .. Len(d.bottom) : InOrder(n)
<1>1. \/ d.top = <<"alloc", "stamp", "count", "schedule">>
      \/ d.top = <<"alloc", "count", "schedule">>
  BY OwnDrivers
<1>2. /\ d.top[1] = "alloc"
      /\ \A n \in 1 .. Len(d.top) :
            /\ d.top[n] = "alloc" => n = 1 /\ n # Len(d.top)
            /\ d.top[n] = "schedule" <=> n = Len(d.top)
  <2>1. CASE d.top = <<"alloc", "stamp", "count", "schedule">>
    <3>1. /\ Len(d.top) = 4 /\ d.top[1] = "alloc" /\ d.top[2] = "stamp"
          /\ d.top[3] = "count" /\ d.top[4] = "schedule"
      BY <2>1
    <3>2. \A n \in 1 .. 4 : n = 1 \/ n = 2 \/ n = 3 \/ n = 4
      OBVIOUS
    <3> QED
      BY <3>1, <3>2
  <2>2. CASE d.top = <<"alloc", "count", "schedule">>
    <3>1. /\ Len(d.top) = 3 /\ d.top[1] = "alloc"
          /\ d.top[2] = "count" /\ d.top[3] = "schedule"
      BY <2>2
    <3>2. \A n \in 1 .. 3 : n = 1 \/ n = 2 \/ n = 3
      OBVIOUS
    <3> QED
      BY <3>1, <3>2
  <2> QED
    BY <1>1, <2>1, <2>2
<1>3. CASE /\ d.bottom = <<"count", "print", "free", "unlock">>
           /\ driver \in FreedBeforeUnlock
  <2> DEFINE t == <<"count", "print", "free", "unlock">>
  <2>1. Len(t) = 4 /\ t[1] = "count" /\ t[2] = "print" /\ t[3] = "free" /\ t[4] = "unlock"
    OBVIOUS
  <2> HIDE DEF t
  <2>2. d.bottom = t
    BY <1>3 DEF t
  <2>3. InOrder(1) /\ InOrder(2) /\ InOrder(3) /\ InOrder(4)
    BY <1>3, <2>1, <2>2 DEF InOrder
  <2>4. Len(d.bottom) = 4 /\ d.bottom[1] # "unlock"
    BY <2>1, <2>2
  <2>5. ASSUME NEW n \in 1 .. Len(d.bottom) PROVE InOrder(n)
    <3>1. n = 1 \/ n = 2 \/ n = 3 \/ n = 4
      BY <2>4
    <3> QED
      BY <2>3, <3>1
  <2> QED
    BY <1>2, <2>4, <2>5
<1>4. CASE /\ d.bottom = <<"charge", "free", "unlock">>
           /\ driver \in FreedBeforeUnlock
  <2> DEFINE t == <<"charge", "free", "unlock">>
  <2>1. Len(t) = 3 /\ t[1] = "charge" /\ t[2] = "free" /\ t[3] = "unlock"
    OBVIOUS
  <2> HIDE DEF t
  <2>2. d.bottom = t
    BY <1>4 DEF t
  <2>3. InOrder(1) /\ InOrder(2) /\ InOrder(3)
    BY <1>4, <2>1, <2>2 DEF InOrder
  <2>4. Len(d.bottom) = 3 /\ d.bottom[1] # "unlock"
    BY <2>1, <2>2
  <2>5. ASSUME NEW n \in 1 .. Len(d.bottom) PROVE InOrder(n)
    <3>1. n = 1 \/ n = 2 \/ n = 3
      BY <2>4
    <3> QED
      BY <2>3, <3>1
  <2> QED
    BY <1>2, <2>4, <2>5
<1>5. CASE /\ d.bottom = <<"count", "free null", "unlock">>
           /\ driver \in NothingFreed \ FreedBeforeUnlock
  <2> DEFINE t == <<"count", "free null", "unlock">>
  <2>1. Len(t) = 3 /\ t[1] = "count" /\ t[2] = "free null" /\ t[3] = "unlock"
    OBVIOUS
  <2> HIDE DEF t
  <2>2. d.bottom = t
    BY <1>5 DEF t
  <2>3. InOrder(1) /\ InOrder(2) /\ InOrder(3)
    BY <1>5, <2>1, <2>2 DEF InOrder
  <2>4. Len(d.bottom) = 3 /\ d.bottom[1] # "unlock"
    BY <2>1, <2>2
  <2>5. ASSUME NEW n \in 1 .. Len(d.bottom) PROVE InOrder(n)
    <3>1. n = 1 \/ n = 2 \/ n = 3
      BY <2>4
    <3> QED
      BY <2>3, <3>1
  <2> QED
    BY <1>2, <2>4, <2>5
<1>6. CASE /\ d.bottom = <<"count", "print", "free">>
           /\ driver \notin FreedBeforeUnlock
  <2> DEFINE t == <<"count", "print", "free">>
  <2>1. Len(t) = 3 /\ t[1] = "count" /\ t[2] = "print" /\ t[3] = "free"
    OBVIOUS
  <2> HIDE DEF t
  <2>2. d.bottom = t
    BY <1>6 DEF t
  <2>3. InOrder(1) /\ InOrder(2) /\ InOrder(3)
    BY <1>6, <2>1, <2>2 DEF InOrder
  <2>4. Len(d.bottom) = 3 /\ d.bottom[1] # "unlock"
    BY <2>1, <2>2
  <2>5. ASSUME NEW n \in 1 .. Len(d.bottom) PROVE InOrder(n)
    <3>1. n = 1 \/ n = 2 \/ n = 3
      BY <2>4
    <3> QED
      BY <2>3, <3>1
  <2> QED
    BY <1>2, <2>4, <2>5
<1>7. CASE /\ d.bottom = <<"charge", "free">>
           /\ driver \notin FreedBeforeUnlock
  <2> DEFINE t == <<"charge", "free">>
  <2>1. Len(t) = 2 /\ t[1] = "charge" /\ t[2] = "free"
    OBVIOUS
  <2> HIDE DEF t
  <2>2. d.bottom = t
    BY <1>7 DEF t
  <2>3. InOrder(1) /\ InOrder(2)
    BY <1>7, <2>1, <2>2 DEF InOrder
  <2>4. Len(d.bottom) = 2 /\ d.bottom[1] # "unlock"
    BY <2>1, <2>2
  <2>5. ASSUME NEW n \in 1 .. Len(d.bottom) PROVE InOrder(n)
    <3>1. n = 1 \/ n = 2
      BY <2>4
    <3> QED
      BY <2>3, <3>1
  <2> QED
    BY <1>2, <2>4, <2>5
<1> QED
  BY OwnDrivers, <1>3, <1>4, <1>5, <1>6, <1>7

\* A function goes on to its next operation, or to the one that its loop
\* chooses, or returns.
LEMMA GoesTo ==
    ASSUME driver \in Drivers, Queues, NEW c \in Cpus, Busy(c),
           NEW to \in 0 .. Len(d.bottom),
           runner' = [runner EXCEPT ![c][2] = to]
    PROVE  /\ runner' \in [Cpus -> Items \X (0 .. Len(d.bottom))]
           /\ runner'[c] = <<runner[c][1], to>>
           /\ runner[c][1] \in Items /\ runner[c][2] \in 1 .. Len(d.bottom)
           /\ \A e \in Cpus \ {c} : runner'[e] = runner[e]
<1>1. runner[c] \in Items \X (0 .. Len(d.bottom))
  BY DEF Queues
<1>2. runner' = [runner EXCEPT ![c] = [runner[c] EXCEPT ![2] = to]]
  OBVIOUS
<1>3. [runner[c] EXCEPT ![2] = to] = <<runner[c][1], to>>
  BY <1>1
<1>4. runner' = [runner EXCEPT ![c] = <<runner[c][1], to>>]
  BY <1>2, <1>3
<1>5. <<runner[c][1], to>> \in Items \X (0 .. Len(d.bottom))
  BY <1>1
<1> QED
  BY <1>1, <1>4, <1>5, Sized DEF Queues, Busy

LEMMA Steps ==
    ASSUME driver \in Drivers, Queues, NEW c \in Cpus, NEW op, Runs(c, op)
    PROVE  /\ UNCHANGED <<life, tops, pending, fired, data, stored>> /\ d' = d
           /\ runner[c][1] \in Items /\ runner[c][2] \in 1 .. Len(d.bottom)
           /\ d.bottom[runner[c][2]] = op /\ Busy(c) /\ Queues'
           /\ runner'[c] = <<runner[c][1], IF runner[c][2] = Len(d.bottom)
                                             THEN 0 ELSE runner[c][2] + 1>>
           /\ \A e \in Cpus \ {c} : runner'[e] = runner[e]
<1>1. /\ UNCHANGED <<life, tops, pending, fired, data, stored>>
      /\ Busy(c) /\ d.bottom[runner[c][2]] = op
      /\ runner' = [runner EXCEPT ![c][2] = (runner[c][2] + 1) % (Len(d.bottom) + 1)]
  BY DEF Runs
<1>2. d' = d
  BY <1>1, SameDriver DEF life
<1>3. runner[c][2] \in 0 .. Len(d.bottom) /\ Len(d.bottom) \in Nat
  BY Sized DEF Queues
<1> DEFINE to == IF runner[c][2] = Len(d.bottom) THEN 0 ELSE runner[c][2] + 1
<1>4. to \in 0 .. Len(d.bottom)
  BY <1>3
<1>5. runner' = [runner EXCEPT ![c][2] = to]
  BY <1>1, <1>3, Around
<1> HIDE DEF to
<1>6. /\ runner' \in [Cpus -> Items \X (0 .. Len(d.bottom))]
      /\ runner'[c] = <<runner[c][1], to>>
      /\ runner[c][1] \in Items /\ runner[c][2] \in 1 .. Len(d.bottom)
      /\ \A e \in Cpus \ {c} : runner'[e] = runner[e]
  BY <1>1, <1>4, <1>5, GoesTo
<1> QED
  BY <1>1, <1>2, <1>6 DEF to, Queues, tops

-----------------------------------------------------------------------------
(* ... and what each step does to the items                                 *)

Using(i, c) ==
    /\ Busy(c) /\ runner[c][1] = i
    /\ driver \in FreedBeforeUnlock => d.bottom[runner[c][2]] # "unlock"
Filling(i, l) == top[l] > 1 /\ item[l] = i

LEMMA HeldWhere ==
    ASSUME NEW i
    PROVE  Held(i) <=> \/ i \in pending
                       \/ \E c \in Cpus : Using(i, c)
                       \/ \E l \in Lines : Filling(i, l)
BY DEF Held, Using, Filling

LEMMA StandsOwn ==
    ASSUME OInv, UNCHANGED <<driver, top, item, pending, runner, heap, fired>>
    PROVE  Queues' /\ Apart' /\ AsHeld'
<1>1. d' = d
  BY SameDriver
<1>2. \A i : Held(i)' = Held(i)
  BY <1>1 DEF Held, Busy
<1> QED
  BY <1>1, <1>2 DEF OInv, Queues, Apart, AsHeld, Busy

LEMMA EnterOwn ==
    ASSUME OInv, NEW l \in Lines, Enter(l)
    PROVE  Queues' /\ Apart' /\ AsHeld'
<1> DEFINE n == Len(fired) + 1
<1>1. /\ UNCHANGED <<driver, pending, runner, heap>> /\ d' = d
      /\ top[l] = 0 /\ top' = [top EXCEPT ![l] = 1]
      /\ fired' = Append(fired, l) /\ Len(fired') = n
      /\ item' = [item EXCEPT ![l] = IF d.own THEN Len(fired') ELSE 0]
      /\ Len(fired) < MaxIrq \/ Len(fired) < MaxAll
  BY SameDriver, FiredGrows DEF Enter, life, queue, OInv, CInv, Histories
<1>2. /\ Len(fired) \in Nat /\ n \in Items /\ 0 \in Items
      /\ n \notin 1 .. Len(fired)
      /\ fired'[n] = l /\ \A i \in 1 .. Len(fired) : fired'[i] = fired[i]
  BY <1>1, ConstantsAssumption DEF OInv, CInv, Histories, Items
<1>3. /\ item'[l] = IF d.own THEN n ELSE 0
      /\ item' \in [Lines -> Items]
      /\ \A k \in Lines \ {l} : item'[k] = item[k]
  BY <1>1, <1>2 DEF OInv, Queues
<1>4. top'[l] = 1 /\ \A k \in Lines \ {l} : top'[k] = top[k]
  BY <1>1 DEF OInv, CInv, Histories, Tops
<1>5. \A c \in Cpus : Busy(c)' = Busy(c)
  BY <1>1 DEF Busy
<1>6. \A i : Held(i)' = Held(i)
  <2>1. \A i : \A c \in Cpus : Using(i, c)' = Using(i, c)
    BY <1>1 DEF Using, Busy
  <2>2. \A i : \A k \in Lines : Filling(i, k)' = Filling(i, k)
    BY <1>1, <1>3, <1>4 DEF Filling
  <2> QED
    BY <1>1, <2>1, <2>2, HeldWhere DEF Held, Using, Filling, Busy
<1>7. Queues'
  BY <1>1, <1>3 DEF OInv, Queues
<1>8. Apart'
  <2> SUFFICES ASSUME d.own PROVE Apart'
    BY <1>1 DEF Apart
  <2> HIDE DEF n
  <2>1. \A k \in Lines : top'[k] # 0 =>
            /\ item'[k] \in (1 .. Len(fired')) \ pending
            /\ fired'[item'[k]] = k
    BY <1>1, <1>2, <1>3, <1>4 DEF OInv, Apart, n
  <2>2. pending \subseteq 1 .. Len(fired')
    BY <1>1, <1>2 DEF OInv, Apart, n
  <2>3. ASSUME NEW c \in Cpus, Busy(c)
        PROVE  /\ runner[c][1] \in (1 .. Len(fired')) \ pending
               /\ \A k \in Lines : top'[k] # 0 => item'[k] # runner[c][1]
    BY <1>1, <1>2, <1>3, <1>4, <2>3 DEF OInv, Apart, n
  <2> QED
    BY <1>1, <1>5, <2>1, <2>2, <2>3 DEF OInv, Apart
<1>9. AsHeld'
  BY <1>1, <1>6 DEF OInv, AsHeld
<1> QED
  BY <1>7, <1>8, <1>9

LEMMA TopOwn ==
    ASSUME OInv, NEW l \in Lines, my_interrupt(l)
    PROVE  Queues' /\ Apart' /\ AsHeld'
<1>1. PICK op : /\ Does(l, op)
                /\ pending' = IF op = "schedule" THEN pending \cup {item[l]}
                                                 ELSE pending
                /\ heap' = IF op = "alloc" THEN heap \cup {item[l]} ELSE heap
  BY DEF my_interrupt, TopAlloc, TopStamp, TopEvent, TopCount, TopRead,
         TopWrite, TopSchedule, TopRaise, TopWake
<1>2. /\ UNCHANGED <<driver, fired, item, runner>> /\ d' = d /\ Tops'
      /\ driver \in Drivers /\ Len(d.top) \in Nat
      /\ top[l] \in 1 .. Len(d.top) /\ d.top[top[l]] = op
      /\ top'[l] = IF top[l] = Len(d.top) THEN 0 ELSE top[l] + 1
      /\ \A k \in Lines \ {l} : top'[k] = top[k]
  BY <1>1, Advances, Sized DEF OInv, CInv, IInv, Shapes, Histories, life
<1>3. Queues'
  <2>1. op = "schedule" => d.by \in {"tasklet", "work"}
    BY <1>2, Defers
  <2>2. pending' \subseteq Items /\ (d.by \notin {"tasklet", "work"} => pending' = {})
    BY <1>1, <1>2, <2>1 DEF OInv, Queues
  <2> QED
    BY <1>2, <2>2 DEF OInv, Queues
<1>4. SUFFICES ASSUME d.own PROVE Apart' /\ AsHeld'
  BY <1>2, <1>3 DEF Apart, AsHeld
<1>5. \A c \in Cpus : /\ Busy(c)' = Busy(c)
                      /\ \A i : Using(i, c)' = Using(i, c)
  BY <1>2 DEF Busy, Using
<1>6. \A i : \A k \in Lines \ {l} : Filling(i, k)' = Filling(i, k)
  BY <1>2 DEF Filling
<1>7. /\ item[l] \in (1 .. Len(fired)) \ pending
      /\ \A c \in Cpus : Busy(c) => runner[c][1] # item[l]
      /\ \A k \in Lines \ {l} : top[k] # 0 => item[k] # item[l]
  BY <1>2, <1>4 DEF OInv, Apart
<1>8. \A i : Held(i)' <=> \/ i \in pending'
                          \/ \E c \in Cpus : Using(i, c)'
                          \/ \E k \in Lines : Filling(i, k)'
  BY DEF Held, Using, Filling, Busy
<1>9. CASE op = "alloc"
  <2>1. top[l] = 1 /\ top'[l] = 2 /\ op # "schedule"
    BY <1>2, <1>4, <1>9, OwnOrder
  <2>2. Apart'
    BY <1>1, <1>2, <1>4, <1>5, <2>1 DEF OInv, Apart
  <2>3. \A i : Held(i)' <=> Held(i) \/ i = item[l]
    BY <1>1, <1>2, <1>5, <1>6, <1>8, <2>1, HeldWhere DEF Filling
  <2>4. AsHeld'
    BY <1>1, <1>2, <1>4, <1>9, <2>3 DEF OInv, AsHeld
  <2> QED
    BY <2>2, <2>4
<1>10. CASE op = "schedule"
  <2>1. top[l] = Len(d.top) /\ top[l] > 1 /\ top'[l] = 0 /\ op # "alloc"
    BY <1>2, <1>4, <1>10, OwnOrder
  <2>2. Apart'
    BY <1>1, <1>2, <1>4, <1>5, <1>7, <1>10, <2>1 DEF OInv, Apart
  <2>3. \A i : Held(i)' <=> Held(i)
    BY <1>1, <1>2, <1>5, <1>6, <1>8, <1>10, <2>1, HeldWhere DEF Filling
  <2>4. AsHeld'
    BY <1>1, <1>2, <1>4, <2>1, <2>3 DEF OInv, AsHeld
  <2> QED
    BY <2>2, <2>4
<1>11. CASE op # "alloc" /\ op # "schedule"
  <2>1. top[l] > 1 /\ top'[l] > 1 /\ top'[l] # 0
    BY <1>2, <1>4, <1>11, OwnOrder
  <2>2. Apart'
    BY <1>1, <1>2, <1>4, <1>5, <1>11, <2>1 DEF OInv, Apart
  <2>3. \A i : Held(i)' <=> Held(i)
    BY <1>1, <1>2, <1>5, <1>6, <1>8, <1>11, <2>1, HeldWhere DEF Filling
  <2>4. AsHeld'
    BY <1>1, <1>2, <1>4, <1>11, <2>3 DEF OInv, AsHeld
  <2> QED
    BY <2>2, <2>4
<1> QED
  BY <1>9, <1>10, <1>11

LEMMA RunOwn ==
    ASSUME OInv, NEW c \in Cpus, NEW i \in Items, BottomRun(c, i)
    PROVE  Queues' /\ Apart' /\ AsHeld'
<1>1. /\ UNCHANGED <<driver, fired, top, item, heap>> /\ d' = d
      /\ driver \in Drivers
      /\ i \in pending /\ ~Busy(c) /\ pending' = pending \ {i}
      /\ runner' = [runner EXCEPT ![c] = <<i, 1>>]
  BY SameDriver DEF BottomRun, life, tops, history, OInv, CInv, IInv, Shapes
<1>2. Len(d.bottom) \in Nat /\ Len(d.bottom) >= 1
  BY <1>1, Sized, Defers DEF OInv, Queues
<1>3. runner'[c] = <<i, 1>> /\ \A e \in Cpus \ {c} : runner'[e] = runner[e]
  BY <1>1 DEF OInv, Queues
<1>4. Queues'
  <2>1. <<i, 1>> \in Items \X (0 .. Len(d.bottom))
    BY <1>2
  <2> QED
    BY <1>1, <2>1 DEF OInv, Queues
<1>5. SUFFICES ASSUME d.own PROVE Apart' /\ AsHeld'
  BY <1>1, <1>4 DEF Apart, AsHeld
<1>6. /\ Busy(c)' /\ \A e \in Cpus \ {c} : Busy(e)' = Busy(e)
      /\ runner'[c][1] = i /\ runner'[c][2] = 1
  BY <1>3 DEF Busy
<1>7. Apart'
  BY <1>1, <1>3, <1>5, <1>6 DEF OInv, Apart
<1>8. /\ Using(i, c)' /\ \A j : ~Using(j, c)
      /\ \A j : j # i => ~Using(j, c)'
      /\ \A j : \A e \in Cpus \ {c} : Using(j, e)' = Using(j, e)
      /\ \A j : \A l \in Lines : Filling(j, l)' = Filling(j, l)
  BY <1>1, <1>3, <1>5, <1>6, OwnOrder DEF Using, Filling, Busy
<1>9. \A j : Held(j)' <=> \/ j \in pending'
                          \/ \E e \in Cpus : Using(j, e)'
                          \/ \E l \in Lines : Filling(j, l)'
  BY DEF Held, Using, Filling, Busy
<1>10. \A j : Held(j)' <=> Held(j)
  BY <1>1, <1>8, <1>9, HeldWhere
<1>11. AsHeld'
  BY <1>1, <1>5, <1>10 DEF OInv, AsHeld
<1> QED
  BY <1>7, <1>11

\* A function that goes back goes to its second operation.
LEMMA Loopers ==
    ASSUME driver \in Drivers, NEW n \in 1 .. Len(d.bottom),
           d.bottom[n] \in {"events?", "dec"}
    PROVE  d.bottom = <<"events?", "count", "print", "dec", "unlock">>
<1>1. \/ d.bottom = <<"events?", "count", "print", "dec", "unlock">>
      \/ d.bottom = <<>> \/ d.bottom = <<"charge">> \/ d.bottom = <<"print">>
      \/ d.bottom = <<"count", "print">> \/ d.bottom = <<"charge", "unlock">>
      \/ d.bottom = <<"charge", "free">> \/ d.bottom = <<"print", "unlock">>
      \/ d.bottom = <<"count", "print", "unlock">>
      \/ d.bottom = <<"count", "print", "free">>
      \/ d.bottom = <<"charge", "free", "unlock">>
      \/ d.bottom = <<"count", "free null", "unlock">>
      \/ d.bottom = <<"count", "print", "free", "unlock">>
  BY Every, Zenon DEF Kind, Parts
<1> DEFINE none(s) == \A k \in 1 .. Len(s) : s[k] \notin {"events?", "dec"}
<1>2. ASSUME NEW s, s = <<>> \/ s = <<"charge">> \/ s = <<"print">> PROVE none(s)
  BY <1>2
<1>3. ASSUME NEW s, \/ s = <<"count", "print">> \/ s = <<"charge", "unlock">>
                    \/ s = <<"charge", "free">> \/ s = <<"print", "unlock">>
      PROVE  none(s)
  BY <1>3
<1>4. ASSUME NEW s, \/ s = <<"count", "print", "unlock">>
                    \/ s = <<"count", "print", "free">>
      PROVE  none(s)
  BY <1>4
<1>5. ASSUME NEW s, s = <<"charge", "free", "unlock">> PROVE none(s)
  BY <1>5
<1>6. ASSUME NEW s, s = <<"count", "free null", "unlock">> PROVE none(s)
  <2>1. Len(s) = 3 /\ s[1] = "count" /\ s[2] = "free null" /\ s[3] = "unlock"
    BY <1>6
  <2>2. \A k \in 1 .. 3 : k = 1 \/ k = 2 \/ k = 3
    OBVIOUS
  <2>3. s[1] \notin {"events?", "dec"} /\ s[3] \notin {"events?", "dec"}
    BY <2>1
  <2>4. s[2] \notin {"events?", "dec"}
    BY <2>1
  <2> QED
    BY <2>1, <2>2, <2>3, <2>4
<1>7. ASSUME NEW s, s = <<"count", "print", "free", "unlock">> PROVE none(s)
  BY <1>7
<1>8. ~none(d.bottom)
  OBVIOUS
<1> HIDE DEF none
<1> QED
  BY <1>1, <1>2, <1>3, <1>4, <1>5, <1>6, <1>7, <1>8, Zenon

LEMMA BottomOwn ==
    ASSUME OInv, NEW c \in Cpus, bottom(c)
    PROVE  Queues' /\ Apart' /\ AsHeld'
<1>1. /\ UNCHANGED <<driver, fired, top, item, pending>> /\ d' = d
      /\ driver \in Drivers /\ Len(d.bottom) \in Nat
  BY SameDriver, Sized
     DEF bottom, BottomCount, BottomCharge, BottomPrint, BottomFree,
         BottomOther, BottomTest, BottomDec, Runs, Goes, life, tops, history,
         OInv, CInv, IInv, Shapes
<1>2. ASSUME NEW op, Goes(c, op, IF nevents <= 0 THEN Len(d.bottom) ELSE 2)
                     \/ Goes(c, op, IF nevents = 1 THEN Len(d.bottom) ELSE 2),
             op \in {"events?", "dec"}
      PROVE  Queues' /\ ~d.own
  <2>1. Busy(c) /\ d.bottom[runner[c][2]] = op
    BY <1>2 DEF Goes
  <2>2. PICK to \in {2, Len(d.bottom)} : runner' = [runner EXCEPT ![c][2] = to]
    BY <1>2 DEF Goes
  <2>3. runner[c][2] \in 1 .. Len(d.bottom)
    BY <1>1, <2>1 DEF OInv, Queues, Busy
  <2>4. ~d.own
    BY <1>1, <1>2, <2>1, <2>3, OwnOrder DEF InOrder
  <2>5. d.bottom = <<"events?", "count", "print", "dec", "unlock">>
    BY <1>1, <1>2, <2>1, <2>3, Loopers
  <2>6. Len(d.bottom) = 5
    BY <2>5
  <2>7. to \in 0 .. Len(d.bottom)
    BY <2>6
  <2> QED
    BY <1>1, <2>1, <2>2, <2>4, <2>7, GoesTo DEF OInv, Queues
<1>3. CASE BottomTest(c) \/ BottomDec(c)
  BY <1>1, <1>2, <1>3 DEF BottomTest, BottomDec, Apart, AsHeld
<1>4. SUFFICES ASSUME NEW op, Runs(c, op),
                      heap' = IF op = "free" THEN heap \ {runner[c][1]} ELSE heap
               PROVE  Queues' /\ Apart' /\ AsHeld'
  BY <1>3 DEF bottom, BottomCount, BottomCharge, BottomPrint, BottomFree,
              BottomOther
<1>0. PICK i, n : i = runner[c][1] /\ n = runner[c][2]
  OBVIOUS
<1>5. /\ Queues' /\ i \in Items /\ n \in 1 .. Len(d.bottom) /\ d.bottom[n] = op
      /\ runner'[c] = <<i, IF n = Len(d.bottom) THEN 0 ELSE n + 1>>
      /\ i = runner[c][1] /\ n = runner[c][2]
      /\ Busy(c) /\ \A e \in Cpus \ {c} : runner'[e] = runner[e]
  BY <1>0, <1>1, <1>4, Steps DEF OInv
<1>6. SUFFICES ASSUME d.own PROVE Apart' /\ AsHeld'
  BY <1>1, <1>5 DEF Apart, AsHeld
<1>7. /\ \A e \in Cpus \ {c} : Busy(e)' = Busy(e)
      /\ runner'[c][1] = i /\ runner'[c][2] = IF n = Len(d.bottom) THEN 0 ELSE n + 1
      /\ \A e \in Cpus : runner'[e][1] = runner[e][1]
      /\ \A e \in Cpus : Busy(e)' => Busy(e)
  BY <1>5 DEF Busy
<1>8. Apart'
  BY <1>1, <1>6, <1>7 DEF OInv, Apart
<1>9. /\ \A j : Held(j)' <=> \/ j \in pending
                             \/ \E e \in Cpus : Using(j, e)'
                             \/ \E l \in Lines : Filling(j, l)
      /\ \A j : \A e \in Cpus \ {c} : Using(j, e)' = Using(j, e)
      /\ \A j : j # i => ~Using(j, c) /\ ~Using(j, c)'
  BY <1>1, <1>5, <1>7 DEF Held, Using, Filling, Busy
<1>10. ASSUME NEW j, j # i PROVE Held(j)' <=> Held(j)
  <2>1. (\E e \in Cpus : Using(j, e)') <=> \E e \in Cpus : Using(j, e)
    BY <1>9, <1>10
  <2> QED
    BY <1>9, <2>1, HeldWhere, Zenon
<1>11. (Held(i) <=> Using(i, c)) /\ (Held(i)' <=> Using(i, c)')
  <2>1. i \notin pending /\ \A l \in Lines : ~Filling(i, l)
    BY <1>1, <1>5, <1>6 DEF OInv, Apart, Filling, CInv, Histories, Tops
  <2>2. \A e \in Cpus \ {c} : ~Using(i, e)
    BY <1>5, <1>6 DEF OInv, Apart, Using
  <2>3. /\ (\E e \in Cpus : Using(i, e)) <=> Using(i, c)
        /\ (\E e \in Cpus : Using(i, e)') <=> Using(i, c)'
    BY <1>9, <2>2
  <2> QED
    BY <1>9, <2>1, <2>3, HeldWhere, Zenon
<1>12. /\ Using(i, c) <=> (driver \in FreedBeforeUnlock => op # "unlock")
       /\ Using(i, c)' <=>
              /\ n # Len(d.bottom)
              /\ driver \in FreedBeforeUnlock => d.bottom[n + 1] # "unlock"
  <2>1. Using(i, c) <=> (driver \in FreedBeforeUnlock => op # "unlock")
    BY <1>5 DEF Using
  <2>2. CASE n = Len(d.bottom)
    BY <1>5, <1>7, <2>2 DEF Using, Busy
  <2>3. CASE n # Len(d.bottom)
    <3>1. runner'[c][2] = n + 1 /\ n + 1 # 0 
      BY <1>1, <1>5, <1>7, <2>3
    <3> QED
      BY <1>1, <1>5, <1>7, <2>3, <3>1 DEF Using, Busy
  <2> QED
    BY <2>1, <2>2, <2>3
<1>13. InOrder(n)
  BY <1>1, <1>5, <1>6, OwnOrder
<1>14. ASSUME op # "free", driver \notin NothingFreed
       PROVE  Held(i)' <=> Held(i)
  <2>1. \/ /\ op \in {"count", "print", "charge"} /\ n # Len(d.bottom)
           /\ d.bottom[n + 1] # "unlock"
        \/ op = "unlock" /\ n = Len(d.bottom) /\ driver \in FreedBeforeUnlock
    <3>1. /\ d.bottom[n] = op /\ Len(d.bottom) \in Nat
          /\ n \in 1 .. Len(d.bottom)
      BY <1>1, <1>5
    <3>2. n + 1 \in 1 .. Len(d.bottom) => n # Len(d.bottom)
      BY <3>1
    <3>3. op # "free" /\ driver \notin NothingFreed
      BY <1>14
    <3> QED
      BY <3>1, <3>2, <3>3, <1>13, Zenon DEF InOrder
  <2> QED
    BY <1>11, <1>12, <2>1
<1>15. ASSUME op = "free" PROVE ~Held(i)'
  BY <1>1, <1>5, <1>11, <1>12, <1>13, <1>15 DEF InOrder
<1>16. Held(i)' => Held(i)
  BY <1>1, <1>5, <1>11, <1>12, <1>13 DEF InOrder
<1>17. AsHeld'
  <2> SUFFICES ASSUME NEW j \in Items \ {0}
               PROVE  /\ j \in heap' /\ driver \notin NothingFreed => Held(j)'
                      /\ Held(j)' => j \in heap'
    BY <1>1 DEF AsHeld
  <2>1. /\ j \in heap /\ driver \notin NothingFreed => Held(j)
        /\ Held(j) => j \in heap
    BY <1>6 DEF OInv, AsHeld
  <2>2. CASE j # i
    BY <1>4, <1>5, <1>10, <2>1, <2>2
  <2>3. CASE j = i
    BY <1>4, <1>5, <1>14, <1>15, <1>16, <2>1, <2>3
  <2> QED
    BY <2>2, <2>3
<1> QED
  BY <1>8, <1>17

LEMMA StepOInv ==
    ASSUME OInv, [Next]_vars
    PROVE  OInv'
<1>1. CInv'
  BY StepCInv DEF OInv
<1>2. SUFFICES Queues' /\ Apart' /\ AsHeld'
  BY <1>1 DEF OInv
<1>3. CASE my_init
  BY <1>3, StandsOwn
     DEF my_init, RunThread, Register, RequestLine, ResetCounter, tops, queue,
         history
<1>4. CASE my_exit
  BY <1>4, StandsOwn
     DEF my_exit, StopThread, JoinThread, SynchronizeIrq, UnlinkIrq, FreeIrq,
         Deregister, tops, queue, history
<1>5. CASE FreedTextRuns \/ \E l \in Lines : AllocFails(l)
  BY <1>5, StandsOwn DEF FreedTextRuns, AllocFails, tops, queue, history
<1>6. CASE thr_fun
  BY <1>6, StandsOwn
     DEF thr_fun, ThreadRead, ThreadClear, ThreadWait, ThreadCount,
         ThreadPrint, ThreadStopTest, ThreadEventsTest, ThreadInc, ThreadDec,
         ThreadWhile, At, tops, life, queue
<1>7. CASE UNCHANGED vars
  BY <1>7, StandsOwn DEF vars, tops, life, queue, history
<1> QED
  BY <1>3, <1>4, <1>5, <1>6, <1>7, EnterOwn, TopOwn, RunOwn, BottomOwn
     DEF Next, Runnable

LEMMA InitOInv ==
    ASSUME Init
    PROVE  OInv
<1>1. CInv
  BY InitCInv
<1>2. /\ 0 \in Items /\ 0 \in 0 .. Len(d.bottom)
      /\ \A c \in Cpus : ~Busy(c)
  BY Sized, ConstantsAssumption DEF Init, Items, Busy
<1>3. Queues
  BY <1>2 DEF Init, Queues
<1>4. Apart /\ \A i : ~Held(i)
  BY <1>2 DEF Init, Apart, Held
<1>5. AsHeld
  BY <1>4 DEF Init, AsHeld
<1> QED
  BY <1>1, <1>3, <1>4, <1>5 DEF OInv

\* In the dynamic drivers (lab3_one_tasklet_dynamic.c, lab3_one_workqueue_dynamic.c,
\* lab5_all_*_dynamic.c, 20_LAB3_tasklet_dynamic) the memory that an interrupt
\* allocates is there as long as its handler, the queue or its function needs
\* it, and no longer.
THEOREM OwnMemoryKept == Spec => []OwnMemory
<1>1. OInv => OwnMemory
  BY DEF OInv, AsHeld, OwnMemory
<1> QED
  BY InitOInv, StepOInv, <1>1, PTL DEF Spec

-----------------------------------------------------------------------------
(* Never more bottoms than tops: every run of a bottom half is paid for by  *)
(* an interrupt of its own.  The interrupts that have not asked yet, what   *)
(* waits for a run, and the runs that were counted are no more than the     *)
(* interrupts that came.                                                    *)

Asks == IF d.loop = "catchup" THEN {"event"} ELSE {"schedule", "raise", "write"}

\* The handlers that have yet to ask
Asking == {l \in Lines : Ahead(l, Asks)}

\* The functions that have yet to do their first operation, which counts
Running == {c \in Cpus : runner[c][2] = 1}

\* An event whose run was counted, and which is not consumed yet
Taking == IF thread = "dec" \/ \E c \in Cpus : runner[c][2] \in {3, 4} THEN 1 ELSE 0

\* What has been asked for and not counted yet: events, a raised flag that the
\* thread will look at before it lowers it, or functions queued or begun
Waiting ==
    IF d.loop = "catchup" THEN nevents - Taking
    ELSE IF d.by = "thread"
      THEN IF thread \in {"wait", "sleep", "cond?"} THEN cond ELSE 0
    ELSE Cardinality(pending) + Cardinality(Running)

Total == counter_bh + Cardinality(Asking) + Waiting <= Len(fired)

Stands ==
    /\ counter_bh \in Int /\ nevents \in Int /\ cond \in {0, 1}
    /\ d.by # "thread" \/ module = "out" => thread = "none"
    /\ d.loop = "catchup" => thread # "cond?"
    /\ d.loop # "catchup" => thread \notin {"stop?", "events?", "inc", "dec"}

\* The static item is the only one of a driver that allocates none.
Static ==
    ~d.own => /\ \A l \in Lines : item[l] = 0
              /\ pending \subseteq {0}
              /\ \A c \in Cpus : runner[c][1] = 0

\* One run at a time catches up, and only on events that are there.
Catching ==
    d.loop = "catchup" =>
        /\ nevents >= 0
        /\ thread \in {"inc", "dec"} => nevents >= 1
        /\ \A c \in Cpus : runner[c][2] \in {2, 3, 4} => nevents >= 1
        /\ \A c, e \in Cpus : Busy(c) /\ Busy(e) => c = e

TInv == OInv /\ Stands /\ Static /\ Catching /\ Total

-----------------------------------------------------------------------------

\* A handler asks once.
LEMMA AskOnce ==
    ASSUME driver \in Drivers
    PROVE  Unique(Asks)
<1> DEFINE U(s, ops) ==
        \E n \in DOMAIN s : /\ s[n] \in ops
                            /\ \A m \in DOMAIN s : s[m] \in ops => m = n
           A == {"schedule", "raise", "write"}
<1>1. \/ d.loop = "catchup" /\ d.top = <<"event", "count", "raise", "stamp", "wake">>
      \/ d.loop = "catchup" /\ d.top = <<"count", "event", "stamp", "schedule">>
      \/ /\ d.loop # "catchup"
         /\ \/ d.top = <<"count", "stamp", "schedule">>
            \/ d.top = <<"count", "stamp", "raise", "wake">>
            \/ d.top = <<"alloc", "stamp", "count", "schedule">>
            \/ d.top = <<"alloc", "count", "schedule">>
            \/ d.top = <<"stamp", "count", "schedule">>
            \/ d.top = <<"stamp", "raise", "count", "wake">>
            \/ d.top = <<"read", "write">>
            \/ d.top = <<"schedule", "stamp">>
            \/ d.top = <<"stamp", "schedule">>
  <2>1. /\ "none" # "catchup" /\ "flag" # "catchup" /\ "charge" # "catchup"
    OBVIOUS
  <2> QED
    BY <2>1, Every, Zenon DEF Kind, Parts
<1>2. ASSUME NEW s, s = <<"event", "count", "raise", "stamp", "wake">>
      PROVE  U(s, {"event"})
  <2>1. s[1] \in {"event"}
    BY <1>2
  <2> QED
    BY <1>2, <2>1
<1>3. ASSUME NEW s, s = <<"count", "event", "stamp", "schedule">>
      PROVE  U(s, {"event"})
  <2>1. s[2] \in {"event"}
    BY <1>3
  <2> QED
    BY <1>3, <2>1
<1>4. ASSUME NEW s, \/ s = <<"count", "stamp", "schedule">>
                    \/ s = <<"alloc", "count", "schedule">>
                    \/ s = <<"stamp", "count", "schedule">>
      PROVE  U(s, A)
  <2>1. s[3] \in A /\ DOMAIN s = 1 .. 3 /\ s[1] \notin A /\ s[2] \notin A
    BY <1>4
  <2> QED
    BY <2>1
<1>5. ASSUME NEW s, s = <<"count", "stamp", "raise", "wake">>
      PROVE  U(s, A)
  <2>1. s[3] \in A /\ DOMAIN s = 1 .. 4 /\ s[1] \notin A /\ s[2] \notin A /\ s[4] \notin A
    BY <1>5
  <2> QED
    BY <2>1
<1>6. ASSUME NEW s, s = <<"alloc", "stamp", "count", "schedule">>
      PROVE  U(s, A)
  <2>1. s[4] \in A /\ DOMAIN s = 1 .. 4 /\ s[1] \notin A /\ s[2] \notin A /\ s[3] \notin A
    BY <1>6
  <2> QED
    BY <2>1
<1>7. ASSUME NEW s, s = <<"stamp", "raise", "count", "wake">>
      PROVE  U(s, A)
  <2>1. s[2] \in A /\ DOMAIN s = 1 .. 4 /\ s[1] \notin A /\ s[3] \notin A /\ s[4] \notin A
    BY <1>7
  <2> QED
    BY <2>1
<1>8. ASSUME NEW s, s = <<"read", "write">> \/ s = <<"stamp", "schedule">>
      PROVE  U(s, A)
  <2>1. s[2] \in A /\ DOMAIN s = 1 .. 2 /\ s[1] \notin A
    BY <1>8
  <2> QED
    BY <2>1
<1>9. ASSUME NEW s, s = <<"schedule", "stamp">>
      PROVE  U(s, A)
  <2>1. s[1] \in A /\ DOMAIN s = 1 .. 2 /\ s[2] \notin A
    BY <1>9
  <2> QED
    BY <2>1
<1>10. U(d.top, Asks)
  <2>1. /\ d.loop = "catchup" => Asks = {"event"}
        /\ d.loop # "catchup" => Asks = A
    BY DEF Asks
  <2> HIDE DEF U, A
  <2> QED
    BY <1>1, <1>2, <1>3, <1>4, <1>5, <1>6, <1>7, <1>8, <1>9, <2>1, Zenon
<1> QED
  BY <1>10 DEF Unique

\* What counts the runs: the thread, a loop on nevents, or a function that
\* counts first.
LEMMA Classes ==
    ASSUME driver \in Drivers
    PROVE  /\ d.by \in {"tasklet", "work", "thread", "none"}
           /\ d.loop \in {"none", "flag", "catchup", "charge"}
           /\ d.by = "thread" => d.bottom = <<>>
           /\ d.loop = "catchup" =>
                 /\ ~d.own /\ d.by \in {"thread", "tasklet"}
                 /\ d.by = "tasklet" =>
                     d.bottom = <<"events?", "count", "print", "dec", "unlock">>
           /\ d.loop # "catchup" =>
                 \A n \in 1 .. Len(d.bottom) :
                     /\ d.bottom[n] \in {"count", "charge"} => n = 1
                     /\ d.bottom[n] \notin {"events?", "dec"}
<1>1. /\ d.by \in {"tasklet", "work", "thread", "none"}
      /\ d.loop \in {"none", "flag", "catchup", "charge"}
  BY Every, Zenon DEF Kind, Parts
<1>2. d.by = "thread" => d.bottom = <<>>
  <2>1. "tasklet" # "thread" /\ "work" # "thread" /\ "none" # "thread"
    OBVIOUS
  <2> QED
    BY <2>1, Every, Zenon DEF Kind, Parts
<1>3. /\ d.loop = "catchup" =>
            /\ ~d.own /\ d.by \in {"thread", "tasklet"}
            /\ d.by = "tasklet" =>
                  d.bottom = <<"events?", "count", "print", "dec", "unlock">>
      /\ d.loop # "catchup" =>
            \/ d.bottom = <<>> \/ d.bottom = <<"charge">> \/ d.bottom = <<"print">>
            \/ d.bottom = <<"count", "print">> \/ d.bottom = <<"charge", "unlock">>
            \/ d.bottom = <<"charge", "free">> \/ d.bottom = <<"print", "unlock">>
            \/ d.bottom = <<"count", "print", "unlock">>
            \/ d.bottom = <<"count", "print", "free">>
            \/ d.bottom = <<"charge", "free", "unlock">>
            \/ d.bottom = <<"count", "free null", "unlock">>
            \/ d.bottom = <<"count", "print", "free", "unlock">>
  <2>1. /\ "none" # "catchup" /\ "flag" # "catchup" /\ "charge" # "catchup"
        /\ "tasklet" # "thread"
    OBVIOUS
  <2> QED
    BY <2>1, Every, Zenon DEF Kind, Parts
<1> DEFINE B(s) ==
        \A n \in 1 .. Len(s) : /\ s[n] \in {"count", "charge"} => n = 1
                               /\ s[n] \notin {"events?", "dec"}
           In(x) == x \notin {"count", "charge", "events?", "dec"}
<1>4. In("print") /\ In("unlock") /\ In("free") /\ In("free null")
  OBVIOUS
<1>5. /\ "count" \notin {"events?", "dec"} /\ "charge" \notin {"events?", "dec"}
  OBVIOUS
<1>6. ASSUME NEW s, \/ s = <<>> \/ s = <<"charge">> \/ s = <<"print">>
      PROVE  B(s)
  BY <1>6
<1>7. ASSUME NEW s, NEW a, NEW b, s = <<a, b>>, In(b), a \notin {"events?", "dec"}
      PROVE  B(s)
  BY <1>7
<1>8. ASSUME NEW s, NEW a, NEW b, NEW c, s = <<a, b, c>>, In(b), In(c),
             a \notin {"events?", "dec"}
      PROVE  B(s)
  <2>1. Len(s) = 3 /\ s[1] = a /\ s[2] = b /\ s[3] = c
    BY <1>8
  <2>2. \A n \in 1 .. 3 : n = 1 \/ n = 2 \/ n = 3
    OBVIOUS
  <2> QED
    BY <1>8, <2>1, <2>2
<1>9. ASSUME NEW s, NEW a, NEW b, NEW c, NEW e, s = <<a, b, c, e>>,
             In(b), In(c), In(e), a \notin {"events?", "dec"}
      PROVE  B(s)
  <2>1. Len(s) = 4 /\ s[1] = a /\ s[2] = b /\ s[3] = c /\ s[4] = e
    BY <1>9
  <2>2. \A n \in 1 .. 4 : n = 1 \/ n = 2 \/ n = 3 \/ n = 4
    OBVIOUS
  <2> QED
    BY <1>9, <2>1, <2>2
<1>10. d.loop # "catchup" => B(d.bottom)
  <2>1. "print" \notin {"events?", "dec"}
    OBVIOUS
  <2> HIDE DEF B, In
  <2> QED
    BY <1>3, <1>4, <1>5, <1>6, <1>7, <1>8, <1>9, <2>1, Zenon
<1> QED
  BY <1>1, <1>2, <1>3, <1>10

-----------------------------------------------------------------------------
(* ... and who pays in each step                                            *)

LEMMA Amounts ==
    ASSUME TInv
    PROVE  /\ IsFiniteSet(Asking) /\ Cardinality(Asking) \in Nat
           /\ IsFiniteSet(pending) /\ Cardinality(pending) \in Nat
           /\ IsFiniteSet(Running) /\ Cardinality(Running) \in Nat
           /\ Taking \in {0, 1} /\ Waiting \in Int
           /\ Len(fired) \in Nat
           /\ counter_bh \in Int /\ nevents \in Int /\ cond \in {0, 1}
           /\ driver \in Drivers /\ Tops
<1>1. IsFiniteSet(Lines) /\ IsFiniteSet(Items) /\ IsFiniteSet(Cpus)
  BY ConstantsAssumption, FS_Interval DEF Lines, Items
<1>2. Asking \subseteq Lines /\ Running \subseteq Cpus /\ pending \subseteq Items
  BY DEF Asking, Running, TInv, OInv, Queues
<1>3. IsFiniteSet(Asking) /\ IsFiniteSet(Running) /\ IsFiniteSet(pending)
  BY <1>1, <1>2, FS_Subset
<1>4. /\ Cardinality(Asking) \in Nat /\ Cardinality(Running) \in Nat
      /\ Cardinality(pending) \in Nat
  BY <1>3, FS_CardinalityType
<1>5. /\ counter_bh \in Int /\ nevents \in Int /\ cond \in {0, 1}
      /\ Len(fired) \in Nat /\ driver \in Drivers /\ Tops
  BY DEF TInv, Stands, OInv, CInv, IInv, Shapes, Histories
<1>6. Taking \in {0, 1}
  BY DEF Taking
<1> QED
  BY <1>3, <1>4, <1>5, <1>6 DEF Waiting

\* What waits and who is to ask depend on nothing else.
LEMMA SameAsking ==
    ASSUME UNCHANGED <<driver, top>>
    PROVE  Asking' = Asking
BY DEF Asking, Ahead, Asks, Place, d

LEMMA SameRunning ==
    ASSUME UNCHANGED runner
    PROVE  Running' = Running /\ \A c \in Cpus : Busy(c)' = Busy(c)
BY DEF Running, Busy

\* The module's own steps, and a thread that is created, woken or waits
LEMMA StandsTotal ==
    ASSUME TInv,
           UNCHANGED <<driver, top, item, pending, runner, counter_bh, nevents,
                       cond, fired>>,
           \/ thread' = thread
           \/ thread' = Woken
           \/ /\ module = "out" /\ d.by = "thread"
              /\ thread' \in {"read", "clear", "errptr"},
           module' = "out" => module = "out" /\ thread' \in {thread, Woken}
    PROVE  Stands' /\ Static' /\ Catching' /\ Total'
<1>1. d' = d
  BY SameDriver
<1>2. Asking' = Asking /\ Running' = Running /\ \A c \in Cpus : Busy(c)' = Busy(c)
  BY SameAsking, SameRunning
<1>3. Stands'
  BY <1>1 DEF TInv, Stands, Woken
<1>4. Static'
  BY <1>1 DEF TInv, Static
<1>5. Catching'
  BY <1>1, <1>2 DEF TInv, Catching, Woken
<1>6. Taking' = Taking
  BY DEF Taking, TInv, Stands, Woken
<1>7. Waiting' <= Waiting
  <2>1. Waiting \in Int /\ cond \in {0, 1}
    BY Amounts
  <2> QED
    BY <1>1, <1>2, <1>6, <2>1 DEF Waiting, Woken
<1>8. Total'
  <2>1. Waiting' = Waiting \/ Waiting' = 0
    BY <1>1, <1>2, <1>6 DEF Waiting, Woken
  <2>2. Waiting' \in Int
    BY <2>1, Amounts
  <2> QED
    BY <1>1, <1>2, <1>7, <2>2, Amounts DEF TInv, Total
<1> QED
  BY <1>3, <1>4, <1>5, <1>8

LEMMA EnterTotal ==
    ASSUME TInv, NEW l \in Lines, Enter(l)
    PROVE  Stands' /\ Static' /\ Catching' /\ Total'
<1>1. /\ UNCHANGED <<driver, module, pending, runner, counter_bh, nevents, cond,
                     thread>>
      /\ d' = d /\ driver \in Drivers
      /\ top[l] = 0 /\ top' = [top EXCEPT ![l] = 1]
      /\ fired' = Append(fired, l)
      /\ item' = [item EXCEPT ![l] = IF d.own THEN Len(fired') ELSE 0]
  BY SameDriver, Amounts DEF Enter, life, counters, queue, task
<1>2. Len(fired') = Len(fired) + 1
  BY <1>1, FiredGrows DEF TInv, OInv, CInv, Histories
<1>3. top'[l] = 1 /\ \A k \in Lines \ {l} : top'[k] = top[k]
  BY <1>1 DEF TInv, OInv, CInv, Histories, Tops
<1>4. Asking' = Asking \cup {l} /\ l \notin Asking
  <2>1. Asks' = Asks /\ Place(Asks)' = Place(Asks)
    BY <1>1 DEF Asks, Place
  <2>2. Place(Asks) \in Nat /\ Place(Asks) >= 1
    <3>1. PICK ops : ops = Asks
      OBVIOUS
    <3>2. Place(ops) \in 1 .. Len(d.top)
      BY <1>1, <3>1, AskOnce, Placed
    <3> QED
      BY <1>1, <3>1, <3>2, Sized
  <2> HIDE DEF Asks, Place
  <2>3. \A k \in Lines : k \in Asking' <=> top'[k] # 0 /\ top'[k] <= Place(Asks)
    BY <2>1 DEF Asking, Ahead
  <2> QED
    BY <1>1, <1>3, <2>2, <2>3 DEF Asking, Ahead
<1>5. Running' = Running /\ \A c \in Cpus : Busy(c)' = Busy(c)
  BY <1>1, SameRunning
<1>6. Taking' = Taking
  BY <1>1 DEF Taking
<1>7. Waiting' = Waiting
  BY <1>1, <1>5, <1>6 DEF Waiting
<1>8. Cardinality(Asking') = Cardinality(Asking) + 1
  BY <1>4, Amounts, FS_AddElement
<1>9. Total'
  BY <1>1, <1>2, <1>7, <1>8, Amounts DEF TInv, Total
<1>10. Stands' /\ Static' /\ Catching'
  BY <1>1, <1>5 DEF TInv, Stands, Static, Catching, OInv, Queues
<1> QED
  BY <1>9, <1>10

LEMMA TopTotal ==
    ASSUME TInv, NEW l \in Lines, my_interrupt(l)
    PROVE  Stands' /\ Static' /\ Catching' /\ Total'
<1>1. PICK op : /\ Does(l, op)
                /\ pending' = IF op = "schedule" THEN pending \cup {item[l]}
                                                 ELSE pending
                /\ nevents' = IF op = "event" THEN nevents + 1 ELSE nevents
                /\ cond' = IF op = "raise" THEN 1 ELSE cond
                /\ thread' = IF op = "wake" THEN Woken ELSE thread
  BY DEF my_interrupt, TopAlloc, TopStamp, TopEvent, TopCount, TopRead,
         TopWrite, TopSchedule, TopRaise, TopWake
<1>2. /\ UNCHANGED <<driver, module, fired, item, runner, counter_bh>> /\ d' = d
      /\ driver \in Drivers /\ Tops
  BY <1>1, Advances, Amounts DEF life
<1>3. /\ op \in Asks => Asking' = Asking \ {l} /\ l \in Asking
      /\ op \notin Asks => Asking' = Asking
  <2>1. PICK ops : ops = Asks
    OBVIOUS
  <2>2. Asks' = ops
    BY <1>2, <2>1 DEF Asks
  <2>3. Unique(ops)
    BY <1>2, <2>1, AskOnce
  <2>4. /\ op \in ops => Ahead(l, ops) /\ ~Ahead(l, ops)'
        /\ op \notin ops => Ahead(l, ops)' = Ahead(l, ops)
        /\ \A k \in Lines \ {l} : Ahead(k, ops)' = Ahead(k, ops)
    BY <1>1, <1>2, <2>3, AheadMoves
  <2>5. Asking = {k \in Lines : Ahead(k, ops)}
    BY <2>1 DEF Asking
  <2>6. Asking' = {k \in Lines : Ahead(k, ops)'}
    BY <2>2 DEF Asking
  <2> QED
    BY <2>1, <2>4, <2>5, <2>6
<1>4. Running' = Running /\ \A c \in Cpus : Busy(c)' = Busy(c)
  BY <1>2, SameRunning
<1>5. Taking' = Taking
  BY <1>1, <1>2 DEF Taking, Woken
<1>6. /\ Cardinality(pending') \in Nat
      /\ Cardinality(pending') <= Cardinality(pending) + 1
      /\ op # "schedule" => pending' = pending
  <2>1. IsFiniteSet(pending) /\ Cardinality(pending) \in Nat
    BY Amounts
  <2>2. Cardinality(pending \cup {item[l]}) =
            IF item[l] \in pending THEN Cardinality(pending)
                                   ELSE Cardinality(pending) + 1
    BY <2>1, FS_AddElement
  <2>3. pending' = pending \/ pending' = pending \cup {item[l]}
    BY <1>1
  <2>4. op # "schedule" => pending' = pending
    BY <1>1
  <2>5. \/ Cardinality(pending') = Cardinality(pending)
        \/ Cardinality(pending') = Cardinality(pending) + 1
    BY <2>2, <2>3, Zenon
  <2> QED
    BY <2>1, <2>4, <2>5
<1>7. /\ Waiting' \in Int /\ Waiting' <= Waiting + 1
      /\ op \notin Asks => Waiting' = Waiting
  <2>1. CASE d.loop = "catchup"
    BY <1>1, <1>2, <1>5, <2>1, Amounts DEF Waiting, Asks
  <2>2. CASE d.loop # "catchup" /\ d.by = "thread"
    BY <1>1, <1>2, <2>2, Amounts DEF Waiting, Asks, Woken
  <2>3. CASE d.loop # "catchup" /\ d.by # "thread"
    BY <1>2, <1>4, <1>6, <2>3, Amounts DEF Waiting, Asks
  <2> QED
    BY <2>1, <2>2, <2>3
<1>8. op \in Asks => Cardinality(Asking') = Cardinality(Asking) - 1
  BY <1>3, Amounts, FS_RemoveElement
<1>9. Total'
  <2>1. CASE op \in Asks
    BY <1>2, <1>7, <1>8, <2>1, Amounts DEF TInv, Total
  <2>2. CASE op \notin Asks
    BY <1>2, <1>3, <1>7, <2>2, Amounts DEF TInv, Total
  <2> QED
    BY <2>1, <2>2
<1>10. Stands'
  BY <1>1, <1>2 DEF TInv, Stands, Woken
<1>11. Static'
  BY <1>1, <1>2 DEF TInv, Static
<1>12. Catching'
  BY <1>1, <1>2, <1>4, Amounts DEF TInv, Catching, Woken
<1> QED
  BY <1>9, <1>10, <1>11, <1>12

LEMMA RunTotal ==
    ASSUME TInv, NEW c \in Cpus, NEW i \in Items, BottomRun(c, i)
    PROVE  Stands' /\ Static' /\ Catching' /\ Total'
<1>1. /\ UNCHANGED <<driver, module, fired, top, item, counter_bh, nevents,
                     cond, thread>>
      /\ d' = d /\ driver \in Drivers
      /\ i \in pending /\ ~Busy(c) /\ pending' = pending \ {i}
      /\ runner' = [runner EXCEPT ![c] = <<i, 1>>]
      /\ d.by = "tasklet" => \A e \in Cpus : Busy(e) => runner[e][1] # i
  BY SameDriver, Amounts DEF BottomRun, life, tops, counters, task, history
<1>2. /\ runner'[c] = <<i, 1>> /\ runner'[c][1] = i /\ runner'[c][2] = 1
      /\ \A e \in Cpus \ {c} : runner'[e] = runner[e]
  BY <1>1 DEF TInv, OInv, Queues
<1>3. runner[c][2] = 0
  BY <1>1 DEF Busy
<1>4. Running' = Running \cup {c} /\ c \notin Running
  BY <1>2, <1>3 DEF Running
<1>5. /\ Cardinality(Running') = Cardinality(Running) + 1
      /\ Cardinality(pending') = Cardinality(pending) - 1
  BY <1>1, <1>4, Amounts, FS_AddElement, FS_RemoveElement
<1>6. Asking' = Asking
  BY <1>1, SameAsking
<1>7. Taking' = Taking
  BY <1>1, <1>2, <1>3 DEF Taking
<1>8. Waiting' = Waiting
  BY <1>1, <1>5, <1>7, Amounts DEF Waiting
<1>9. Total'
  BY <1>1, <1>6, <1>8, Amounts DEF TInv, Total
<1>10. Stands'
  BY <1>1 DEF TInv, Stands
<1>11. Static'
  BY <1>1, <1>2 DEF TInv, Static
<1>12. Catching'
  <2> SUFFICES ASSUME d.loop = "catchup" PROVE Catching'
    BY <1>1 DEF Catching
  <2>1. d.by = "tasklet" /\ ~d.own
    BY <1>1, Classes DEF TInv, OInv, Queues
  <2>2. \A e \in Cpus : ~Busy(e)
    BY <1>1, <2>1 DEF TInv, Static
  <2>3. \A e \in Cpus : Busy(e)' => e = c
    BY <1>2, <2>2 DEF Busy
  <2>4. \A e \in Cpus : runner'[e][2] \in {2, 3, 4} => runner[e][2] \in {2, 3, 4}
    BY <1>2
  <2> QED
    BY <1>1, <2>3, <2>4 DEF TInv, Catching
<1> QED
  BY <1>9, <1>10, <1>11, <1>12

\* Where a function goes, and what it does to the counters
LEMMA BottomMoves ==
    ASSUME TInv, NEW c \in Cpus, bottom(c)
    PROVE  \E n \in 1 .. Len(d.bottom), to \in 0 .. Len(d.bottom) :
              /\ runner[c][2] = n /\ runner'[c][2] = to
              /\ runner'[c][1] = runner[c][1]
              /\ \A e \in Cpus \ {c} : runner'[e] = runner[e] /\ Busy(e)' = Busy(e)
              /\ \/ /\ d.bottom[n] \notin {"events?", "dec"}
                    /\ to = IF n = Len(d.bottom) THEN 0 ELSE n + 1
                    /\ nevents' = nevents
                 \/ /\ d.bottom[n] = "events?" /\ nevents' = nevents
                    /\ to = IF nevents <= 0 THEN Len(d.bottom) ELSE 2
                 \/ /\ d.bottom[n] = "dec" /\ nevents' = nevents - 1
                    /\ to = IF nevents = 1 THEN Len(d.bottom) ELSE 2
              /\ counter_bh' = IF d.bottom[n] \in {"count", "charge"}
                                 THEN counter_bh + 1 ELSE counter_bh
<1>1. /\ UNCHANGED <<driver, module, fired, top, item, pending, cond, thread>>
      /\ d' = d /\ driver \in Drivers /\ Queues /\ Busy(c)
  BY SameDriver, Amounts
     DEF bottom, BottomCount, BottomCharge, BottomPrint, BottomFree,
         BottomOther, BottomTest, BottomDec, Runs, Goes, life, tops, task,
         history, TInv, OInv
<1>0. PICK i, n : i = runner[c][1] /\ n = runner[c][2]
  OBVIOUS
<1>2. /\ n \in 1 .. Len(d.bottom) /\ Len(d.bottom) \in Nat /\ i \in Items
  BY <1>0, <1>1, Sized DEF Queues, Busy
<1>3. PICK to \in 0 .. Len(d.bottom) :
         /\ runner' = [runner EXCEPT ![c][2] = to]
         /\ \/ /\ d.bottom[n] \notin {"events?", "dec"}
               /\ to = IF n = Len(d.bottom) THEN 0 ELSE n + 1
               /\ nevents' = nevents
            \/ /\ d.bottom[n] = "events?" /\ nevents' = nevents
               /\ to = IF nevents <= 0 THEN Len(d.bottom) ELSE 2
            \/ /\ d.bottom[n] = "dec" /\ nevents' = nevents - 1
               /\ to = IF nevents = 1 THEN Len(d.bottom) ELSE 2
  <2>1. CASE BottomTest(c) \/ BottomDec(c)
    <3>1. \/ /\ d.bottom[n] = "events?" /\ nevents' = nevents
             /\ runner' = [runner EXCEPT ![c][2] =
                              IF nevents <= 0 THEN Len(d.bottom) ELSE 2]
          \/ /\ d.bottom[n] = "dec" /\ nevents' = nevents - 1
             /\ runner' = [runner EXCEPT ![c][2] =
                              IF nevents = 1 THEN Len(d.bottom) ELSE 2]
      BY <1>0, <2>1 DEF BottomTest, BottomDec, Goes
    <3>2. d.bottom = <<"events?", "count", "print", "dec", "unlock">>
      BY <1>1, <1>2, <3>1, Loopers
    <3>3. Len(d.bottom) = 5
      BY <3>2
    <3>4. 2 \in 0 .. Len(d.bottom) /\ Len(d.bottom) \in 0 .. Len(d.bottom)
      BY <3>3
    <3> HIDE DEF d
    <3> QED
      BY <3>1, <3>4
  <2>2. CASE ~(BottomTest(c) \/ BottomDec(c))
    <3>1. PICK op : Runs(c, op) /\ op \notin {"events?", "dec"}
      <4>1. \/ Runs(c, "count") \/ Runs(c, "charge") \/ Runs(c, "print")
            \/ Runs(c, "free") \/ Runs(c, "free null") \/ Runs(c, "unlock")
        BY <2>2 DEF bottom, BottomCount, BottomCharge, BottomPrint, BottomFree,
                    BottomOther
      <4>2. /\ "count" \notin {"events?", "dec"} /\ "charge" \notin {"events?", "dec"}
            /\ "print" \notin {"events?", "dec"} /\ "free" \notin {"events?", "dec"}
            /\ "free null" \notin {"events?", "dec"}
            /\ "unlock" \notin {"events?", "dec"}
        OBVIOUS
      <4> QED
        BY <4>1, <4>2, Zenon
    <3>2. /\ d.bottom[n] = op /\ nevents' = nevents
          /\ runner' = [runner EXCEPT ![c][2] = (n + 1) % (Len(d.bottom) + 1)]
      BY <1>0, <3>1 DEF Runs
    <3>3. (n + 1) % (Len(d.bottom) + 1) = IF n = Len(d.bottom) THEN 0 ELSE n + 1
      <4>1. Len(d.bottom) \in Nat /\ n \in 0 .. Len(d.bottom)
        BY <1>2
      <4> QED
        BY <4>1, Around
    <3>4. (n + 1) % (Len(d.bottom) + 1) \in 0 .. Len(d.bottom)
      <4>1. (IF n = Len(d.bottom) THEN 0 ELSE n + 1) \in 0 .. Len(d.bottom)
        BY <1>2
      <4> QED
        BY <3>3, <4>1
    <3>5. d.bottom[n] \notin {"events?", "dec"}
      BY <3>1, <3>2
    <3> QED
      BY <3>2, <3>3, <3>4, <3>5
  <2> QED
    BY <2>1, <2>2
<1>4. counter_bh' = IF d.bottom[n] \in {"count", "charge"} THEN counter_bh + 1
                                                           ELSE counter_bh
  BY <1>0
     DEF bottom, BottomCount, BottomCharge, BottomPrint, BottomFree,
         BottomOther, BottomTest, BottomDec, Runs, Goes
<1>5. /\ runner'[c][1] = i /\ runner'[c][2] = to
      /\ \A e \in Cpus \ {c} : runner'[e] = runner[e] /\ Busy(e)' = Busy(e)
  <2>1. /\ runner'[c] = <<i, to>>
        /\ \A e \in Cpus \ {c} : runner'[e] = runner[e]
    BY <1>0, <1>1, <1>3, GoesTo
  <2> QED
    BY <2>1 DEF Busy
<1> QED
  BY <1>0, <1>2, <1>3, <1>4, <1>5

\* A function that catches up counts an event and then takes it.
LEMMA CatchMoves ==
    ASSUME TInv, NEW c \in Cpus, bottom(c), d.loop = "catchup"
    PROVE  /\ \E n, to :
              /\ runner[c][2] = n /\ runner'[c][2] = to
              /\ \/ n = 1 /\ to = 5 /\ nevents' = nevents /\ nevents = 0
                 \/ n = 1 /\ to = 2 /\ nevents' = nevents /\ nevents >= 1
                 \/ n = 2 /\ to = 3 /\ nevents' = nevents
                 \/ n = 3 /\ to = 4 /\ nevents' = nevents
                 \/ n = 4 /\ to = 5 /\ nevents' = nevents - 1 /\ nevents = 1
                 \/ n = 4 /\ to = 2 /\ nevents' = nevents - 1 /\ nevents >= 2
                 \/ n = 5 /\ to = 0 /\ nevents' = nevents
           /\ nevents >= 0
           /\ \A e \in Cpus \ {c} : runner[e][2] = 0 /\ runner'[e][2] = 0
           /\ counter_bh' \in Int /\ Waiting' \in Int
           /\ counter_bh' + Waiting' = counter_bh + Waiting
<1>1. /\ UNCHANGED <<driver, module, fired, top, item, pending, cond, thread>>
      /\ d' = d /\ driver \in Drivers /\ Queues /\ Busy(c)
  BY SameDriver, Amounts
     DEF bottom, BottomCount, BottomCharge, BottomPrint, BottomFree,
         BottomOther, BottomTest, BottomDec, Runs, Goes, life, tops, task,
         history, TInv, OInv
<1>2. PICK n \in 1 .. Len(d.bottom), to \in 0 .. Len(d.bottom) :
         /\ runner[c][2] = n /\ runner'[c][2] = to
         /\ \A e \in Cpus \ {c} : runner'[e] = runner[e] /\ Busy(e)' = Busy(e)
         /\ \/ /\ d.bottom[n] \notin {"events?", "dec"}
               /\ to = IF n = Len(d.bottom) THEN 0 ELSE n + 1
               /\ nevents' = nevents
            \/ /\ d.bottom[n] = "events?" /\ nevents' = nevents
               /\ to = IF nevents <= 0 THEN Len(d.bottom) ELSE 2
            \/ /\ d.bottom[n] = "dec" /\ nevents' = nevents - 1
               /\ to = IF nevents = 1 THEN Len(d.bottom) ELSE 2
         /\ counter_bh' = IF d.bottom[n] \in {"count", "charge"}
                            THEN counter_bh + 1 ELSE counter_bh
  BY BottomMoves
<1>3. d.by # "thread"
  <2>1. ASSUME d.bottom = <<>> PROVE FALSE
    BY <1>2, <2>1
  <2> QED
    BY <1>1, <2>1, Classes
<1>4. /\ d.bottom = <<"events?", "count", "print", "dec", "unlock">>
      /\ thread = "none"
  BY <1>1, <1>3, Classes DEF TInv, Stands
<1>5. /\ Len(d.bottom) = 5 /\ d.bottom[1] = "events?" /\ d.bottom[2] = "count"
      /\ d.bottom[3] = "print" /\ d.bottom[4] = "dec" /\ d.bottom[5] = "unlock"
  BY <1>4
<1>6. /\ nevents \in Int /\ nevents >= 0 /\ (n \in {2, 3, 4} => nevents >= 1)
      /\ \A e \in Cpus \ {c} : ~Busy(e)
      /\ \A e \in Cpus \ {c} : runner[e][2] = 0 /\ runner'[e][2] = 0
  BY <1>1, <1>2, Amounts DEF TInv, Catching, Busy
<1>7. \/ n = 1 /\ to = 5 /\ nevents' = nevents /\ nevents = 0
      \/ n = 1 /\ to = 2 /\ nevents' = nevents /\ nevents >= 1
      \/ n = 2 /\ to = 3 /\ nevents' = nevents
      \/ n = 3 /\ to = 4 /\ nevents' = nevents
      \/ n = 4 /\ to = 5 /\ nevents' = nevents - 1 /\ nevents = 1
      \/ n = 4 /\ to = 2 /\ nevents' = nevents - 1 /\ nevents >= 2
      \/ n = 5 /\ to = 0 /\ nevents' = nevents
  <2>1. n \in 1 .. 5
    BY <1>2, <1>5
  <2>2. n = 1 \/ n = 2 \/ n = 3 \/ n = 4 \/ n = 5
    BY <2>1
  <2> HIDE DEF d
  <2> QED
    BY <1>2, <1>5, <1>6, <2>2
<1>8. /\ Taking = IF n \in {3, 4} THEN 1 ELSE 0
      /\ Taking' = IF to \in {3, 4} THEN 1 ELSE 0
  BY <1>1, <1>2, <1>4, <1>6 DEF Taking
<1>9. counter_bh' = IF n = 2 THEN counter_bh + 1 ELSE counter_bh
  <2>1. n = 1 \/ n = 2 \/ n = 3 \/ n = 4 \/ n = 5
    BY <1>7
  <2> QED
    BY <1>2, <1>5, <2>1
<1>10. Waiting = nevents - Taking /\ Waiting' = nevents' - Taking'
  BY <1>1 DEF Waiting
<1>11. counter_bh' + Waiting' = counter_bh + Waiting
  <2>1. counter_bh \in Int /\ nevents \in Int
    BY Amounts
  <2>2. \/ Taking' = Taking /\ nevents' = nevents /\ counter_bh' = counter_bh
        \/ /\ Taking = 0 /\ Taking' = 1 /\ nevents' = nevents
           /\ counter_bh' = counter_bh + 1
        \/ /\ Taking = 1 /\ Taking' = 0 /\ nevents' = nevents - 1
           /\ counter_bh' = counter_bh
    BY <1>7, <1>8, <1>9
  <2>3. Taking \in {0, 1}
    BY <1>8
  <2> QED
    BY <1>10, <2>1, <2>2, <2>3
<1>12. counter_bh' \in Int /\ Waiting' \in Int
  BY <1>6, <1>7, <1>8, <1>9, <1>10, Amounts
<1> QED
  BY <1>2, <1>6, <1>7, <1>11, <1>12

LEMMA BottomTotal ==
    ASSUME TInv, NEW c \in Cpus, bottom(c)
    PROVE  Stands' /\ Static' /\ Catching' /\ Total'
<1>1. /\ UNCHANGED <<driver, module, fired, top, item, pending, cond, thread>>
      /\ d' = d /\ driver \in Drivers /\ Queues /\ Busy(c)
  BY SameDriver, Amounts
     DEF bottom, BottomCount, BottomCharge, BottomPrint, BottomFree,
         BottomOther, BottomTest, BottomDec, Runs, Goes, life, tops, task,
         history, TInv, OInv
<1>2. PICK n \in 1 .. Len(d.bottom), to \in 0 .. Len(d.bottom) :
         /\ runner[c][2] = n /\ runner'[c][2] = to
         /\ runner'[c][1] = runner[c][1]
         /\ \A e \in Cpus \ {c} : runner'[e] = runner[e] /\ Busy(e)' = Busy(e)
         /\ nevents' \in {nevents, nevents - 1}
         /\ d.bottom[n] \notin {"events?", "dec"} =>
               to = IF n = Len(d.bottom) THEN 0 ELSE n + 1
         /\ counter_bh' = IF d.bottom[n] \in {"count", "charge"}
                            THEN counter_bh + 1 ELSE counter_bh
  BY BottomMoves
<1>3. Asking' = Asking
  BY <1>1, SameAsking
<1>4. Static'
  BY <1>1, <1>2 DEF TInv, Static
<1>5. Stands'
  BY <1>1, <1>2, Amounts DEF TInv, Stands
<1>6. d.by # "thread"
  <2>1. ASSUME d.bottom = <<>> PROVE FALSE
    BY <1>2, <2>1
  <2> QED
    BY <1>1, <2>1, Classes
<1>7. CASE d.loop = "catchup"
  <2>1. /\ nevents' >= 0 /\ (to \in {2, 3, 4} => nevents' >= 1)
        /\ \A e \in Cpus \ {c} : ~Busy(e)' /\ runner'[e][2] = 0
        /\ counter_bh' \in Int /\ Waiting' \in Int
        /\ counter_bh' + Waiting' = counter_bh + Waiting
    <3>1. PICK m, go :
             /\ runner[c][2] = m /\ runner'[c][2] = go
             /\ \/ m = 1 /\ go = 5 /\ nevents' = nevents /\ nevents = 0
                \/ m = 1 /\ go = 2 /\ nevents' = nevents /\ nevents >= 1
                \/ m = 2 /\ go = 3 /\ nevents' = nevents
                \/ m = 3 /\ go = 4 /\ nevents' = nevents
                \/ m = 4 /\ go = 5 /\ nevents' = nevents - 1 /\ nevents = 1
                \/ m = 4 /\ go = 2 /\ nevents' = nevents - 1 /\ nevents >= 2
                \/ m = 5 /\ go = 0 /\ nevents' = nevents
      BY <1>7, CatchMoves
    <3>2. /\ nevents \in Int /\ nevents >= 0
          /\ m \in {2, 3, 4} => nevents >= 1
      BY <1>7, <3>1, Amounts DEF TInv, Catching
    <3>3. nevents' >= 0 /\ (to \in {2, 3, 4} => nevents' >= 1)
      BY <1>2, <3>1, <3>2
    <3>4. /\ \A e \in Cpus \ {c} : runner'[e][2] = 0
          /\ counter_bh' \in Int /\ Waiting' \in Int
          /\ counter_bh' + Waiting' = counter_bh + Waiting
      BY <1>7, CatchMoves
    <3> QED
      BY <3>3, <3>4 DEF Busy
  <2>2. Catching'
    <3>1. thread = "none"
      BY <1>6 DEF TInv, Stands
    <3> QED
      BY <1>1, <1>2, <2>1, <3>1 DEF Catching
  <2>3. Total'
    BY <1>1, <1>3, <2>1, Amounts DEF TInv, Total
  <2> QED
    BY <1>4, <1>5, <2>2, <2>3
<1>8. CASE d.loop # "catchup"
  <2>1. /\ d.bottom[n] \notin {"events?", "dec"}
        /\ d.bottom[n] \in {"count", "charge"} => n = 1
    BY <1>1, <1>8, Classes
  <2>2. to # 1
    BY <1>2, <2>1, Sized, <1>1
  <2>3. Running' = Running \ {c}
    BY <1>2, <2>2 DEF Running
  <2>4. d.bottom[n] \in {"count", "charge"} => c \in Running
    BY <1>2, <2>1 DEF Running
  <2>5. /\ Cardinality(Running') \in Nat
        /\ Cardinality(Running') <= Cardinality(Running)
        /\ c \in Running => Cardinality(Running') = Cardinality(Running) - 1
    <3>1. IsFiniteSet(Running) /\ Cardinality(Running) \in Nat
      BY Amounts
    <3>2. /\ IsFiniteSet(Running \ {c})
          /\ Cardinality(Running \ {c}) =
                IF c \in Running THEN Cardinality(Running) - 1
                                 ELSE Cardinality(Running)
      BY <3>1, FS_RemoveElement
    <3>3. Cardinality(Running \ {c}) \in Nat
      BY <3>2, FS_CardinalityType
    <3> QED
      BY <2>3, <3>1, <3>2, <3>3
  <2>6. /\ Waiting = Cardinality(pending) + Cardinality(Running)
        /\ Waiting' = Cardinality(pending) + Cardinality(Running')
    BY <1>1, <1>6, <1>8 DEF Waiting
  <2>7. counter_bh' + Waiting' <= counter_bh + Waiting
    <3>1. /\ counter_bh \in Int /\ Cardinality(pending) \in Nat
          /\ Cardinality(Running) \in Nat
      BY Amounts
    <3>2. \/ /\ counter_bh' = counter_bh + 1
             /\ Cardinality(Running') = Cardinality(Running) - 1
          \/ counter_bh' = counter_bh
      BY <1>2, <2>4, <2>5
    <3> QED
      BY <2>5, <2>6, <3>1, <3>2
  <2>8. counter_bh' \in Int /\ Waiting' \in Int
    BY <1>2, <2>5, <2>6, Amounts
  <2>9. Total'
    BY <1>1, <1>3, <2>7, <2>8, Amounts DEF TInv, Total
  <2> QED
    BY <1>1, <1>4, <1>5, <1>8, <2>9 DEF Catching
<1> QED
  BY <1>7, <1>8

LEMMA ThreadTotal ==
    ASSUME TInv, thr_fun
    PROVE  Stands' /\ Static' /\ Catching' /\ Total'
<1>1. /\ UNCHANGED <<driver, module, fired, top, item, pending, runner>>
      /\ d' = d /\ driver \in Drivers /\ thread # "none"
  BY SameDriver, Amounts
     DEF thr_fun, ThreadRead, ThreadClear, ThreadWait, ThreadCount,
         ThreadPrint, ThreadStopTest, ThreadEventsTest, ThreadInc, ThreadDec,
         ThreadWhile, At, life, tops, queue
<1>2. d.by = "thread" /\ module # "out"
  BY <1>1 DEF TInv, Stands
<1>3. \A c \in Cpus : runner[c][2] = 0 /\ ~Busy(c)
  <2>1. Len(d.bottom) = 0
    BY <1>1, <1>2, Classes
  <2> QED
    BY <2>1 DEF TInv, OInv, Queues, Busy
<1>4. /\ Taking = IF thread = "dec" THEN 1 ELSE 0
      /\ Taking' = IF thread' = "dec" THEN 1 ELSE 0
  BY <1>1, <1>3 DEF Taking
<1>5. Asking' = Asking /\ Static'
  BY <1>1, SameAsking DEF TInv, Static
<1>6. \A c \in Cpus : ~Busy(c)' /\ runner'[c][2] = 0
  BY <1>1, <1>3 DEF Busy
<1>7. CASE d.loop = "catchup"
  <2>1. /\ nevents \in Int /\ nevents >= 0
        /\ thread \in {"inc", "dec"} => nevents >= 1
        /\ thread # "cond?"
    BY <1>7, Amounts DEF TInv, Catching, Stands
  <2>2. \/ /\ thread = "inc" /\ thread' = "dec" /\ counter_bh' = counter_bh + 1
           /\ nevents' = nevents /\ cond' = cond
        \/ /\ thread = "dec" /\ counter_bh' = counter_bh /\ cond' = cond
           /\ nevents' = nevents - 1
           /\ thread' = IF nevents - 1 = 0 THEN "while" ELSE "inc"
        \/ /\ thread \notin {"inc", "dec"}
           /\ thread' \notin {"dec", "cond?", "none"}
           /\ thread' = "inc" => nevents >= 1
           /\ counter_bh' = counter_bh /\ nevents' = nevents /\ cond' \in {0, cond}
    BY <1>7, <2>1
       DEF thr_fun, ThreadRead, ThreadClear, ThreadWait, ThreadCount,
           ThreadPrint, ThreadStopTest, ThreadEventsTest, ThreadInc, ThreadDec,
           ThreadWhile, At, FirstOf
  <2>3. Stands'
    BY <1>1, <1>2, <1>7, <2>2, Amounts DEF Stands
  <2>4. Catching'
    BY <1>1, <1>6, <2>1, <2>2 DEF Catching
  <2>5. Waiting = nevents - Taking /\ Waiting' = nevents' - Taking'
    BY <1>1, <1>7 DEF Waiting
  <2>6. counter_bh' + Waiting' = counter_bh + Waiting /\ Waiting' \in Int
        /\ counter_bh' \in Int
    BY <1>4, <2>1, <2>2, <2>5, Amounts
  <2>7. Total'
    BY <1>1, <1>5, <2>6, Amounts DEF TInv, Total
  <2> QED
    BY <1>5, <2>3, <2>4, <2>7
<1>8. CASE d.loop # "catchup"
  <2>1. thread \notin {"stop?", "events?", "inc", "dec"}
    BY <1>8 DEF TInv, Stands
  <2>2. \/ /\ thread = "cond?" /\ thread' \in {"while", "print"}
           /\ counter_bh' = counter_bh + cond /\ cond' = cond
        \/ /\ thread = "wait" /\ thread' \in {"sleep", "cond?"}
           /\ counter_bh' = counter_bh /\ cond' = cond
        \/ /\ thread = "clear" /\ thread' = "wait"
           /\ counter_bh' = counter_bh /\ cond' = 0
        \/ /\ thread \notin {"wait", "sleep", "cond?"}
           /\ thread' \in {"clear", "read", "while", "exited"}
           /\ counter_bh' = counter_bh /\ cond' = cond
    BY <1>8, <2>1
       DEF thr_fun, ThreadRead, ThreadClear, ThreadWait, ThreadCount,
           ThreadPrint, ThreadStopTest, ThreadEventsTest, ThreadInc, ThreadDec,
           ThreadWhile, At, FirstOf
  <2>3. nevents' = nevents
    BY <2>1
       DEF thr_fun, ThreadRead, ThreadClear, ThreadWait, ThreadCount,
           ThreadPrint, ThreadStopTest, ThreadEventsTest, ThreadInc, ThreadDec,
           ThreadWhile, At
  <2>4. Stands'
    BY <1>1, <1>2, <1>8, <2>2, <2>3, Amounts DEF Stands
  <2>5. Catching'
    BY <1>1, <1>8 DEF Catching
  <2>6. /\ Waiting = IF thread \in {"wait", "sleep", "cond?"} THEN cond ELSE 0
        /\ Waiting' = IF thread' \in {"wait", "sleep", "cond?"} THEN cond' ELSE 0
    BY <1>1, <1>2, <1>8 DEF Waiting
  <2>7. counter_bh' + Waiting' = counter_bh + Waiting /\ Waiting' \in Int
        /\ counter_bh' \in Int
    BY <2>2, <2>6, Amounts
  <2>8. Total'
    BY <1>1, <1>5, <2>7, Amounts DEF TInv, Total
  <2> QED
    BY <1>5, <2>4, <2>5, <2>8
<1> QED
  BY <1>7, <1>8

LEMMA StepTInv ==
    ASSUME TInv, [Next]_vars
    PROVE  TInv'
<1>1. OInv'
  BY StepOInv DEF TInv
<1>2. SUFFICES Stands' /\ Static' /\ Catching' /\ Total'
  BY <1>1 DEF TInv
<1>3. CASE RunThread
  <2>1. /\ module = "out" /\ module' = "starting" /\ d.by = "thread"
        /\ thread' \in {"read", "clear", "errptr"}
        /\ UNCHANGED <<driver, top, item, pending, runner, counter_bh, nevents,
                       cond, fired>>
    BY <1>3 DEF RunThread, FirstOf, tops, counters, queue, history
  <2>2. module' # "out"
    BY <2>1
  <2> QED
    BY <2>1, <2>2, StandsTotal
<1>4. CASE Register \/ RequestLine \/ ResetCounter
  <2>1. /\ UNCHANGED <<driver, top, item, pending, runner, counter_bh, nevents,
                       cond, fired, thread>>
        /\ module' # "out"
    BY <1>4
       DEF Register, RequestLine, ResetCounter, LoopFrom, tops, counters, queue,
           task, history
  <2> QED
    BY <2>1, StandsTotal
<1>5. CASE StopThread
  <2>1. /\ UNCHANGED <<driver, top, item, pending, runner, counter_bh, nevents,
                       cond, fired>>
        /\ module' # "out" /\ thread' \in {thread, Woken}
    BY <1>5 DEF StopThread, tops, counters, queue, history
  <2> QED
    BY <2>1, StandsTotal
<1>6. CASE my_exit /\ ~StopThread
  <2>1. /\ UNCHANGED <<driver, top, item, pending, runner, counter_bh, nevents,
                       cond, fired, thread>>
        /\ module' # "out"
    BY <1>6
       DEF my_exit, JoinThread, SynchronizeIrq, UnlinkIrq, FreeIrq, Deregister,
           LoopFrom, tops, counters, queue, task, history
  <2> QED
    BY <2>1, StandsTotal
<1>7. CASE FreedTextRuns \/ \E l \in Lines : AllocFails(l)
  <2>1. /\ UNCHANGED <<driver, top, item, pending, runner, counter_bh, nevents,
                       cond, fired, thread>>
        /\ module' # "out"
    BY <1>7 DEF FreedTextRuns, AllocFails, tops, counters, queue, task, history
  <2> QED
    BY <2>1, StandsTotal
<1>8. CASE UNCHANGED vars
  BY <1>8, StandsTotal DEF vars, life, tops, counters, queue, task, history
<1> QED
  BY <1>3, <1>4, <1>5, <1>6, <1>7, <1>8, EnterTotal, TopTotal, RunTotal,
     BottomTotal, ThreadTotal
     DEF Next, my_init, Runnable

LEMMA InitTInv ==
    ASSUME Init
    PROVE  TInv
<1>0. \A c \in Cpus : runner[c][1] = 0 /\ runner[c][2] = 0
  BY DEF Init
<1>1. OInv /\ Stands /\ Static
  <2>1. Stands
    BY DEF Init, Stands
  <2>2. Static
    BY <1>0 DEF Init, Static
  <2> QED
    BY <2>1, <2>2, InitOInv
<1>2. Catching
  BY <1>0 DEF Init, Catching, Busy
<1>3. Asking = {} /\ Running = {} /\ pending = {}
  BY DEF Init, Asking, Ahead, Running
<1>4. Cardinality(Asking) = 0 /\ Cardinality(Running) = 0 /\ Cardinality(pending) = 0
  BY <1>3, FS_EmptySet
<1>5. Taking = 0 /\ Waiting = 0
  <2>1. Taking = 0
    BY <1>0 DEF Init, Taking
  <2> QED
    BY <1>4, <2>1 DEF Init, Waiting
<1>6. counter_bh = 0 /\ Len(fired) = 0
  BY DEF Init
<1>7. Total
  BY <1>4, <1>5, <1>6 DEF Total
<1> QED
  BY <1>1, <1>2, <1>7 DEF TInv

-----------------------------------------------------------------------------
(* Nor of a line, where the interrupts bring their own items                *)

\* The item says which line its interrupt came on.
Stamped(i) == data[i] \in 1 .. Len(stored) /\ stored[data[i]] = fired[i]

\* The handler, the queue or a function that has not charged a line has it.
Uncharged(i) ==
    \/ \E l \in Lines : top[l] # 0 /\ item[l] = i
    \/ i \in pending
    \/ \E c \in Cpus : runner[c] = <<i, 1>>

Charged(l) == {i \in 1 .. Len(fired) : fired[i] = l /\ ~Uncharged(i)}

Stamps ==
    d.own /\ d.top[2] = "stamp" =>
        /\ \A i \in pending : Stamped(i)
        /\ \A c \in Cpus : runner[c][2] = 1 => Stamped(runner[c][1])
        /\ \A l \in Lines : top[l] > 2 => Stamped(item[l])

Charges ==
    d.own =>
        /\ stored \in Seq(Lines) /\ data \in [Items -> Nat]
        /\ bhs \in [Lines -> Int]
        /\ \A l \in Lines : bhs[l] <= Cardinality(Charged(l))

BInv == TInv /\ Stamps /\ Charges

LEMMA ChargesStamped ==
    ASSUME driver \in Drivers, d.own, NEW n \in 1 .. Len(d.bottom),
           d.bottom[n] = "charge"
    PROVE  n = 1 /\ d.top[2] = "stamp"
<1>1. \/ d.top = <<"alloc", "stamp", "count", "schedule">>
      \/ d.bottom = <<"count", "free null", "unlock">>
  BY Every, Zenon DEF Kind, Parts
<1>2. n = 1
  BY Classes
<1>3. CASE d.bottom = <<"count", "free null", "unlock">>
  <2> DEFINE t == <<"count", "free null", "unlock">>
  <2>1. t[1] = "count"
    OBVIOUS
  <2> HIDE DEF t
  <2>2. d.bottom[1] = "count"
    <3>1. d.bottom = t
      BY <1>3 DEF t
    <3> QED
      BY <2>1, <3>1
  <2> QED
    BY <1>2, <2>2
<1>4. CASE d.top = <<"alloc", "stamp", "count", "schedule">>
  BY <1>2, <1>4
<1> QED
  BY <1>1, <1>3, <1>4

LEMMA FiniteCharged ==
    ASSUME BInv, NEW l \in Lines
    PROVE  /\ IsFiniteSet(Charged(l)) /\ Cardinality(Charged(l)) \in Nat
           /\ Charged(l) \subseteq {i \in DOMAIN fired : fired[i] = l}
           /\ Cardinality(Charged(l)) <= Fired(l)
<1>1. fired \in Seq(Lines) /\ DOMAIN fired = 1 .. Len(fired) /\ Len(fired) \in Nat
  BY DEF BInv, TInv, OInv, CInv, Histories
<1>2. IsFiniteSet(1 .. Len(fired))
  BY <1>1, FS_Interval
<1>3. IsFiniteSet({i \in DOMAIN fired : fired[i] = l})
  BY <1>1, <1>2, FS_Subset
<1>4. Charged(l) \subseteq {i \in DOMAIN fired : fired[i] = l}
  BY <1>1 DEF Charged
<1> QED
  BY <1>3, <1>4, FS_Subset, FS_CardinalityType DEF Fired

LEMMA StandsCharges ==
    ASSUME BInv,
           UNCHANGED <<driver, top, item, pending, runner, data, stored, fired>>,
           d.own => bhs' = bhs \/ \E l \in Lines : bhs' = [bhs EXCEPT ![l] = 0]
    PROVE  Stamps' /\ Charges'
<1>1. d' = d
  BY SameDriver
<1>2. \A l \in Lines : Charged(l)' = Charged(l)
  BY DEF Charged, Uncharged
<1>3. \A i : Stamped(i)' = Stamped(i)
  BY DEF Stamped
<1>4. Stamps'
  BY <1>1, <1>3 DEF BInv, Stamps
<1>5. Charges'
  <2> SUFFICES ASSUME d.own PROVE Charges'
    BY <1>1 DEF Charges
  <2>1. /\ stored \in Seq(Lines) /\ data \in [Items -> Nat]
        /\ bhs \in [Lines -> Int]
        /\ \A l \in Lines : bhs[l] <= Cardinality(Charged(l))
        /\ \A l \in Lines : Cardinality(Charged(l)) \in Nat
    BY FiniteCharged DEF BInv, Charges
  <2>2. /\ bhs' \in [Lines -> Int]
        /\ \A l \in Lines : bhs'[l] = bhs[l] \/ bhs'[l] = 0
    BY <2>1
  <2>3. \A l \in Lines : bhs'[l] <= Cardinality(Charged(l))
    BY <2>1, <2>2
  <2> QED
    BY <1>1, <1>2, <2>1, <2>2, <2>3 DEF Charges
<1> QED
  BY <1>4, <1>5

LEMMA EnterCharges ==
    ASSUME BInv, NEW l \in Lines, Enter(l)
    PROVE  Stamps' /\ Charges'
<1>0. PICK n : n = Len(fired) + 1
  OBVIOUS
<1>1. /\ UNCHANGED <<driver, pending, runner, data, stored, bhs>> /\ d' = d
      /\ top[l] = 0 /\ top' = [top EXCEPT ![l] = 1]
      /\ fired' = Append(fired, l) /\ Len(fired') = n
      /\ item' = [item EXCEPT ![l] = IF d.own THEN Len(fired') ELSE 0]
  BY <1>0, SameDriver, FiredGrows
     DEF Enter, life, counters, queue, BInv, TInv, OInv, CInv, Histories
<1>2. /\ Len(fired) \in Nat /\ n \notin 1 .. Len(fired)
      /\ fired'[n] = l /\ \A i \in 1 .. Len(fired) : fired'[i] = fired[i]
      /\ 1 .. n = (1 .. Len(fired)) \cup {n}
  BY <1>0, <1>1 DEF BInv, TInv, OInv, CInv, Histories
<1> SUFFICES ASSUME d.own PROVE Stamps' /\ Charges'
  BY <1>1 DEF Stamps, Charges
<1>3. /\ item'[l] = n /\ \A k \in Lines \ {l} : item'[k] = item[k]
      /\ top'[l] = 1 /\ \A k \in Lines \ {l} : top'[k] = top[k]
  BY <1>1 DEF BInv, TInv, OInv, CInv, Histories, Tops, Queues
<1>4. /\ pending \subseteq 1 .. Len(fired)
      /\ \A c \in Cpus : Busy(c) => runner[c][1] \in 1 .. Len(fired)
      /\ \A k \in Lines : top[k] # 0 => item[k] \in 1 .. Len(fired)
  BY DEF BInv, TInv, OInv, Apart
<1>5. \A i \in 1 .. Len(fired) : Stamped(i) => Stamped(i)'
  BY <1>1, <1>2 DEF Stamped
<1>6. Stamps'
  <2> SUFFICES ASSUME d.top[2] = "stamp" PROVE Stamps'
    BY <1>1 DEF Stamps
  <2>1. \A i \in pending : Stamped(i)'
    BY <1>4, <1>5 DEF BInv, Stamps
  <2>2. \A c \in Cpus : runner[c][2] = 1 => Stamped(runner[c][1])'
    <3> SUFFICES ASSUME NEW c \in Cpus, runner[c][2] = 1
                 PROVE  Stamped(runner[c][1])'
      OBVIOUS
    <3>1. Stamped(runner[c][1]) /\ runner[c][1] \in 1 .. Len(fired)
      BY <1>4 DEF BInv, Stamps, Busy
    <3>2. PICK i : i = runner[c][1]
      OBVIOUS
    <3>3. Stamped(i)'
      BY <1>5, <3>1, <3>2
    <3> QED
      BY <1>1, <3>2, <3>3 DEF Stamped
  <2>3. \A k \in Lines : top'[k] > 2 => Stamped(item[k])'
    <3> SUFFICES ASSUME NEW k \in Lines, top'[k] > 2
                 PROVE  Stamped(item[k])'
      OBVIOUS
    <3>1. k # l /\ top[k] > 2 /\ item'[k] = item[k]
      BY <1>3
    <3>2. Stamped(item[k]) /\ item[k] \in 1 .. Len(fired)
      BY <1>4, <3>1 DEF BInv, Stamps, TInv, OInv, CInv, Histories, Tops
    <3>3. PICK i : i = item[k]
      OBVIOUS
    <3>4. Stamped(i)'
      BY <1>5, <3>2, <3>3
    <3> QED
      BY <3>1, <3>3, <3>4 DEF Stamped
  <2> QED
    BY <1>1, <2>1, <2>2, <2>3 DEF Stamps
<1>7. \A k \in Lines : Charged(k)' = Charged(k)
  <2>1. \A i \in 1 .. Len(fired) : Uncharged(i)' <=> Uncharged(i)
    <3> SUFFICES ASSUME NEW i \in 1 .. Len(fired)
                 PROVE  Uncharged(i)' <=> Uncharged(i)
      OBVIOUS
    <3>1. \A k \in Lines : (top'[k] # 0 /\ item'[k] = i) <=> (top[k] # 0 /\ item[k] = i)
      BY <1>1, <1>2, <1>3
    <3> QED
      BY <1>1, <3>1 DEF Uncharged
  <2>2. Uncharged(n)'
    BY <1>3 DEF Uncharged
  <2> QED
    BY <1>1, <1>2, <2>1, <2>2 DEF Charged
<1>8. Charges'
  BY <1>1, <1>7 DEF BInv, Charges
<1> QED
  BY <1>6, <1>8

LEMMA TopCharges ==
    ASSUME BInv, NEW l \in Lines, my_interrupt(l)
    PROVE  Stamps' /\ Charges'
<1>1. PICK op : /\ Does(l, op)
                /\ pending' = IF op = "schedule" THEN pending \cup {item[l]}
                                                 ELSE pending
                /\ stored' = IF op = "stamp" THEN Append(stored, l) ELSE stored
                /\ data' = IF op = "stamp"
                             THEN [data EXCEPT ![item[l]] = Len(stored')]
                             ELSE data
  BY DEF my_interrupt, TopAlloc, TopStamp, TopEvent, TopCount, TopRead,
         TopWrite, TopSchedule, TopRaise, TopWake
<1>2. /\ UNCHANGED <<driver, fired, item, runner, bhs>> /\ d' = d
      /\ driver \in Drivers /\ Tops /\ Len(d.top) \in Nat
      /\ top[l] \in 1 .. Len(d.top) /\ d.top[top[l]] = op
      /\ top'[l] = IF top[l] = Len(d.top) THEN 0 ELSE top[l] + 1
      /\ \A k \in Lines \ {l} : top'[k] = top[k]
  BY <1>1, Advances, Amounts, Sized DEF BInv, life
<1> SUFFICES ASSUME d.own PROVE Stamps' /\ Charges'
  BY <1>2 DEF Stamps, Charges
<1>3. /\ item \in [Lines -> Items] /\ fired \in Seq(Lines)
      /\ stored \in Seq(Lines) /\ data \in [Items -> Nat]
      /\ item[l] \in 1 .. Len(fired) /\ fired[item[l]] = l
  BY <1>2 DEF BInv, TInv, OInv, CInv, Histories, Queues, Apart, Charges
<1>4. stored' \in Seq(Lines) /\ data' \in [Items -> Nat]
  <2>1. CASE op = "stamp"
    <3>1. stored' \in Seq(Lines) /\ Len(stored') \in Nat
      BY <1>1, <1>3, <2>1
    <3> QED
      BY <1>1, <1>3, <2>1, <3>1
  <2>2. CASE op # "stamp"
    BY <1>1, <1>3, <2>2
  <2> QED
    BY <2>1, <2>2
<1>5. /\ op = "stamp" => Stamped(item[l])'
      /\ \A i \in Items : Stamped(i) => Stamped(i)'
  <2>1. CASE op = "stamp"
    <3>1. /\ Len(stored') = Len(stored) + 1 /\ stored'[Len(stored')] = l
          /\ \A n \in 1 .. Len(stored) : stored'[n] = stored[n]
          /\ Len(stored) \in Nat
      BY <1>1, <1>3, <2>1
    <3>2. /\ data'[item[l]] = Len(stored')
          /\ \A i \in Items \ {item[l]} : data'[i] = data[i]
      BY <1>1, <1>3, <2>1
    <3>3. Len(stored') \in 1 .. Len(stored')
      BY <3>1
    <3>4. ASSUME NEW i \in Items, i = item[l] PROVE Stamped(i)'
      BY <1>2, <1>3, <3>1, <3>2, <3>3, <3>4 DEF Stamped
    <3>5. ASSUME NEW i \in Items, i # item[l], Stamped(i) PROVE Stamped(i)'
      BY <1>2, <3>1, <3>2, <3>5 DEF Stamped
    <3>6. Stamped(item[l])'
      <4>1. PICK i \in Items : i = item[l]
        BY <1>3
      <4>2. Stamped(i)'
        BY <3>4, <4>1
      <4> QED
        BY <1>2, <4>1, <4>2
    <3> QED
      BY <3>4, <3>5, <3>6
  <2>2. CASE op # "stamp"
    BY <1>1, <1>2, <2>2 DEF Stamped
  <2> QED
    BY <2>1, <2>2
<1>6. Stamps'
  <2> SUFFICES ASSUME d.top[2] = "stamp" PROVE Stamps'
    BY <1>2 DEF Stamps
  <2>1. /\ \A i \in pending : Stamped(i)
        /\ \A c \in Cpus : runner[c][2] = 1 => Stamped(runner[c][1])
        /\ \A k \in Lines : top[k] > 2 => Stamped(item[k])
    BY DEF BInv, Stamps
  <2>2. pending \subseteq Items /\ \A c \in Cpus : runner[c][1] \in Items
    BY DEF BInv, TInv, OInv, Queues
  <2>3. op = "schedule" => top[l] > 2
    <3>1. d.top[1] = "alloc"
      BY <1>2, OwnOrder
    <3> QED
      BY <1>2, <3>1
  <2>4. ASSUME NEW i \in pending' PROVE Stamped(i)'
    BY <1>1, <1>3, <1>5, <2>1, <2>2, <2>3, <2>4
  <2>5. ASSUME NEW c \in Cpus, runner'[c][2] = 1
        PROVE  Stamped(runner[c][1])'
    <3>1. PICK i \in Items : i = runner[c][1]
      BY <2>2
    <3>2. Stamped(i)'
      BY <1>2, <1>5, <2>1, <2>5, <3>1
    <3> QED
      BY <1>2, <3>1, <3>2
  <2>6. ASSUME NEW k \in Lines, top'[k] > 2
        PROVE  Stamped(item[k])'
    <3>1. PICK i \in Items : i = item[k]
      BY <1>3
    <3>2. CASE top[k] > 2
      <4>1. Stamped(i)'
        BY <1>5, <2>1, <3>1, <3>2
      <4> QED
        BY <1>2, <3>1, <4>1
    <3>3. CASE ~(top[k] > 2)
      <4>1. k = l /\ top[l] = 2
        BY <1>2, <2>6, <3>3 DEF Tops
      <4> QED
        BY <1>2, <1>5, <4>1
    <3> QED
      BY <3>2, <3>3
  <2> QED
    BY <1>2, <2>4, <2>5, <2>6 DEF Stamps
<1>7. ASSUME NEW k \in Lines PROVE Charged(k)' = Charged(k)
  <2>1. ASSUME NEW i \in 1 .. Len(fired), Uncharged(i)
        PROVE  Uncharged(i)'
    <3>1. CASE i = item[l]
      <4>1. top'[l] # 0 \/ i \in pending'
        BY <1>1, <1>2, <3>1, OwnOrder
      <4> QED
        BY <1>2, <3>1, <4>1 DEF Uncharged
    <3>2. CASE i # item[l]
      BY <1>1, <1>2, <2>1, <3>2 DEF Uncharged
    <3> QED
      BY <3>1, <3>2
  <2>2. ASSUME NEW i \in 1 .. Len(fired), Uncharged(i)'
        PROVE  Uncharged(i)
    <3>1. i \in pending' => i \in pending \/ (top[l] # 0 /\ item[l] = i)
      BY <1>1, <1>2
    <3>2. \A m \in Lines : top'[m] # 0 => top[m] # 0
      BY <1>2
    <3> QED
      BY <1>2, <2>2, <3>1, <3>2 DEF Uncharged
  <2> QED
    BY <1>2, <2>1, <2>2 DEF Charged
<1>8. Charges'
  BY <1>2, <1>4, <1>7 DEF BInv, Charges
<1> QED
  BY <1>6, <1>8

LEMMA RunCharges ==
    ASSUME BInv, NEW c \in Cpus, NEW i \in Items, BottomRun(c, i)
    PROVE  Stamps' /\ Charges'
<1>1. /\ UNCHANGED <<driver, top, item, data, stored, fired, bhs>> /\ d' = d
      /\ i \in pending /\ ~Busy(c) /\ pending' = pending \ {i}
      /\ runner' = [runner EXCEPT ![c] = <<i, 1>>]
  BY SameDriver DEF BottomRun, life, tops, counters, history
<1>2. /\ runner'[c] = <<i, 1>> /\ \A e \in Cpus \ {c} : runner'[e] = runner[e]
      /\ runner[c] # <<i, 1>> /\ \A j : runner[c] # <<j, 1>>
  BY <1>1 DEF BInv, TInv, OInv, Queues, Busy
<1>3. \A j : Stamped(j)' = Stamped(j)
  BY <1>1 DEF Stamped
<1>4. Stamps'
  <2> SUFFICES ASSUME d.own, d.top[2] = "stamp" PROVE Stamps'
    BY <1>1 DEF Stamps
  <2>1. ASSUME NEW e \in Cpus, runner'[e][2] = 1
        PROVE  Stamped(runner'[e][1])
    BY <1>1, <1>2, <2>1 DEF BInv, Stamps
  <2>2. ASSUME NEW e \in Cpus, runner'[e][2] = 1
        PROVE  Stamped(runner[e][1])'
    BY <1>1, <2>1, <2>2 DEF Stamped
  <2>3. \A j \in pending' : Stamped(j)'
    BY <1>1, <1>3 DEF BInv, Stamps
  <2>4. \A l \in Lines : top'[l] > 2 => Stamped(item[l])'
    BY <1>1 DEF BInv, Stamps, Stamped
  <2> QED
    BY <1>1, <2>2, <2>3, <2>4 DEF Stamps
<1>5. ASSUME NEW l \in Lines PROVE Charged(l)' = Charged(l)
  <2>1. \A j : Uncharged(j)' <=> Uncharged(j)
    BY <1>1, <1>2 DEF Uncharged
  <2> QED
    BY <1>1, <2>1 DEF Charged
<1>6. Charges'
  BY <1>1, <1>5 DEF BInv, Charges
<1> QED
  BY <1>4, <1>6

LEMMA BottomCharges ==
    ASSUME BInv, NEW c \in Cpus, bottom(c)
    PROVE  Stamps' /\ Charges'
<1>1. /\ UNCHANGED <<driver, top, item, pending, data, stored, fired>>
      /\ d' = d /\ driver \in Drivers /\ Queues
  BY SameDriver, Amounts
     DEF bottom, BottomCount, BottomCharge, BottomPrint, BottomFree,
         BottomOther, BottomTest, BottomDec, Runs, Goes, life, tops, history,
         BInv, TInv, OInv
<1> SUFFICES ASSUME d.own PROVE Stamps' /\ Charges'
  BY <1>1 DEF Stamps, Charges
<1>2. \A n \in 1 .. Len(d.bottom) : d.bottom[n] \notin {"events?", "dec"}
  BY <1>1, OwnOrder DEF InOrder
<1>3. PICK op : /\ Runs(c, op)
                /\ bhs' = IF op = "charge"
                            THEN [bhs EXCEPT ![LineOf(data[runner[c][1]])] = @ + 1]
                            ELSE bhs
  <2>1. ASSUME Busy(c), d.bottom[runner[c][2]] \in {"events?", "dec"} PROVE FALSE
    BY <1>1, <1>2, <2>1 DEF Queues, Busy
  <2>2. ~BottomTest(c) /\ ~BottomDec(c)
    BY <2>1 DEF BottomTest, BottomDec, Goes
  <2>3. \/ /\ Runs(c, "charge")
           /\ bhs' = [bhs EXCEPT ![LineOf(data[runner[c][1]])] = @ + 1]
        \/ /\ \/ Runs(c, "count") \/ Runs(c, "print") \/ Runs(c, "free")
              \/ Runs(c, "free null") \/ Runs(c, "unlock")
           /\ bhs' = bhs
    BY <2>2 DEF bottom, BottomCount, BottomCharge, BottomPrint, BottomFree,
                BottomOther
  <2>4. /\ "count" # "charge" /\ "print" # "charge" /\ "free" # "charge"
        /\ "free null" # "charge" /\ "unlock" # "charge"
    OBVIOUS
  <2> QED
    BY <2>3, <2>4, Zenon
<1>4. PICK i, n : i = runner[c][1] /\ n = runner[c][2]
  OBVIOUS
<1>5. PICK to : to = IF n = Len(d.bottom) THEN 0 ELSE n + 1
  OBVIOUS
<1>6. /\ n \in 1 .. Len(d.bottom) /\ d.bottom[n] = op /\ Busy(c)
      /\ runner'[c] = <<i, to>>
      /\ \A e \in Cpus \ {c} : runner'[e] = runner[e]
      /\ Len(d.bottom) \in Nat
  BY <1>1, <1>3, <1>4, <1>5, Steps, Sized
<1>7. to # 1
  BY <1>5, <1>6
<1>8. Stamps'
  <2> SUFFICES ASSUME d.top[2] = "stamp" PROVE Stamps'
    BY <1>1 DEF Stamps
  <2>1. ASSUME NEW e \in Cpus, runner'[e][2] = 1
        PROVE  Stamped(runner[e][1])'
    <3>1. e # c
      BY <1>6, <1>7, <2>1
    <3>2. runner'[e] = runner[e] /\ Stamped(runner[e][1])
      BY <1>6, <2>1, <3>1 DEF BInv, Stamps
    <3> QED
      BY <1>1, <3>2 DEF Stamped
  <2> QED
    BY <1>1, <2>1 DEF BInv, Stamps, Stamped
<1>9. \A j : Uncharged(j)' => Uncharged(j)
  BY <1>1, <1>6, <1>7 DEF Uncharged
<1>10. \A l \in Lines : Charged(l) \subseteq Charged(l)'
  BY <1>1, <1>9 DEF Charged
<1>11. ASSUME NEW l \in Lines
       PROVE  IsFiniteSet(Charged(l)') /\ Cardinality(Charged(l)') \in Nat
              /\ Cardinality(Charged(l)) <= Cardinality(Charged(l)')
              /\ IsFiniteSet(Charged(l)) /\ Cardinality(Charged(l)) \in Nat
  <2>1. IsFiniteSet(1 .. Len(fired))
    BY Amounts, FS_Interval DEF BInv
  <2>2. Charged(l)' \subseteq 1 .. Len(fired)
    BY <1>1 DEF Charged
  <2>3. IsFiniteSet(Charged(l)')
    BY <2>1, <2>2, FS_Subset
  <2> QED
    BY <1>10, <2>3, FS_Subset, FS_CardinalityType
<1>12. /\ stored \in Seq(Lines) /\ data \in [Items -> Nat]
       /\ bhs \in [Lines -> Int]
       /\ \A l \in Lines : bhs[l] <= Cardinality(Charged(l))
  BY DEF BInv, Charges
<1>13. CASE op = "charge"
  <2>1. n = 1 /\ d.top[2] = "stamp"
    BY <1>1, <1>6, <1>13, ChargesStamped
  <2>2. Stamped(i)
    BY <1>4, <2>1 DEF BInv, Stamps
  <2>3. /\ i \in 1 .. Len(fired) /\ i \notin pending
        /\ \A l \in Lines : top[l] # 0 => item[l] # i
        /\ \A e \in Cpus : Busy(e) /\ runner[e][1] = i => e = c
    BY <1>4, <1>6 DEF BInv, TInv, OInv, Apart
  <2>4. PICK m \in Lines : m = fired[i]
    BY <2>3 DEF BInv, TInv, OInv, CInv, Histories
  <2>5. LineOf(data[i]) = m
    BY <2>2, <2>4, <1>12 DEF Stamped, LineOf
  <2>6. bhs' = [bhs EXCEPT ![m] = @ + 1]
    BY <1>3, <1>4, <1>13, <2>5
  <2>7. bhs' \in [Lines -> Int] /\ bhs'[m] = bhs[m] + 1
        /\ \A l \in Lines \ {m} : bhs'[l] = bhs[l]
    BY <1>12, <2>6
  <2>8. Uncharged(i)
    <3>1. runner[c] = <<i, 1>>
      <4>1. runner[c] \in Items \X (0 .. Len(d.bottom))
        BY <1>1 DEF Queues
      <4>2. ASSUME NEW S, NEW T, NEW x \in S \X T PROVE x = <<x[1], x[2]>>
        OBVIOUS
      <4>3. runner[c] = <<runner[c][1], runner[c][2]>>
        BY <4>1, <4>2
      <4> QED
        BY <1>4, <2>1, <4>3, Zenon
    <3> QED
      BY <3>1 DEF Uncharged
  <2>9. ~Uncharged(i)'
    <3>1. \A e \in Cpus : runner'[e] # <<i, 1>>
      <4>1. <<i, to>> # <<i, 1>>
        BY <1>7
      <4>2. \A e \in Cpus : runner[e] = <<i, 1>> => e = c
        <5>1. <<i, 1>>[1] = i /\ <<i, 1>>[2] # 0
          OBVIOUS
        <5>2. ASSUME NEW e \in Cpus, runner[e] = <<i, 1>> PROVE e = c
          <6>1. runner[e][1] = i /\ runner[e][2] # 0
            BY <5>1, <5>2
          <6> QED
            BY <2>3, <6>1 DEF Busy
        <5> QED
          BY <5>2
      <4> QED
        BY <1>6, <4>1, <4>2
    <3> QED
      BY <1>1, <2>3, <3>1 DEF Uncharged
  <2>10. i \notin Charged(m) /\ i \in Charged(m)'
    BY <1>1, <2>3, <2>4, <2>8, <2>9 DEF Charged
  <2>11. Cardinality(Charged(m)) + 1 <= Cardinality(Charged(m)')
    <3>1. /\ IsFiniteSet(Charged(m) \cup {i})
          /\ Cardinality(Charged(m) \cup {i}) = Cardinality(Charged(m)) + 1
      BY <1>11, <2>10, FS_AddElement
    <3>2. Charged(m) \cup {i} \subseteq Charged(m)'
      BY <1>10, <2>10
    <3> QED
      BY <1>11, <3>1, <3>2, FS_Subset
  <2>12. ASSUME NEW l \in Lines PROVE bhs'[l] <= Cardinality(Charged(l)')
    <3>1. CASE l = m
      BY <1>11, <1>12, <2>7, <2>11, <3>1
    <3>2. CASE l # m
      BY <1>11, <1>12, <2>7, <3>2
    <3> QED
      BY <3>1, <3>2
  <2>13. Charges'
    BY <1>1, <1>12, <2>7, <2>12 DEF Charges
  <2> QED
    BY <1>8, <2>13
<1>14. CASE op # "charge"
  <2>1. bhs' = bhs
    BY <1>3, <1>14
  <2>2. ASSUME NEW l \in Lines PROVE bhs[l] <= Cardinality(Charged(l)')
    BY <1>11, <1>12
  <2>3. Charges'
    BY <1>1, <1>12, <2>1, <2>2 DEF Charges
  <2> QED
    BY <1>8, <2>3
<1> QED
  BY <1>13, <1>14

LEMMA StepBInv ==
    ASSUME BInv, [Next]_vars
    PROVE  BInv'
<1>1. TInv'
  BY StepTInv DEF BInv
<1>2. SUFFICES Stamps' /\ Charges'
  BY <1>1 DEF BInv
<1>3. CASE my_init \/ my_exit
  <2>1. /\ UNCHANGED <<driver, top, item, pending, runner, data, stored, fired>>
        /\ bhs' \in {bhs, [bhs EXCEPT ![irq] = 0]}
    <3>1. CASE my_init
      BY <3>1 DEF my_init, RunThread, Register, RequestLine, ResetCounter, tops,
                  counters, queue, history
    <3>2. CASE my_exit
      BY <3>2 DEF my_exit, StopThread, JoinThread, SynchronizeIrq, UnlinkIrq,
                  FreeIrq, Deregister, tops, counters, queue, history
    <3> QED
      BY <1>3, <3>1, <3>2
  <2> QED
    BY <2>1, StandsCharges DEF BInv, TInv, OInv, CInv, IInv, Shapes
<1>4. CASE FreedTextRuns \/ \E l \in Lines : AllocFails(l)
  BY <1>4, StandsCharges
     DEF FreedTextRuns, AllocFails, tops, counters, queue, history
<1>5. CASE thr_fun
  <2>1. /\ UNCHANGED <<driver, top, item, pending, runner, data, stored, fired>>
        /\ thread # "none"
    BY <1>5
       DEF thr_fun, ThreadRead, ThreadClear, ThreadWait, ThreadCount,
           ThreadPrint, ThreadStopTest, ThreadEventsTest, ThreadInc, ThreadDec,
           ThreadWhile, At, tops, life, queue
  <2>2. driver \in Drivers /\ d.by = "thread"
    BY <2>1, Amounts DEF BInv, TInv, Stands
  <2>3. ~d.own
    <3>1. Len(d.bottom) = 0
      BY <2>2, Classes
    <3> QED
      BY <2>2, <3>1, OwnOrder
  <2> QED
    BY <2>1, <2>3, StandsCharges
<1>6. CASE UNCHANGED vars
  BY <1>6, StandsCharges DEF vars, life, tops, counters, queue, history
<1> QED
  BY <1>3, <1>4, <1>5, <1>6, EnterCharges, TopCharges, RunCharges, BottomCharges
     DEF Next, Runnable

LEMMA InitBInv ==
    ASSUME Init
    PROVE  BInv
<1>1. TInv
  BY InitTInv
<1>2. Stamps
  BY DEF Init, Stamps
<1>3. \A l \in Lines : Charged(l) = {}
  BY DEF Init, Charged
<1>4. \A l \in Lines : Cardinality(Charged(l)) = 0
  BY <1>3, FS_EmptySet
<1>5. Charges
  BY <1>4 DEF Init, Charges
<1> QED
  BY <1>1, <1>2, <1>5 DEF BInv

\* "are the bottom and top halves called an equal number of times?"
\* (lab2_one_tasklet.c:43-44): never more bottoms than tops, in any driver; and
\* of no line, in the dynamic drivers, whose items say which line it was.
THEOREM BottomsNeverExceedTops == Spec => []NeverMoreBottoms
<1>1. ASSUME BInv PROVE NeverMoreBottoms
  <2>1. Waiting >= 0
    <3>1. CASE d.loop = "catchup"
      <4>1. Waiting = nevents - Taking
        BY <3>1 DEF Waiting
      <4>2. nevents \in Int /\ nevents >= 0 /\ (Taking = 1 => nevents >= 1)
        BY <1>1, <3>1, Amounts DEF BInv, TInv, Catching, Taking
      <4> QED
        BY <1>1, <4>1, <4>2, Amounts DEF BInv
    <3>2. CASE d.loop # "catchup"
      BY <1>1, <3>2, Amounts DEF BInv, Waiting
    <3> QED
      BY <3>1, <3>2
  <2>2. counter_bh <= Len(fired)
    BY <1>1, <2>1, Amounts DEF BInv, TInv, Total
  <2>3. ASSUME d.own, NEW l \in Lines PROVE bhs[l] <= Fired(l)
    <3>1. /\ Cardinality(Charged(l)) \in Nat
          /\ Cardinality(Charged(l)) <= Fired(l)
      BY <1>1, FiniteCharged
    <3>2. bhs[l] \in Int /\ bhs[l] <= Cardinality(Charged(l))
      BY <1>1, <2>3 DEF BInv, Charges
    <3>3. Fired(l) \in Nat
      BY <1>1, FiredCounts DEF BInv, TInv, OInv, CInv, Histories
    <3> QED
      BY <3>1, <3>2, <3>3
  <2> QED
    BY <2>2, <2>3 DEF NeverMoreBottoms
<1> QED
  BY InitBInv, StepBInv, <1>1, PTL DEF Spec
-----------------------------------------------------------------------------
(* Never the last one: what a handler stores before it asks for its bottom  *)
(* half is read, or a bottom half that will read it is on its way, or       *)
(* something stored later in the same place is.                             *)

\* The drivers whose handler stores before it queues a function, which reads
Deferring ==
    /\ d.by \in {"tasklet", "work"} /\ d.loop # "catchup"
    /\ \E m, n \in DOMAIN d.top :
          m < n /\ d.top[m] = "stamp" /\ d.top[n] = "schedule"

\* The handler of l has stored and is still to queue its item.
Past(l) == top[l] # 0 /\ ~Ahead(l, {"stamp"})

\* The function on c has yet to read its item.
Reading(c) ==
    /\ Busy(c)
    /\ \E n \in runner[c][2] .. Len(d.bottom) : d.bottom[n] \in {"print", "charge"}

\* Store n is where a function will read it.
ToRead(n) ==
    \E i \in Items :
        /\ data[i] = n
        /\ \/ i \in pending
           \/ \E l \in Lines : item[l] = i /\ Past(l)
           \/ \E c \in Cpus : runner[c][1] = i /\ Reading(c)

StampComes ==
    Deferring =>
        \A n \in 1 .. Len(stored) :
            n \in seen \/ ToRead(n) \/ (~d.own /\ n < Len(stored))

StampTypes == stored \in Seq(Lines) /\ data \in [Items -> Nat]

LInv == BInv /\ StampTypes /\ StampComes

LEMMA StoresAhead ==
    ASSUME driver \in Drivers, Deferring
    PROVE  /\ Unique({"stamp"})
           /\ \A n \in 1 .. Len(d.top) : d.top[n] = "schedule" <=> n = Len(d.top)
           /\ \E n \in 1 .. Len(d.bottom) : d.bottom[n] \in {"print", "charge"}
<1>1. \/ d.top = <<"count", "stamp", "schedule">>
      \/ d.top = <<"alloc", "stamp", "count", "schedule">>
      \/ d.top = <<"alloc", "count", "schedule">>
      \/ d.top = <<"stamp", "count", "schedule">>
      \/ d.top = <<"schedule", "stamp">>
      \/ d.top = <<"stamp", "schedule">>
  <2>1. /\ "none" \notin {"tasklet", "work"} /\ "thread" \notin {"tasklet", "work"}
        /\ d.by \in {"tasklet", "work"} /\ d.loop # "catchup"
    BY DEF Deferring
  <2> QED
    BY <2>1, Every, Zenon DEF Kind, Parts
<1>2. \/ d.bottom = <<"charge">> \/ d.bottom = <<"print">>
      \/ d.bottom = <<"count", "print">> \/ d.bottom = <<"charge", "unlock">>
      \/ d.bottom = <<"charge", "free">> \/ d.bottom = <<"print", "unlock">>
      \/ d.bottom = <<"count", "print", "unlock">>
      \/ d.bottom = <<"count", "print", "free">>
      \/ d.bottom = <<"charge", "free", "unlock">>
      \/ d.top = <<"alloc", "count", "schedule">>
      \/ d.bottom = <<"count", "print", "free", "unlock">>
  <2>1. /\ "none" \notin {"tasklet", "work"} /\ "thread" \notin {"tasklet", "work"}
        /\ d.by \in {"tasklet", "work"} /\ d.loop # "catchup"
    BY DEF Deferring
  <2> QED
    BY <2>1, Every, Zenon DEF Kind, Parts
<1> DEFINE Good(s) ==
        /\ \E n \in DOMAIN s : /\ s[n] \in {"stamp"}
                               /\ \A m \in DOMAIN s : s[m] \in {"stamp"} => m = n
        /\ \A n \in 1 .. Len(s) : s[n] = "schedule" <=> n = Len(s)
           Before(s) == \E m, n \in DOMAIN s :
                            m < n /\ s[m] = "stamp" /\ s[n] = "schedule"
           Reads(s) == \E n \in 1 .. Len(s) : s[n] \in {"print", "charge"}
<1>3. ASSUME NEW s, s = <<"alloc", "count", "schedule">> PROVE ~Before(s)
  <2>1. DOMAIN s = 1 .. 3 /\ \A m \in 1 .. 3 : s[m] # "stamp"
    BY <1>3
  <2> QED
    BY <2>1
<1>4. ASSUME NEW s, s = <<"schedule", "stamp">> PROVE ~Before(s)
  <2>1. DOMAIN s = 1 .. 2 /\ s[1] # "stamp" /\ s[2] # "schedule"
    BY <1>4
  <2> QED
    BY <2>1
<1>5. ASSUME NEW s, s = <<"count", "stamp", "schedule">> PROVE Good(s)
  <2>1. /\ s[2] = "stamp" /\ DOMAIN s = 1 .. 3 /\ Len(s) = 3 /\ s[3] = "schedule"
        /\ s[1] = "count"
    BY <1>5
  <2> QED
    BY <2>1
<1>6. ASSUME NEW s, s = <<"alloc", "stamp", "count", "schedule">> PROVE Good(s)
  <2>1. /\ s[2] = "stamp" /\ DOMAIN s = 1 .. 4 /\ Len(s) = 4 /\ s[4] = "schedule"
        /\ s[1] = "alloc" /\ s[3] = "count"
    BY <1>6
  <2> QED
    BY <2>1
<1>7. ASSUME NEW s, s = <<"stamp", "count", "schedule">> PROVE Good(s)
  <2>1. /\ s[1] = "stamp" /\ DOMAIN s = 1 .. 3 /\ Len(s) = 3 /\ s[3] = "schedule"
        /\ s[2] = "count"
    BY <1>7
  <2> QED
    BY <2>1
<1>8. ASSUME NEW s, s = <<"stamp", "schedule">> PROVE Good(s)
  <2>1. /\ s[1] = "stamp" /\ DOMAIN s = 1 .. 2 /\ Len(s) = 2 /\ s[2] = "schedule"
    BY <1>8
  <2> QED
    BY <2>1
<1>9. ASSUME NEW s, \/ s = <<"charge">> \/ s = <<"print">>
                    \/ s = <<"charge", "unlock">> \/ s = <<"charge", "free">>
                    \/ s = <<"print", "unlock">>
                    \/ s = <<"charge", "free", "unlock">>
      PROVE  Reads(s)
  <2>1. 1 \in 1 .. Len(s) /\ s[1] \in {"print", "charge"}
    BY <1>9
  <2> QED
    BY <2>1
<1>10. ASSUME NEW s, \/ s = <<"count", "print">>
                     \/ s = <<"count", "print", "unlock">>
                     \/ s = <<"count", "print", "free">>
                     \/ s = <<"count", "print", "free", "unlock">>
       PROVE  Reads(s)
  <2>1. 2 \in 1 .. Len(s) /\ s[2] \in {"print", "charge"}
    BY <1>10
  <2> QED
    BY <2>1
<1>11. Before(d.top)
  BY DEF Deferring
<1> HIDE DEF Good, Before, Reads
<1>12. Good(d.top)
  BY <1>1, <1>3, <1>4, <1>5, <1>6, <1>7, <1>8, <1>11, Zenon
<1>13. Reads(d.bottom)
  BY <1>2, <1>3, <1>9, <1>10, <1>11, Zenon
<1> QED
  BY <1>12, <1>13 DEF Good, Reads, Unique

\* Whatever moves no item and forgets no reading
LEMMA StandsStores ==
    ASSUME LInv, seen \subseteq seen',
           UNCHANGED <<driver, top, item, pending, runner, data, stored>>
    PROVE  StampTypes' /\ StampComes'
<1>1. d' = d
  BY SameDriver
<1>2. \A n : ToRead(n)' = ToRead(n)
  BY <1>1 DEF ToRead, Past, Ahead, Place, Reading, Busy
<1>3. Deferring' = Deferring
  BY <1>1 DEF Deferring
<1> QED
  BY <1>1, <1>2, <1>3 DEF LInv, StampTypes, StampComes

LEMMA EnterStores ==
    ASSUME LInv, NEW l \in Lines, Enter(l)
    PROVE  StampTypes' /\ StampComes'
<1>1. /\ UNCHANGED <<driver, pending, runner, data, stored, seen>> /\ d' = d
      /\ top[l] = 0 /\ top' = [top EXCEPT ![l] = 1]
      /\ item' = [item EXCEPT ![l] = IF d.own THEN Len(fired') ELSE 0]
  BY SameDriver DEF Enter, life, queue
<1>2. \A k \in Lines \ {l} : item'[k] = item[k] /\ top'[k] = top[k]
  BY <1>1 DEF LInv, BInv, TInv, OInv, CInv, Histories, Tops, Queues
<1>3. \A k \in Lines : Past(k) => k # l
  BY <1>1 DEF Past
<1>4. \A k \in Lines : Past(k) => Past(k)' /\ item'[k] = item[k]
  BY <1>1, <1>2, <1>3 DEF Past, Ahead, Place
<1>5. \A c \in Cpus : Reading(c)' = Reading(c)
  BY <1>1 DEF Reading, Busy
<1>6. \A n : ToRead(n) => ToRead(n)'
  BY <1>1, <1>4, <1>5 DEF ToRead
<1>7. Deferring' = Deferring
  BY <1>1 DEF Deferring
<1> QED
  BY <1>1, <1>6, <1>7 DEF LInv, StampTypes, StampComes

LEMMA TopStores ==
    ASSUME LInv, NEW l \in Lines, my_interrupt(l)
    PROVE  StampTypes' /\ StampComes'
<1>1. PICK op : /\ Does(l, op)
                /\ pending' = IF op = "schedule" THEN pending \cup {item[l]}
                                                 ELSE pending
                /\ stored' = IF op = "stamp" THEN Append(stored, l) ELSE stored
                /\ data' = IF op = "stamp"
                             THEN [data EXCEPT ![item[l]] = Len(stored')]
                             ELSE data
  BY DEF my_interrupt, TopAlloc, TopStamp, TopEvent, TopCount, TopRead,
         TopWrite, TopSchedule, TopRaise, TopWake
<1>2. /\ UNCHANGED <<driver, fired, item, runner, seen>> /\ d' = d
      /\ driver \in Drivers /\ Tops /\ Len(d.top) \in Nat
      /\ top[l] \in 1 .. Len(d.top) /\ d.top[top[l]] = op
      /\ top'[l] = IF top[l] = Len(d.top) THEN 0 ELSE top[l] + 1
      /\ \A k \in Lines \ {l} : top'[k] = top[k]
  <2>1. driver \in Drivers /\ Tops
    BY Amounts DEF LInv, BInv
  <2>2. seen' = seen
    BY <1>1 DEF Does
  <2> QED
    BY <1>1, <2>1, <2>2, Advances, Sized DEF life
<1>3. /\ item \in [Lines -> Items] /\ item[l] \in Items
      /\ stored \in Seq(Lines) /\ data \in [Items -> Nat] /\ Len(stored) \in Nat
  BY DEF LInv, BInv, TInv, OInv, Queues, StampTypes
<1>4. /\ StampTypes'
      /\ op = "stamp" => Len(stored') = Len(stored) + 1
  <2>1. CASE op = "stamp"
    <3>1. stored' \in Seq(Lines) /\ Len(stored') = Len(stored) + 1
      BY <1>1, <1>3, <2>1
    <3> QED
      BY <1>1, <1>3, <2>1, <3>1 DEF StampTypes
  <2>2. CASE op # "stamp"
    BY <1>1, <1>3, <2>2 DEF StampTypes
  <2> QED
    BY <2>1, <2>2
<1> SUFFICES ASSUME Deferring PROVE StampComes'
  BY <1>2, <1>4 DEF StampComes, Deferring
<1>5. /\ Unique({"stamp"})
      /\ \A n \in 1 .. Len(d.top) : d.top[n] = "schedule" <=> n = Len(d.top)
  BY <1>2, StoresAhead
<1>6. /\ op = "stamp" => Ahead(l, {"stamp"}) /\ ~Ahead(l, {"stamp"})'
      /\ op # "stamp" => Ahead(l, {"stamp"})' = Ahead(l, {"stamp"})
      /\ \A k \in Lines \ {l} : Ahead(k, {"stamp"})' = Ahead(k, {"stamp"})
  <2>1. op \in {"stamp"} <=> op = "stamp"
    OBVIOUS
  <2> QED
    BY <1>1, <1>2, <1>5, <2>1, AheadMoves
<1>7. op # "schedule" => top'[l] # 0
  BY <1>2, <1>5
<1>8. /\ op = "stamp" => ~Past(l) /\ Past(l)'
      /\ op \notin {"stamp", "schedule"} => (Past(l) => Past(l)')
      /\ \A k \in Lines \ {l} : Past(k)' = Past(k)
  <2>1. op = "stamp" => op # "schedule"
    OBVIOUS
  <2> QED
    BY <1>2, <1>6, <1>7, <2>1 DEF Past
<1>9. \A c \in Cpus : Reading(c)' = Reading(c)
  BY <1>2 DEF Reading, Busy
<1>10. ASSUME NEW n \in 1 .. Len(stored'), op = "stamp"
       PROVE  n \in seen' \/ ToRead(n)' \/ (~d'.own /\ n < Len(stored'))
  <2>1. CASE n = Len(stored')
    <3>1. data'[item[l]] = n
      BY <1>1, <1>3, <1>10, <2>1
    <3>2. item'[l] \in Items /\ data'[item'[l]] = n /\ Past(l)'
      BY <1>2, <1>3, <1>8, <1>10, <3>1
    <3>3. PICK i \in Items : i = item'[l]
      BY <3>2
    <3>4. ToRead(n)'
      BY <3>2, <3>3 DEF ToRead
    <3> QED
      BY <3>4
  <2>2. CASE n # Len(stored') /\ ~d.own
    <3>1. n < Len(stored')
      BY <1>3, <1>4, <1>10, <2>2
    <3> QED
      BY <1>2, <2>2, <3>1
  <2>3. CASE n # Len(stored') /\ d.own
    <3>1. n \in 1 .. Len(stored)
      BY <1>3, <1>4, <1>10, <2>3
    <3>2. n \in seen \/ ToRead(n)
      BY <2>3, <3>1 DEF LInv, StampComes
    <3>3. ASSUME ToRead(n) PROVE ToRead(n)'
      <4>1. PICK i \in Items :
                /\ data[i] = n
                /\ \/ i \in pending
                   \/ \E k \in Lines : item[k] = i /\ Past(k)
                   \/ \E c \in Cpus : runner[c][1] = i /\ Reading(c)
        BY <3>3 DEF ToRead
      <4>2. /\ item[l] \notin pending /\ fired[item[l]] = l
            /\ \A k \in Lines : top[k] # 0 => fired[item[k]] = k
            /\ \A c \in Cpus : Busy(c) => item[l] # runner[c][1]
        BY <1>2, <2>3 DEF LInv, BInv, TInv, OInv, Apart
      <4>3. ASSUME NEW k \in Lines, item[k] = i, Past(k) PROVE i # item[l] /\ k # l
        <5>1. k # l
          BY <1>8, <1>10, <4>3
        <5>2. fired[item[k]] = k
          BY <4>2, <4>3 DEF Past
        <5> QED
          BY <4>2, <4>3, <5>1, <5>2
      <4>4. ASSUME NEW c \in Cpus, runner[c][1] = i, Reading(c) PROVE i # item[l]
        BY <4>2, <4>4 DEF Reading
      <4>5. i # item[l]
        BY <4>1, <4>2, <4>3, <4>4
      <4>6. data'[i] = n
        BY <1>1, <1>3, <1>10, <4>1, <4>5
      <4>7. pending' = pending
        BY <1>1, <1>10
      <4>8. \A k \in Lines : item[k] = i /\ Past(k) => item'[k] = i /\ Past(k)'
        BY <1>2, <1>8, <4>3
      <4> QED
        BY <1>2, <1>9, <4>1, <4>6, <4>7, <4>8 DEF ToRead
    <3> QED
      BY <1>2, <3>2, <3>3
  <2> QED
    BY <2>1, <2>2, <2>3
<1>11. ASSUME NEW n, ToRead(n), op # "stamp"
       PROVE  ToRead(n)'
  <2>1. PICK i \in Items :
            /\ data[i] = n
            /\ \/ i \in pending
               \/ \E k \in Lines : item[k] = i /\ Past(k)
               \/ \E c \in Cpus : runner[c][1] = i /\ Reading(c)
    BY <1>11 DEF ToRead
  <2>2. data' = data /\ stored' = stored /\ pending \subseteq pending'
    BY <1>1, <1>11
  <2>3. ASSUME NEW k \in Lines, item[k] = i, Past(k)
        PROVE  i \in pending' \/ (item'[k] = i /\ Past(k)')
    BY <1>1, <1>2, <1>8, <1>11, <2>3
  <2> QED
    BY <1>2, <1>9, <2>1, <2>2, <2>3 DEF ToRead
<1>12. CASE op = "stamp"
  BY <1>10, <1>12 DEF StampComes
<1>13. CASE op # "stamp"
  <2>1. stored' = stored
    BY <1>1, <1>13
  <2> QED
    BY <1>2, <1>11, <1>13, <2>1 DEF LInv, StampComes
<1> QED
  BY <1>12, <1>13

LEMMA RunStores ==
    ASSUME LInv, NEW c \in Cpus, NEW i \in Items, BottomRun(c, i)
    PROVE  StampTypes' /\ StampComes'
<1>1. /\ UNCHANGED <<driver, top, item, data, stored, seen>> /\ d' = d
      /\ i \in pending /\ ~Busy(c) /\ pending' = pending \ {i}
      /\ runner' = [runner EXCEPT ![c] = <<i, 1>>]
      /\ driver \in Drivers
  BY SameDriver, Amounts
     DEF BottomRun, life, tops, history, LInv, BInv
<1>2. runner'[c] = <<i, 1>> /\ \A e \in Cpus \ {c} : runner'[e] = runner[e]
  BY <1>1 DEF LInv, BInv, TInv, OInv, Queues
<1>3. \A k \in Lines : Past(k)' = Past(k)
  BY <1>1 DEF Past, Ahead, Place
<1>4. \A e \in Cpus : Reading(e) => e # c /\ Reading(e)'
  BY <1>1, <1>2 DEF Reading, Busy
<1>5. Deferring => runner'[c][1] = i /\ Reading(c)'
  <2>1. runner'[c][1] = i /\ runner'[c][2] = 1
    BY <1>2
  <2>2. Busy(c)'
    BY <2>1 DEF Busy
  <2> QED
    BY <1>1, <2>1, <2>2, StoresAhead DEF Reading
<1>6. ASSUME NEW n, ToRead(n), Deferring PROVE ToRead(n)'
  <2>1. PICK j \in Items :
            /\ data[j] = n
            /\ \/ j \in pending
               \/ \E k \in Lines : item[k] = j /\ Past(k)
               \/ \E e \in Cpus : runner[e][1] = j /\ Reading(e)
    BY <1>6 DEF ToRead
  <2>2. j \in pending => j \in pending' \/ j = i
    BY <1>1
  <2>3. \A e \in Cpus : runner[e][1] = j /\ Reading(e) =>
                            runner'[e][1] = j /\ Reading(e)'
    BY <1>2, <1>4
  <2>4. \/ j \in pending'
        \/ \E k \in Lines : item'[k] = j /\ Past(k)'
        \/ \E e \in Cpus : runner'[e][1] = j /\ Reading(e)'
    BY <1>1, <1>3, <1>5, <1>6, <2>1, <2>2, <2>3
  <2> QED
    BY <1>1, <2>1, <2>4 DEF ToRead
<1>7. Deferring' = Deferring
  BY <1>1 DEF Deferring
<1> QED
  BY <1>1, <1>6, <1>7 DEF LInv, StampTypes, StampComes

LEMMA BottomStores ==
    ASSUME LInv, NEW c \in Cpus, bottom(c)
    PROVE  StampTypes' /\ StampComes'
<1>1. /\ UNCHANGED <<driver, top, item, pending, data, stored>>
      /\ d' = d /\ driver \in Drivers /\ Queues
  BY SameDriver, Amounts
     DEF bottom, BottomCount, BottomCharge, BottomPrint, BottomFree,
         BottomOther, BottomTest, BottomDec, Runs, Goes, life, tops, history,
         LInv, BInv, TInv, OInv
<1> SUFFICES ASSUME Deferring PROVE StampComes'
  BY <1>1 DEF LInv, StampTypes, StampComes, Deferring
<1>2. PICK op : /\ Runs(c, op)
                /\ seen \subseteq seen'
                /\ op \in {"print", "charge"} =>
                      seen' = seen \cup ({data[runner[c][1]]} \ {0})
  <2>1. \A n \in 1 .. Len(d.bottom) : d.bottom[n] \notin {"events?", "dec"}
    BY <1>1, Classes DEF Deferring
  <2>2. ASSUME Busy(c), d.bottom[runner[c][2]] \in {"events?", "dec"} PROVE FALSE
    BY <1>1, <2>1, <2>2 DEF Queues, Busy
  <2>3. ~BottomTest(c) /\ ~BottomDec(c)
    BY <2>2 DEF BottomTest, BottomDec, Goes
  <2>4. \/ /\ Runs(c, "charge") \/ Runs(c, "print")
           /\ seen' = seen \cup ({data[runner[c][1]]} \ {0})
        \/ /\ \/ Runs(c, "count") \/ Runs(c, "free")
              \/ Runs(c, "free null") \/ Runs(c, "unlock")
           /\ seen' = seen
    BY <2>3 DEF bottom, BottomCount, BottomCharge, BottomPrint, BottomFree,
                BottomOther
  <2>5. /\ "count" \notin {"print", "charge"} /\ "free" \notin {"print", "charge"}
        /\ "free null" \notin {"print", "charge"}
        /\ "unlock" \notin {"print", "charge"}
    OBVIOUS
  <2>6. CASE seen' = seen \cup ({data[runner[c][1]]} \ {0})
    <3>1. seen \subseteq seen'
      BY <2>6
    <3> QED
      BY <2>4, <2>5, <2>6, <3>1, Zenon
  <2>7. CASE seen' = seen /\ seen' # seen \cup ({data[runner[c][1]]} \ {0})
    BY <2>4, <2>5, <2>7, Zenon
  <2> QED
    BY <2>4, <2>6, <2>7, Zenon
<1>3. PICK i, p : i = runner[c][1] /\ p = runner[c][2]
  OBVIOUS
<1>4. PICK to : to = IF p = Len(d.bottom) THEN 0 ELSE p + 1
  OBVIOUS
<1>5. /\ p \in 1 .. Len(d.bottom) /\ d.bottom[p] = op /\ Busy(c)
      /\ runner'[c] = <<i, to>>
      /\ \A e \in Cpus \ {c} : runner'[e] = runner[e]
      /\ Len(d.bottom) \in Nat
  BY <1>1, <1>2, <1>3, <1>4, Steps, Sized
<1>6. runner'[c][1] = i /\ runner'[c][2] = to
  BY <1>5
<1>7. \A k \in Lines : Past(k)' = Past(k)
  BY <1>1 DEF Past, Ahead, Place
<1>8. \A e \in Cpus \ {c} : Reading(e)' = Reading(e)
  BY <1>1, <1>5 DEF Reading, Busy
<1>9. ASSUME Reading(c), op \notin {"print", "charge"} PROVE Reading(c)'
  <2>1. PICK m \in p .. Len(d.bottom) : d.bottom[m] \in {"print", "charge"}
    BY <1>3, <1>9 DEF Reading
  <2>2. m # p
    BY <1>5, <1>9, <2>1
  <2>3. to = p + 1 /\ m \in to .. Len(d.bottom) /\ to # 0
    BY <1>4, <1>5, <2>1, <2>2
  <2> QED
    BY <1>1, <1>6, <2>1, <2>3 DEF Reading, Busy
<1>10. ASSUME NEW n \in 1 .. Len(stored), ToRead(n)
       PROVE  n \in seen' \/ ToRead(n)'
  <2>1. PICK j \in Items :
            /\ data[j] = n
            /\ \/ j \in pending
               \/ \E k \in Lines : item[k] = j /\ Past(k)
               \/ \E e \in Cpus : runner[e][1] = j /\ Reading(e)
    BY <1>10 DEF ToRead
  <2>2. ASSUME NEW e \in Cpus, runner[e][1] = j, Reading(e)
        PROVE  n \in seen' \/ (runner'[e][1] = j /\ Reading(e)')
    <3>1. CASE e # c
      BY <1>5, <1>8, <2>2, <3>1
    <3>2. CASE e = c /\ op \notin {"print", "charge"}
      BY <1>3, <1>6, <1>9, <2>2, <3>2
    <3>3. CASE e = c /\ op \in {"print", "charge"}
      BY <1>2, <1>3, <1>10, <2>1, <2>2, <3>3
    <3> QED
      BY <3>1, <3>2, <3>3
  <2>3. \/ n \in seen'
        \/ j \in pending'
        \/ \E k \in Lines : item'[k] = j /\ Past(k)'
        \/ \E e \in Cpus : runner'[e][1] = j /\ Reading(e)'
    BY <1>1, <1>7, <2>1, <2>2
  <2> QED
    BY <1>1, <2>1, <2>3 DEF ToRead
<1> QED
  BY <1>1, <1>2, <1>10 DEF LInv, StampComes

LEMMA StepLInv ==
    ASSUME LInv, [Next]_vars
    PROVE  LInv'
<1>1. BInv'
  BY StepBInv DEF LInv
<1>2. SUFFICES StampTypes' /\ StampComes'
  BY <1>1 DEF LInv
<1>3. CASE my_init \/ my_exit
  <2>1. UNCHANGED <<driver, top, item, pending, runner, data, stored, seen>>
    <3>1. CASE my_init
      BY <3>1 DEF my_init, RunThread, Register, RequestLine, ResetCounter, tops,
                  queue, history
    <3>2. CASE my_exit
      BY <3>2 DEF my_exit, StopThread, JoinThread, SynchronizeIrq, UnlinkIrq,
                  FreeIrq, Deregister, tops, queue, history
    <3> QED
      BY <1>3, <3>1, <3>2
  <2> QED
    BY <2>1, StandsStores
<1>4. CASE FreedTextRuns \/ \E l \in Lines : AllocFails(l)
  BY <1>4, StandsStores DEF FreedTextRuns, AllocFails, tops, queue, history
<1>5. CASE thr_fun
  <2>1. /\ UNCHANGED <<driver, top, item, pending, runner, data, stored>>
        /\ seen \subseteq seen'
    BY <1>5
       DEF thr_fun, ThreadRead, ThreadClear, ThreadWait, ThreadCount,
           ThreadPrint, ThreadStopTest, ThreadEventsTest, ThreadInc, ThreadDec,
           ThreadWhile, At, tops, life, queue
  <2> QED
    BY <2>1, StandsStores
<1>6. CASE UNCHANGED vars
  BY <1>6, StandsStores DEF vars, life, tops, queue, history
<1> QED
  BY <1>3, <1>4, <1>5, <1>6, EnterStores, TopStores, RunStores, BottomStores
     DEF Next, Runnable

LEMMA InitLInv ==
    ASSUME Init
    PROVE  LInv
<1>1. BInv
  BY InitBInv
<1>2. StampTypes
  BY DEF Init, StampTypes
<1>3. StampComes
  BY DEF Init, StampComes
<1> QED
  BY <1>1, <1>2, <1>3 DEF LInv

\* Merging loses bottom halves but never the last one, in the drivers whose
\* handler stores before it queues: each store was read, or a function that
\* will read it is queued, has begun, or is about to be queued; or, in the item
\* that all interrupts share, a later store is.  EveryStampAnswered then needs
\* but the steps that are on their way.
THEOREM LastStoreIsNeverLost == Spec => []StampComes
<1>1. LInv => StampComes
  BY DEF LInv
<1> QED
  BY InitLInv, StepLInv, <1>1, PTL DEF Spec

-----------------------------------------------------------------------------
(* ... and where the function catches up, none                              *)

CatchingUp == d.by = "tasklet" /\ d.loop = "catchup"

\* Each store brought an event (its handler's third operation comes after the
\* second), which was counted or waits; and if one waits, so does a tasklet,
\* goes round its loop, or is about to be queued.
EventComes ==
    CatchingUp =>
        /\ Len(stored) + (IF top[1] = 3 THEN 1 ELSE 0) = counter_bh + Waiting
        /\ nevents > 0 =>
              \/ 0 \in pending
              \/ top[1] > 2
              \/ \E c \in Cpus : runner[c][2] \in 1 .. 4

EInv == LInv /\ EventComes

LEMMA Catcher ==
    ASSUME driver \in Drivers, CatchingUp
    PROVE  /\ Len(d.top) = 4 /\ d.top[1] = "count" /\ d.top[2] = "event"
           /\ d.top[3] = "stamp" /\ d.top[4] = "schedule"
           /\ d.from = "line" /\ ~d.own /\ d.by # "thread"
           /\ d.bottom = <<"events?", "count", "print", "dec", "unlock">>
<1>1. d.top = <<"count", "event", "stamp", "schedule">> /\ d.from = "line"
  <2>1. /\ "none" # "catchup" /\ "flag" # "catchup" /\ "charge" # "catchup"
        /\ "tasklet" # "thread" /\ d.by = "tasklet" /\ d.loop = "catchup"
    BY DEF CatchingUp
  <2> QED
    BY <2>1, Every, Zenon DEF Kind, Parts
<1>2. ~d.own /\ d.bottom = <<"events?", "count", "print", "dec", "unlock">>
  BY Classes DEF CatchingUp
<1>3. ASSUME NEW s, s = <<"count", "event", "stamp", "schedule">>
      PROVE  /\ Len(s) = 4 /\ s[1] = "count" /\ s[2] = "event"
             /\ s[3] = "stamp" /\ s[4] = "schedule"
  BY <1>3
<1> QED
  BY <1>1, <1>2, <1>3 DEF CatchingUp

\* What waits depends on nothing else, as long as there is no thread.
LEMMA StandsEvents ==
    ASSUME EInv, BInv',
           UNCHANGED <<driver, top, pending, runner, counter_bh, nevents, stored>>
    PROVE  EventComes'
<1>1. d' = d /\ CatchingUp' = CatchingUp
  BY SameDriver DEF CatchingUp
<1> SUFFICES ASSUME CatchingUp PROVE EventComes'
  BY <1>1 DEF EventComes
<1>2. driver \in Drivers
  BY Amounts DEF EInv, LInv, BInv
<1>3. thread = "none" /\ thread' = "none"
  BY <1>1, <1>2, Catcher DEF EInv, LInv, BInv, TInv, Stands
<1>4. Waiting' = Waiting
  BY <1>1, <1>3 DEF Waiting, Taking, CatchingUp
<1> QED
  BY <1>1, <1>4 DEF EInv, EventComes

LEMMA EnterEvents ==
    ASSUME EInv, NEW l \in Lines, Enter(l)
    PROVE  EventComes'
<1>1. /\ UNCHANGED <<driver, pending, runner, counter_bh, nevents, stored, thread>>
      /\ l \in linked /\ top[l] = 0 /\ top' = [top EXCEPT ![l] = 1]
      /\ d' = d /\ CatchingUp' = CatchingUp
  BY SameDriver DEF Enter, life, counters, queue, task, CatchingUp
<1> SUFFICES ASSUME CatchingUp PROVE EventComes'
  BY <1>1 DEF EventComes
<1>2. driver \in Drivers /\ Tops /\ IInv
  BY Amounts DEF EInv, LInv, BInv, TInv, OInv, CInv
<1>3. l = 1
  BY <1>1, <1>2, Catcher DEF IInv, Places
<1>4. top'[1] = 1 /\ top[1] = 0
  BY <1>1, <1>2, <1>3 DEF Tops
<1>5. Waiting' = Waiting
  BY <1>1 DEF Waiting, Taking, CatchingUp
<1> QED
  BY <1>1, <1>4, <1>5 DEF EInv, EventComes

LEMMA TopEvents ==
    ASSUME EInv, NEW l \in Lines, my_interrupt(l)
    PROVE  EventComes'
<1>1. PICK op : /\ Does(l, op)
                /\ pending' = IF op = "schedule" THEN pending \cup {item[l]}
                                                 ELSE pending
                /\ nevents' = IF op = "event" THEN nevents + 1 ELSE nevents
                /\ stored' = IF op = "stamp" THEN Append(stored, l) ELSE stored
                /\ op # "wake" => thread' = thread
  BY DEF my_interrupt, TopAlloc, TopStamp, TopEvent, TopCount, TopRead,
         TopWrite, TopSchedule, TopRaise, TopWake
<1>2. driver \in Drivers /\ Tops /\ IInv
  BY Amounts DEF EInv, LInv, BInv, TInv, OInv, CInv
<1>3. /\ UNCHANGED <<driver, counter_bh, runner>> /\ d' = d
      /\ TextPresent
      /\ top[l] \in 1 .. Len(d.top) /\ d.top[top[l]] = op
      /\ top'[l] = IF top[l] = Len(d.top) THEN 0 ELSE top[l] + 1
  BY <1>1, <1>2, Advances DEF life
<1>4. CatchingUp' = CatchingUp
  BY <1>3 DEF CatchingUp
<1> SUFFICES ASSUME CatchingUp PROVE EventComes'
  BY <1>4 DEF EventComes
<1>5. l = 1 /\ item[l] = 0
  <2>1. l \in linked \/ irq = l
    BY <1>3 DEF IInv, InFlight, TextPresent, EInv, LInv, BInv, TInv, OInv, CInv
  <2>2. d.from = "line" /\ ~d.own
    BY <1>2, Catcher
  <2> QED
    BY <1>2, <2>1, <2>2 DEF IInv, Places, EInv, LInv, BInv, TInv, Static
<1>6. \/ /\ top[1] = 1 /\ top'[1] = 2 /\ op = "count"
      \/ /\ top[1] = 2 /\ top'[1] = 3 /\ op = "event"
      \/ /\ top[1] = 3 /\ top'[1] = 4 /\ op = "stamp"
      \/ /\ top[1] = 4 /\ top'[1] = 0 /\ op = "schedule"
  <2>1. top[1] \in 1 .. 4
    BY <1>2, <1>3, <1>5, Catcher
  <2>2. top[1] = 1 \/ top[1] = 2 \/ top[1] = 3 \/ top[1] = 4
    BY <2>1
  <2>3. /\ Len(d.top) = 4 /\ d.top[1] = "count" /\ d.top[2] = "event"
        /\ d.top[3] = "stamp" /\ d.top[4] = "schedule"
    BY <1>2, Catcher
  <2>4. /\ top'[1] = IF top[1] = 4 THEN 0 ELSE top[1] + 1
        /\ d.top[top[1]] = op
    BY <1>3, <1>5, <2>3
  <2> QED
    BY <2>2, <2>3, <2>4
<1>7. op # "wake"
  BY <1>6
<1>8. /\ Waiting = nevents - Taking /\ Waiting' = nevents' - Taking
      /\ Taking \in {0, 1} /\ nevents \in Int /\ counter_bh \in Int
  <2>1. Taking' = Taking
    BY <1>1, <1>3, <1>7 DEF Taking
  <2> QED
    BY <1>3, <2>1, Amounts DEF Waiting, CatchingUp, EInv, LInv, BInv
<1>9. /\ stored \in Seq(Lines) /\ Len(stored) \in Nat
      /\ Len(Append(stored, l)) = Len(stored) + 1
  BY DEF EInv, LInv, StampTypes
<1>10. /\ Len(stored) + (IF top[1] = 3 THEN 1 ELSE 0) = counter_bh + Waiting
       /\ nevents > 0 => \/ 0 \in pending
                         \/ top[1] > 2
                         \/ \E c \in Cpus : runner[c][2] \in 1 .. 4
  BY DEF EInv, EventComes
<1>11. Len(stored') + (IF top'[1] = 3 THEN 1 ELSE 0) = counter_bh' + Waiting'
  <2>1. CASE op = "count"
    BY <1>1, <1>3, <1>6, <1>8, <1>10, <2>1
  <2>2. CASE op = "event"
    BY <1>1, <1>3, <1>6, <1>8, <1>9, <1>10, <2>2
  <2>3. CASE op = "stamp"
    BY <1>1, <1>3, <1>6, <1>8, <1>9, <1>10, <2>3
  <2>4. CASE op = "schedule"
    BY <1>1, <1>3, <1>6, <1>8, <1>10, <2>4
  <2> QED
    BY <1>6, <2>1, <2>2, <2>3, <2>4
<1>12. nevents' > 0 => \/ 0 \in pending'
                       \/ top'[1] > 2
                       \/ \E c \in Cpus : runner'[c][2] \in 1 .. 4
  <2>1. CASE op = "count"
    BY <1>1, <1>3, <1>6, <1>10, <2>1
  <2>2. CASE op \in {"event", "stamp"}
    BY <1>6, <2>2
  <2>3. CASE op = "schedule"
    BY <1>1, <1>5, <2>3
  <2> QED
    BY <1>6, <2>1, <2>2, <2>3
<1> QED
  BY <1>11, <1>12 DEF EventComes

LEMMA RunEvents ==
    ASSUME EInv, NEW c \in Cpus, NEW i \in Items, BottomRun(c, i)
    PROVE  EventComes'
<1>1. /\ UNCHANGED <<driver, top, counter_bh, nevents, stored, thread>> /\ d' = d
      /\ i \in pending /\ ~Busy(c)
      /\ d.by = "tasklet" => \A e \in Cpus : Busy(e) => runner[e][1] # i
      /\ runner' = [runner EXCEPT ![c] = <<i, 1>>]
  BY SameDriver DEF BottomRun, life, tops, counters, task, history
<1>2. CatchingUp' = CatchingUp
  BY <1>1 DEF CatchingUp
<1> SUFFICES ASSUME CatchingUp PROVE EventComes'
  BY <1>2 DEF EventComes
<1>3. driver \in Drivers /\ Queues /\ Static
  BY Amounts DEF EInv, LInv, BInv, TInv, OInv
<1>4. ~d.own
  BY <1>3, Catcher
<1>5. \A e \in Cpus : runner[e][2] = 0
  BY <1>1, <1>3, <1>4 DEF Static, Busy, CatchingUp
<1>6. /\ runner'[c][2] = 1
      /\ \A e \in Cpus : runner'[e][2] \in {0, 1}
  <2>1. runner'[c] = <<i, 1>> /\ \A e \in Cpus \ {c} : runner'[e] = runner[e]
    BY <1>1, <1>3 DEF Queues
  <2> QED
    BY <1>5, <2>1
<1>7. Waiting' = Waiting
  <2>1. \A e \in Cpus : runner[e][2] \notin {3, 4} /\ runner'[e][2] \notin {3, 4}
    BY <1>5, <1>6
  <2>2. Taking' = Taking
    BY <1>1, <2>1 DEF Taking
  <2> QED
    BY <1>1, <2>2 DEF Waiting, CatchingUp
<1>8. runner'[c][2] \in 1 .. 4
  BY <1>6
<1> QED
  BY <1>1, <1>7, <1>8 DEF EInv, EventComes

LEMMA BottomEvents ==
    ASSUME EInv, NEW c \in Cpus, bottom(c)
    PROVE  EventComes'
<1>1. UNCHANGED <<driver, top, pending, stored>> /\ d' = d /\ CatchingUp' = CatchingUp
  BY SameDriver
     DEF bottom, BottomCount, BottomCharge, BottomPrint, BottomFree,
         BottomOther, BottomTest, BottomDec, Runs, Goes, life, tops, history,
         CatchingUp
<1> SUFFICES ASSUME CatchingUp PROVE EventComes'
  BY <1>1 DEF EventComes
<1>2. TInv /\ d.loop = "catchup"
  BY DEF EInv, LInv, BInv, CatchingUp
<1>3. PICK n, to :
         /\ runner[c][2] = n /\ runner'[c][2] = to
         /\ \/ n = 1 /\ to = 5 /\ nevents' = nevents /\ nevents = 0
            \/ n = 1 /\ to = 2 /\ nevents' = nevents /\ nevents >= 1
            \/ n = 2 /\ to = 3 /\ nevents' = nevents
            \/ n = 3 /\ to = 4 /\ nevents' = nevents
            \/ n = 4 /\ to = 5 /\ nevents' = nevents - 1 /\ nevents = 1
            \/ n = 4 /\ to = 2 /\ nevents' = nevents - 1 /\ nevents >= 2
            \/ n = 5 /\ to = 0 /\ nevents' = nevents
  BY <1>2, CatchMoves
<1>4. /\ \A e \in Cpus \ {c} : runner[e][2] = 0
      /\ counter_bh' + Waiting' = counter_bh + Waiting
  BY <1>2, CatchMoves
<1>5. /\ Len(stored) + (IF top[1] = 3 THEN 1 ELSE 0) = counter_bh + Waiting
      /\ nevents > 0 => \/ 0 \in pending
                        \/ top[1] > 2
                        \/ \E e \in Cpus : runner[e][2] \in 1 .. 4
  BY DEF EInv, EventComes
<1>6. ASSUME nevents' > 0
      PROVE  \/ 0 \in pending'
             \/ top'[1] > 2
             \/ \E e \in Cpus : runner'[e][2] \in 1 .. 4
  <2>1. CASE to \in 1 .. 4
    BY <1>3, <2>1
  <2>2. CASE to = 5
    BY <1>3, <1>6, <2>2
  <2>3. CASE to = 0
    <3>1. n = 5 /\ nevents > 0
      BY <1>3, <1>6, <2>3
    <3>2. \A e \in Cpus : runner[e][2] \notin 1 .. 4
      BY <1>3, <1>4, <3>1
    <3> QED
      BY <1>1, <1>5, <3>1, <3>2
  <2> QED
    BY <1>3, <2>1, <2>2, <2>3
<1> QED
  BY <1>1, <1>4, <1>5, <1>6 DEF EventComes

LEMMA StepEInv ==
    ASSUME EInv, [Next]_vars
    PROVE  EInv'
<1>1. LInv' /\ BInv'
  BY StepLInv DEF EInv, LInv
<1>2. SUFFICES EventComes'
  BY <1>1 DEF EInv
<1>3. CASE my_init \/ my_exit
  <2>1. UNCHANGED <<driver, top, pending, runner, counter_bh, nevents, stored>>
    <3>1. CASE my_init
      BY <3>1 DEF my_init, RunThread, Register, RequestLine, ResetCounter, tops,
                  counters, queue, history
    <3>2. CASE my_exit
      BY <3>2 DEF my_exit, StopThread, JoinThread, SynchronizeIrq, UnlinkIrq,
                  FreeIrq, Deregister, tops, counters, queue, history
    <3> QED
      BY <1>3, <3>1, <3>2
  <2> QED
    BY <1>1, <2>1, StandsEvents
<1>4. CASE FreedTextRuns \/ \E l \in Lines : AllocFails(l)
  BY <1>1, <1>4, StandsEvents
     DEF FreedTextRuns, AllocFails, tops, counters, queue, history
<1>5. CASE thr_fun
  <2>1. UNCHANGED driver /\ thread # "none"
    BY <1>5
       DEF thr_fun, ThreadRead, ThreadClear, ThreadWait, ThreadCount,
           ThreadPrint, ThreadStopTest, ThreadEventsTest, ThreadInc, ThreadDec,
           ThreadWhile, At, life
  <2>2. driver \in Drivers /\ d.by = "thread" /\ d' = d
    BY <2>1, SameDriver, Amounts DEF EInv, LInv, BInv, TInv, Stands
  <2>3. ~CatchingUp'
    BY <2>2, Catcher DEF CatchingUp
  <2> QED
    BY <2>3 DEF EventComes
<1>6. CASE UNCHANGED vars
  BY <1>1, <1>6, StandsEvents DEF vars, life, tops, counters, queue, history
<1> QED
  BY <1>3, <1>4, <1>5, <1>6, EnterEvents, TopEvents, RunEvents, BottomEvents
     DEF Next, Runnable

LEMMA InitEInv ==
    ASSUME Init
    PROVE  EInv
<1>1. LInv
  BY InitLInv
<1>2. 1 \in Lines
  BY ConstantsAssumption DEF Lines
<1>3. top[1] = 0 /\ Len(stored) = 0 /\ counter_bh = 0 /\ nevents = 0
  BY <1>2 DEF Init
<1>4. CatchingUp => Waiting = 0
  <2>1. \A c \in Cpus : runner[c][2] = 0
    BY DEF Init
  <2>2. Taking = 0
    BY <2>1 DEF Init, Taking
  <2> QED
    BY <1>3, <2>2 DEF Waiting, CatchingUp
<1>5. EventComes
  BY <1>3, <1>4 DEF EventComes
<1> QED
  BY <1>1, <1>5 DEF EInv

\* lab3_one_tasklet_improved loses no event: those stored were counted or are in
\* nevents, and while one is, the tasklet is queued, has not ended its loop, or
\* is about to be queued, also when the loop ends just before the next event.
THEOREM EventIsNeverLost == Spec => []EventComes
<1>1. EInv => EventComes
  BY DEF EInv
<1> QED
  BY InitEInv, StepEInv, <1>1, PTL DEF Spec
=============================================================================
