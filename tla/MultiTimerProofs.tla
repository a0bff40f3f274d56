-------------------------- MODULE MultiTimerProofs --------------------------
(***************************************************************************)
(* lab2_multitimer of MultiTimer (own = TRUE), for any number of timers    *)
(* and of processes that write at the same time, and the types of both     *)
(* drivers.                                                                *)
(*                                                                         *)
(* The inductive invariant gives each live timer one holder: the write     *)
(* that sets it up, the wheel, or its function.  ntimers counts those and  *)
(* the functions that have freed theirs but not yet counted it out.        *)
(*                                                                         *)
(* 11_LAB2/MKtimer.c does not have these properties when several timers    *)
(* run at a time.  One at a time it has: its list is then in the order of  *)
(* expiry, and the head of the list is the timer whose function runs.      *)
(***************************************************************************)
EXTENDS MultiTimer, TLAPS, FiniteSetTheorems, SequenceTheorems

\* the timers in ntimers
Counted == {t \in Timers : heap[t] = "live" \/ func[t] = "dec"}

Shapes ==
    /\ list = <<>>
    /\ ntimers \in Int
    /\ heap \in [Timers \cup {ListHead} ->
                    {"unused", "live", "freed", "static", "corrupt"}]
    /\ armed \subseteq Timers
    /\ writer \in [Writers -> {"idle", "arm"} \X (Timers \cup {ListHead})]
    /\ func \in [Timers -> {"no", "take", "free", "dec", "print"}]
    /\ victim \in [Timers -> Timers \cup {ListHead}]

\* A write has a live timer of its own until it has started it.
WriterHolds ==
    /\ \A w \in Writers :
          IF Idle(w) THEN writer[w][2] = ListHead
          ELSE writer[w][2] \in Timers /\ heap[writer[w][2]] = "live"
    /\ \A w, v \in Writers :
          writer[w][2] = writer[v][2] /\ writer[w][2] # ListHead => w = v

WheelHolds ==
    \A t \in armed :
        /\ heap[t] = "live" /\ func[t] = "no"
        /\ \A w \in Writers : writer[w][2] # t

FuncHolds ==
    /\ \A t \in Timers :
          func[t] \in {"take", "free"} =>
              heap[t] = "live" /\ \A w \in Writers : writer[w][2] # t
    /\ \A t \in Timers : func[t] = "free" => victim[t] = t
    /\ \A t \in Timers : func[t] \in {"dec", "print"} => heap[t] = "freed"

NoneCorrupt == \A n \in Timers \cup {ListHead} : heap[n] # "corrupt"

SomebodyHolds ==
    \A t \in Timers :
        heap[t] = "live" =>
            \/ t \in armed
            \/ func[t] \in {"take", "free"}
            \/ \E w \in Writers : writer[w][2] = t

Count == ntimers = Cardinality(Counted)

GoneIsEmpty ==
    module = "freed" => ntimers = 0 /\ \A w \in Writers : Idle(w)

Held == Shapes /\ WriterHolds /\ WheelHolds /\ FuncHolds /\ NoneCorrupt
IInv == own => Held /\ SomebodyHolds /\ Count /\ GoneIsEmpty

\* The step of a driver with own = TRUE.
OwnNext ==
    \/ UNCHANGED vars
    \/ Register \/ Exit \/ FreedTextRuns
    \/ \E w \in Writers : WriteArm(w) \/ \E t \in Timers : WriteCall(w, t)
    \/ \E t \in Timers : Expire(t) \/ Func(t)

LEMMA OwnStays == [Next]_vars => own' = own
BY DEF Next, vars, Register, InitList, Exit, FreedTextRuns, Write, WriteCall,
       WriteAdd, WriteArm, Expire, Func, FuncTake, FuncFree, FuncDec,
       FuncReturn

LEMMA OwnSteps ==
    ASSUME own, Held, [Next]_vars
    PROVE  OwnNext \/ InitList
<1>1. \A w \in Writers : ~WriteAdd(w)
  BY DEF Held, Shapes, WriteAdd
<1> QED
  BY <1>1 DEF Next, OwnNext, Write

\* Writes, the wheel and the functions hand timers to each other, and nobody
\* else has them.
LEMMA HeldStays ==
    ASSUME own, Held, OwnNext \/ InitList
    PROVE  Held'
<1> USE ConstantsAssumption DEF Held
<1>1. CASE UNCHANGED <<list, ntimers, heap, armed, writer, func, victim>>
  BY <1>1 DEF Shapes, WriterHolds, WheelHolds, FuncHolds, NoneCorrupt, Idle
<1>2. CASE InitList
  <2>1. UNCHANGED <<list, ntimers, heap, armed, writer, func, victim>>
    BY <1>2 DEF InitList, Shapes
  <2> QED
    BY <1>1, <2>1
<1>3. ASSUME NEW w \in Writers, NEW t \in Timers, WriteCall(w, t)
      PROVE  Held'
  <2> USE <1>3 DEF Shapes, WriteCall, Idle
  <2>1. /\ heap' = [heap EXCEPT ![t] = "live"] /\ heap[t] = "unused"
        /\ writer' = [writer EXCEPT ![w] = <<"arm", t>>]
        /\ writer[w][1] = "idle"
        /\ UNCHANGED <<armed, func, victim>>
    OBVIOUS
  <2>2. \A v \in Writers : writer[v][2] # t
    BY <2>1 DEF WriterHolds
  <2>3. t \notin armed /\ func[t] = "no"
    BY <2>1 DEF WheelHolds, FuncHolds
  <2>4. Shapes'
    BY <2>1
  <2>5. WriterHolds'
    BY <2>1, <2>2 DEF WriterHolds
  <2>6. WheelHolds'
    BY <2>1, <2>3 DEF WheelHolds
  <2>7. FuncHolds'
    BY <2>1, <2>3 DEF FuncHolds
  <2>8. NoneCorrupt'
    BY <2>1 DEF NoneCorrupt
  <2> QED
    BY <2>4, <2>5, <2>6, <2>7, <2>8
<1>4. ASSUME NEW w \in Writers, WriteArm(w) PROVE Held'
  <2> DEFINE t == writer[w][2]
  <2> USE <1>4 DEF Shapes, WriteArm, Idle
  <2>1. /\ armed' = armed \cup {t} /\ t \in Timers /\ heap[t] = "live"
        /\ writer' = [writer EXCEPT ![w] = <<"idle", ListHead>>]
        /\ writer[w][1] = "arm"
        /\ UNCHANGED <<heap, func, victim>>
    BY DEF WriterHolds
  <2>2. \A v \in Writers \ {w} : writer[v][2] # t
    BY <2>1 DEF WriterHolds
  <2>3. func[t] = "no"
    BY <2>1 DEF FuncHolds
  <2> HIDE DEF t
  <2>4. Shapes'
    BY <2>1
  <2>5. WriterHolds'
    BY <2>1, <2>2 DEF WriterHolds
  <2>6. WheelHolds'
    BY <2>1, <2>2, <2>3 DEF WheelHolds
  <2>7. FuncHolds'
    BY <2>1, <2>3 DEF FuncHolds
  <2>8. NoneCorrupt'
    BY <2>1 DEF NoneCorrupt
  <2> QED
    BY <2>4, <2>5, <2>6, <2>7, <2>8
<1>5. ASSUME NEW t \in Timers, Expire(t) PROVE Held'
  <2> USE <1>5 DEF Shapes, Expire, Idle
  <2>1. /\ t \in armed /\ armed' = armed \ {t}
        /\ func' = [func EXCEPT ![t] = "take"]
        /\ UNCHANGED <<heap, writer, victim>>
    OBVIOUS
  <2>2. heap[t] = "live" /\ \A w \in Writers : writer[w][2] # t
    BY <2>1 DEF WheelHolds
  <2>3. Shapes'
    BY <2>1
  <2>4. WriterHolds'
    BY <2>1 DEF WriterHolds
  <2>5. WheelHolds'
    BY <2>1 DEF WheelHolds
  <2>6. FuncHolds'
    BY <2>1, <2>2 DEF FuncHolds
  <2>7. NoneCorrupt'
    BY <2>1 DEF NoneCorrupt
  <2> QED
    BY <2>3, <2>4, <2>5, <2>6, <2>7
<1>6. ASSUME NEW t \in Timers, FuncTake(t) PROVE Held'
  <2> USE <1>6 DEF Shapes, FuncTake, Idle
  <2>1. /\ victim' = [victim EXCEPT ![t] = t] /\ func[t] = "take"
        /\ func' = [func EXCEPT ![t] = "free"]
        /\ UNCHANGED <<heap, writer, armed>>
    OBVIOUS
  <2>2. Shapes'
    BY <2>1
  <2>3. WriterHolds' /\ NoneCorrupt'
    BY <2>1 DEF WriterHolds, NoneCorrupt
  <2>4. WheelHolds'
    BY <2>1 DEF WheelHolds
  <2>5. FuncHolds'
    BY <2>1 DEF FuncHolds
  <2> QED
    BY <2>2, <2>3, <2>4, <2>5
<1>7. ASSUME NEW t \in Timers, FuncFree(t) PROVE Held'
  <2> USE <1>7 DEF Shapes, FuncFree, kfree, Idle
  <2>1. /\ func[t] = "free" /\ victim[t] = t /\ heap[t] = "live"
        /\ \A w \in Writers : writer[w][2] # t
    BY DEF FuncHolds
  <2>2. /\ heap' = [heap EXCEPT ![t] = "freed"]
        /\ func' = [func EXCEPT ![t] = "dec"]
        /\ UNCHANGED <<list, writer, armed, victim, ntimers>>
    BY <2>1
  <2>3. t \notin armed
    BY <2>1 DEF WheelHolds
  <2>4. Shapes'
    BY <2>2
  <2>5. WriterHolds' /\ NoneCorrupt'
    BY <2>1, <2>2 DEF WriterHolds, NoneCorrupt
  <2>6. WheelHolds'
    BY <2>2, <2>3 DEF WheelHolds
  <2>7. FuncHolds'
    BY <2>1, <2>2 DEF FuncHolds
  <2> QED
    BY <2>4, <2>5, <2>6, <2>7
<1>8. ASSUME NEW t \in Timers, FuncDec(t) \/ FuncReturn(t) PROVE Held'
  <2> USE <1>8 DEF Shapes, FuncDec, FuncReturn, Idle
  <2>1. /\ func[t] \in {"dec", "print"}
        /\ \E to \in {"print", "no"} : func' = [func EXCEPT ![t] = to]
        /\ UNCHANGED <<heap, writer, armed, victim, list>>
    OBVIOUS
  <2> HIDE DEF Idle
  <2>2. heap[t] = "freed"
    BY <2>1 DEF FuncHolds
  <2>3. Shapes'
    <3>1. ntimers' \in Int
      <4>1. ntimers' = ntimers \/ ntimers' = ntimers - 1
        OBVIOUS
      <4> QED
        BY <4>1
    <3> QED
      BY <2>1, <3>1
  <2>4. WriterHolds' /\ NoneCorrupt'
    BY <2>1 DEF WriterHolds, NoneCorrupt, Idle
  <2>5. WheelHolds'
    BY <2>1, <2>2 DEF WheelHolds
  <2>6. FuncHolds'
    BY <2>1, <2>2 DEF FuncHolds
  <2> QED
    BY <2>3, <2>4, <2>5, <2>6
<1> QED
  BY <1>1, <1>2, <1>3, <1>4, <1>5, <1>6, <1>7, <1>8
     DEF OwnNext, vars, Func, Register, Exit, FreedTextRuns

\* Nobody drops a live timer.
LEMMA SomebodyHoldsStays ==
    ASSUME own, Held, SomebodyHolds, OwnNext \/ InitList
    PROVE  SomebodyHolds'
<1> USE ConstantsAssumption DEF Held, Shapes
<1>1. CASE UNCHANGED <<heap, armed, writer, func>>
  BY <1>1 DEF SomebodyHolds
<1>2. ASSUME NEW w \in Writers, NEW t \in Timers, WriteCall(w, t)
      PROVE  SomebodyHolds'
  <2>1. writer[w][2] = ListHead
    BY <1>2 DEF WriteCall, WriterHolds, Idle
  <2>2. /\ writer'[w][2] = t
        /\ \A v \in Writers \ {w} : writer'[v] = writer[v]
    BY <1>2 DEF WriteCall
  <2> QED
    BY <1>2, <2>1, <2>2 DEF WriteCall, SomebodyHolds
<1>3. ASSUME NEW w \in Writers, WriteArm(w) PROVE SomebodyHolds'
  <2>1. \A v \in Writers \ {w} : writer'[v] = writer[v]
    BY <1>3 DEF WriteArm
  <2> QED
    BY <1>3, <2>1 DEF WriteArm, SomebodyHolds
<1>4. ASSUME NEW t \in Timers, Expire(t) PROVE SomebodyHolds'
  BY <1>4 DEF Expire, SomebodyHolds
<1>5. ASSUME NEW t \in Timers, Func(t) PROVE SomebodyHolds'
  <2>1. CASE FuncFree(t)
    <3>1. victim[t] = t /\ heap[t] = "live"
      BY <2>1 DEF FuncFree, FuncHolds
    <3> QED
      BY <2>1, <3>1 DEF FuncFree, kfree, SomebodyHolds
  <2>2. CASE FuncTake(t)
    BY <2>2 DEF FuncTake, SomebodyHolds
  <2>3. CASE FuncDec(t) \/ FuncReturn(t)
    BY <2>3 DEF FuncDec, FuncReturn, SomebodyHolds
  <2> QED
    BY <1>5, <2>1, <2>2, <2>3 DEF Func
<1> QED
  BY <1>1, <1>2, <1>3, <1>4, <1>5
     DEF OwnNext, vars, Register, Exit, FreedTextRuns, InitList

LEMMA CountedIsFinite ==
    IsFiniteSet(Counted) /\ Cardinality(Counted) \in Nat
BY FS_Subset, FS_CardinalityType, ConstantsAssumption DEF Counted

\* ntimers counts the timers that are live or not yet counted out.
LEMMA CountStays ==
    ASSUME own, Held, Count, OwnNext \/ InitList
    PROVE  Count'
<1> USE ConstantsAssumption DEF Held, Shapes
<1>0. IsFiniteSet(Counted) /\ Cardinality(Counted) \in Nat
  BY CountedIsFinite
<1>1. CASE ntimers' = ntimers /\ Counted' = Counted
  BY <1>1 DEF Count
<1>2. ASSUME NEW w \in Writers, NEW t \in Timers, WriteCall(w, t)
      PROVE  Count'
  <2>1. t \notin Counted
    BY <1>2 DEF WriteCall, Counted, FuncHolds
  <2>2. Counted' = Counted \cup {t}
    BY <1>2 DEF WriteCall, Counted
  <2> QED
    BY <1>0, <1>2, <2>1, <2>2, FS_AddElement DEF WriteCall, Count
<1>3. ASSUME NEW t \in Timers, FuncFree(t)
      PROVE  ntimers' = ntimers /\ Counted' = Counted
  <2>1. victim[t] = t /\ heap[t] = "live"
    BY <1>3 DEF FuncFree, FuncHolds
  <2> QED
    BY <1>3, <2>1 DEF FuncFree, kfree, Counted
<1>4. ASSUME NEW t \in Timers, FuncDec(t) PROVE Count'
  <2>1. func[t] = "dec" /\ heap[t] = "freed"
    BY <1>4 DEF FuncDec, FuncHolds
  <2>2. t \in Counted /\ Counted' = Counted \ {t}
    BY <1>4, <2>1 DEF FuncDec, Counted
  <2> QED
    BY <1>0, <1>4, <2>2, FS_RemoveElement DEF FuncDec, Count
<1>5. ASSUME NEW t \in Timers, Expire(t) \/ FuncTake(t) \/ FuncReturn(t)
      PROVE  ntimers' = ntimers /\ Counted' = Counted
  <2>1. \E from, to \in {"no", "take", "free", "print"} :
           func[t] = from /\ func' = [func EXCEPT ![t] = to]
    <3>1. CASE Expire(t)
      BY <3>1 DEF Expire, WheelHolds
    <3>2. CASE FuncTake(t) \/ FuncReturn(t)
      BY <3>2 DEF FuncTake, FuncReturn
    <3> QED
      BY <1>5, <3>1, <3>2
  <2>2. UNCHANGED <<heap, ntimers>>
    BY <1>5 DEF Expire, FuncTake, FuncReturn
  <2> QED
    BY <2>1, <2>2 DEF Counted
<1>6. CASE UNCHANGED <<ntimers, heap, func>>
  BY <1>1, <1>6 DEF Counted
<1> QED
  BY <1>1, <1>2, <1>3, <1>4, <1>5, <1>6
     DEF OwnNext, vars, Func, Register, Exit, FreedTextRuns, InitList, WriteArm

\* The exit function returns when ntimers is 0, and after it nobody counts.
LEMMA GoneStays ==
    ASSUME own, Held, Count, GoneIsEmpty, OwnNext \/ InitList
    PROVE  GoneIsEmpty'
<1>1. CASE module = "freed" /\ OwnNext /\ module' = "freed"
  <2>1. ntimers = 0 /\ \A w \in Writers : Idle(w)
    BY <1>1 DEF GoneIsEmpty
  <2>2. UNCHANGED <<ntimers, writer>>
    BY <1>1, <2>1
       DEF OwnNext, vars, Register, Exit, FreedTextRuns, WriteCall, WriteArm,
           Expire, Func, FuncTake, FuncFree, FuncDec, FuncReturn, TextPresent
  <2> QED
    BY <2>1, <2>2 DEF GoneIsEmpty, Idle
<1>2. CASE Exit
  BY <1>2 DEF Exit, GoneIsEmpty, Idle
<1>3. CASE module' # "freed"
  BY <1>3 DEF GoneIsEmpty
<1> QED
  BY <1>1, <1>2, <1>3
     DEF OwnNext, vars, Register, InitList, FreedTextRuns, WriteCall, WriteArm,
         Expire, Func, FuncTake, FuncFree, FuncDec, FuncReturn

-----------------------------------------------------------------------------

LEMMA InitIInv == Init => IInv
<1> SUFFICES ASSUME Init, own PROVE IInv
  BY DEF IInv
<1>1. Shapes
  BY DEF Init, Shapes
<1>2. WriterHolds /\ WheelHolds /\ FuncHolds
  BY ConstantsAssumption DEF Init, WriterHolds, WheelHolds, FuncHolds, Idle
<1>3. NoneCorrupt /\ SomebodyHolds /\ GoneIsEmpty
  BY ConstantsAssumption DEF Init, NoneCorrupt, SomebodyHolds, GoneIsEmpty
<1>4. Count
  <2>1. Counted = {}
    BY ConstantsAssumption DEF Init, Counted
  <2> QED
    BY <2>1, FS_EmptySet DEF Init, Count
<1> QED
  BY <1>1, <1>2, <1>3, <1>4 DEF IInv, Held

LEMMA NextIInv == IInv /\ [Next]_vars => IInv'
<1> SUFFICES ASSUME IInv, [Next]_vars PROVE IInv'
  OBVIOUS
<1>1. CASE ~own
  BY <1>1, OwnStays DEF IInv
<1>2. CASE own
  BY <1>2, OwnSteps, HeldStays, SomebodyHoldsStays, CountStays, GoneStays
     DEF IInv
<1> QED
  BY <1>1, <1>2

LEMMA Invariance == Spec => []IInv
BY InitIInv, NextIInv, PTL DEF Spec

\* In lab2_multitimer no timer is freed twice, in the wheel, or in the hands of
\* the write that sets it up, for any number of timers and writers.
THEOREM OwnIsFreedOnce == Spec => [](own => NoUseAfterFree)
<1>1. IInv => (own => NoUseAfterFree)
  <2> SUFFICES ASSUME Held PROVE NoUseAfterFree
    BY DEF IInv
  <2> USE DEF Held
  <2>1. \A n \in Timers \cup {ListHead} : heap[n] # "corrupt"
    BY DEF NoneCorrupt
  <2>2. ASSUME NEW t \in Timers, heap[t] = "freed"
        PROVE  /\ t \notin armed
               /\ \A i \in DOMAIN list : list[i] # t
               /\ \A w \in Writers : writer[w][2] # t
    <3>1. t \notin armed
      BY <2>2 DEF WheelHolds
    <3>2. \A i \in DOMAIN list : list[i] # t
      BY DEF Shapes
    <3>3. \A w \in Writers : writer[w][2] # t
      BY <2>2, ConstantsAssumption DEF WriterHolds
    <3> QED
      BY <3>1, <3>2, <3>3
  <2> QED
    BY <2>1, <2>2 DEF NoUseAfterFree
<1> QED
  BY <1>1, Invariance, PTL

\* When my_exit of lab2_multitimer has returned every timer is freed, none is in
\* the wheel, and of the functions only the last line can still be running.
THEOREM OwnUnloadWaits == Spec => []UnloadWaits
<1>1. IInv => UnloadWaits
  <2> SUFFICES ASSUME IInv, own, module = "freed"
               PROVE  /\ armed = {}
                      /\ \A t \in Timers : /\ heap[t] # "live"
                                           /\ func[t] \in {"no", "print"}
    BY DEF UnloadWaits
  <2>1. Counted = {}
    BY CountedIsFinite, FS_EmptySet DEF IInv, GoneIsEmpty, Count
  <2>2. \A t \in Timers : heap[t] # "live" /\ func[t] # "dec"
    BY <2>1 DEF Counted
  <2>3. armed = {}
    BY <2>2 DEF IInv, Held, WheelHolds, Shapes
  <2>4. \A t \in Timers : func[t] \in {"no", "print"}
    BY <2>2 DEF IInv, Held, FuncHolds, Shapes
  <2> QED
    BY <2>2, <2>3, <2>4
<1> QED
  BY <1>1, Invariance, PTL
-----------------------------------------------------------------------------
(* The types, of both drivers. *)

\* What is known of both, besides what IInv says of the solution: the
\* laboratory counts nothing, and a write that is under way has a timer.
Typing ==
    /\ own \in Own
    /\ module \in {"out", "registered", "in", "freed", "failed", "oops"}
    /\ list \in Seq(Timers) /\ due \in Seq(Timers)
    /\ heap \in [Timers \cup {ListHead} ->
                    {"unused", "live", "freed", "static", "corrupt"}]
    /\ armed \subseteq Timers
    /\ writer \in [Writers ->
                      {"idle", "add", "arm"} \X (Timers \cup {ListHead})]
    /\ func \in [Timers -> {"no", "take", "free", "dec", "print"}]
    /\ victim \in [Timers -> Timers \cup {ListHead}]

Uncounted ==
    ~own => ntimers = 0 /\ \A t \in Timers : func[t] # "dec"

WriteHasTimer == \A w \in Writers : ~Idle(w) => writer[w][2] \in Timers

TypeInv == Typing /\ Uncounted /\ WriteHasTimer

LEMMA InitTypeInv == Init => TypeInv
BY DEF Init, TypeInv, Typing, Uncounted, WriteHasTimer, Idle

LEMMA NextTypeInv == TypeInv /\ [Next]_vars => TypeInv'
<1> SUFFICES ASSUME TypeInv, [Next]_vars PROVE TypeInv'
  OBVIOUS
<1> USE DEF TypeInv, Typing
<1>1. CASE UNCHANGED vars
  BY <1>1 DEF vars, Uncounted, WriteHasTimer, Idle
<1>2. CASE Register \/ InitList \/ Exit \/ FreedTextRuns
  <2>1. /\ UNCHANGED <<own, ntimers, heap, due, armed, writer, func, victim>>
        /\ list' = list \/ list' = <<>>
        /\ module' \in {"out", "registered", "in", "freed", "failed", "oops"}
    BY <1>2 DEF Register, InitList, Exit, FreedTextRuns
  <2>2. list' \in Seq(Timers)
    <3>1. list' = list \/ list' = <<>>
      BY <2>1
    <3> QED
      BY <3>1, EmptySeq
  <2> QED
    BY <2>1, <2>2 DEF Uncounted, WriteHasTimer, Idle
<1>3. ASSUME NEW w \in Writers, NEW t \in Timers, WriteCall(w, t)
      PROVE  TypeInv'
  <2>1. Typing'
    BY <1>3 DEF WriteCall
  <2>2. Uncounted'
    BY <1>3 DEF WriteCall, Uncounted
  <2>3. WriteHasTimer'
    BY <1>3 DEF WriteCall, WriteHasTimer, Idle
  <2> QED
    BY <2>1, <2>2, <2>3
<1>4. ASSUME NEW w \in Writers, WriteAdd(w) PROVE TypeInv'
  <2>1. writer[w][2] \in Timers
    BY <1>4 DEF WriteAdd, WriteHasTimer, Idle
  <2>2. Typing'
    <3>1. list' \in Seq(Timers)
      <4>1. list' = Append(list, writer[w][2]) \/ list' = list
        BY <1>4 DEF WriteAdd
      <4>2. Append(list, writer[w][2]) \in Seq(Timers)
        BY <2>1, AppendProperties
      <4> QED
        BY <4>1, <4>2
    <3>2. /\ writer' = [writer EXCEPT ![w] = <<"arm", writer[w][2]>>]
          /\ module' \in {module, "oops"}
          /\ UNCHANGED <<own, heap, due, armed, func, victim>>
      BY <1>4 DEF WriteAdd
    <3> QED
      BY <2>1, <3>1, <3>2
  <2>3. Uncounted'
    BY <1>4 DEF WriteAdd, Uncounted
  <2>4. WriteHasTimer'
    BY <1>4, <2>1 DEF WriteAdd, WriteHasTimer, Idle
  <2> QED
    BY <2>2, <2>3, <2>4
<1>5. ASSUME NEW w \in Writers, WriteArm(w) PROVE TypeInv'
  <2>1. writer[w][2] \in Timers
    BY <1>5 DEF WriteArm, WriteHasTimer, Idle
  <2>2. Typing'
    BY <1>5, <2>1 DEF WriteArm
  <2>3. Uncounted'
    BY <1>5 DEF WriteArm, Uncounted
  <2>4. WriteHasTimer'
    BY <1>5 DEF WriteArm, WriteHasTimer, Idle
  <2> QED
    BY <2>2, <2>3, <2>4
<1>6. ASSUME NEW t \in Timers, Expire(t) PROVE TypeInv'
  BY <1>6 DEF Expire, Uncounted, WriteHasTimer, Idle
<1>7. ASSUME NEW t \in Timers, FuncTake(t) PROVE TypeInv'
  <2>1. list # <<>> => list[1] \in Timers
    OBVIOUS
  <2>2. Typing'
    BY <1>7, <2>1 DEF FuncTake
  <2> QED
    BY <1>7, <2>2 DEF FuncTake, Uncounted, WriteHasTimer, Idle
<1>8. ASSUME NEW t \in Timers, FuncFree(t) PROVE TypeInv'
  <2>1. list' \in Seq(Timers)
    <3>1. \/ list' = list
          \/ list # <<>> /\ list' = Tail(list)
      <4>1. list' = IF own \/ list = <<>> THEN list ELSE Tail(list)
        BY <1>8 DEF FuncFree
      <4> QED
        BY <4>1
    <3>2. list # <<>> => Tail(list) \in Seq(Timers)
      BY HeadTailProperties
    <3> QED
      BY <3>1, <3>2
  <2>2. heap' \in [Timers \cup {ListHead} ->
                     {"unused", "live", "freed", "static", "corrupt"}]
    <3>1. kfree(victim[t]) \in
             [Timers \cup {ListHead} ->
                 {"unused", "live", "freed", "static", "corrupt"}]
      BY DEF kfree
    <3>2. \/ heap' = kfree(victim[t])
          \/ heap' = [kfree(victim[t]) EXCEPT ![ListHead] = "corrupt"]
      BY <1>8 DEF FuncFree
    <3> QED
      BY <3>1, <3>2
  <2>3. /\ func' = [func EXCEPT ![t] = IF own THEN "dec" ELSE "no"]
        /\ UNCHANGED <<own, module, ntimers, due, armed, writer, victim>>
    BY <1>8 DEF FuncFree
  <2> QED
    BY <2>1, <2>2, <2>3 DEF Uncounted, WriteHasTimer, Idle
<1>9. ASSUME NEW t \in Timers, FuncDec(t) \/ FuncReturn(t) PROVE TypeInv'
  <2>1. /\ \E to \in {"print", "no"} : func' = [func EXCEPT ![t] = to]
        /\ UNCHANGED <<own, module, list, heap, due, armed, writer, victim>>
    BY <1>9 DEF FuncDec, FuncReturn
  <2>2. Uncounted'
    BY <1>9 DEF FuncDec, FuncReturn, Uncounted
  <2> QED
    BY <2>1, <2>2 DEF WriteHasTimer, Idle
<1> QED
  BY <1>1, <1>2, <1>3, <1>4, <1>5, <1>6, <1>7, <1>8, <1>9
     DEF Next, Write, Func

\* The state of both drivers has its type: what list_del leaves is a list of
\* timers, and ntimers is between 0 and the number of allocations there are.
THEOREM TypeCorrect == Spec => []TypeOK
<1>1. Spec => []TypeInv
  BY InitTypeInv, NextTypeInv, PTL DEF Spec
<1>2. TypeInv /\ IInv => TypeOK
  <2> SUFFICES ASSUME TypeInv, IInv PROVE TypeOK
    OBVIOUS
  <2>1. Cardinality(Timers) \in Nat
    BY FS_CardinalityType, ConstantsAssumption
  <2>2. ntimers \in 0 .. Cardinality(Timers)
    <3>1. CASE own
      <4>1. Cardinality(Counted) <= Cardinality(Timers)
        BY FS_Subset, ConstantsAssumption DEF Counted
      <4> QED
        BY <2>1, <3>1, <4>1, CountedIsFinite DEF IInv, Count
    <3>2. CASE ~own
      BY <2>1, <3>2 DEF TypeInv, Uncounted
    <3> QED
      BY <3>1, <3>2
  <2> QED
    BY <2>2 DEF TypeInv, Typing, TypeOK
<1> QED
  BY <1>1, <1>2, Invariance, PTL
-----------------------------------------------------------------------------
(* The laboratory, one thing at a time *)

\* the timers on the list
Listed == {list[i] : i \in DOMAIN list}

\* Timer s read jiffies before timer t.
Before(s, t) == \E i, j \in DOMAIN due : i < j /\ due[i] = s /\ due[j] = t

\* Of the writes and functions one at most is under way.
OneAtATime ==
    /\ \A w, v \in Writers : ~Idle(w) /\ ~Idle(v) => w = v
    /\ \A w \in Writers, t \in Timers : Idle(w) \/ func[t] = "no"
    /\ \A t, u \in Timers : func[t] # "no" /\ func[u] # "no" => t = u

\* Before the list has its head nothing is on it or on its way to it.
NotBegun ==
    module \in {"out", "registered"} =>
        /\ list = <<>>
        /\ \A w \in Writers : Idle(w)
        /\ \A t \in Timers : func[t] = "no"

\* The list is in the order of expiry.
ListInOrder ==
    /\ Listed \subseteq {due[i] : i \in DOMAIN due}
    /\ \A i, j \in DOMAIN list :
          i < j => list[i] # list[j] /\ Before(list[i], list[j])

\* A write takes its timer from the heap to the end of the list, then to the
\* wheel, and
WriterLists ==
    \A w \in Writers :
        IF Idle(w) THEN writer[w][2] = ListHead
        ELSE /\ writer[w][2] \in Timers \ armed
             /\ heap[writer[w][2]] = "live"
             /\ \E i \in DOMAIN due : due[i] = writer[w][2]
             /\ IF writer[w][1] = "add"
                  THEN /\ writer[w][2] \notin Listed
                       /\ \A i \in DOMAIN list : Before(list[i], writer[w][2])
                  ELSE writer[w][2] \in Listed

\* its function finds it at the head of the list.
FuncFindsItself ==
    \A t \in Timers :
        /\ func[t] \in {"no", "take", "free"}
        /\ func[t] # "no" => t \notin armed /\ list # <<>> /\ list[1] = t
        /\ func[t] = "free" => victim[t] = t

\* Each timer on the list is live, and in the wheel but for the one that is
\* being started or whose function runs.
ListHolds ==
    /\ armed \subseteq Listed
    /\ \A t \in Listed :
          /\ heap[t] = "live"
          /\ \/ t \in armed
             \/ func[t] # "no"
             \/ \E w \in Writers : writer[w][2] = t

\* No timer is dropped on the way.
ListKeeps ==
    \A t \in Timers :
        heap[t] = "live" => t \in Listed \/ \E w \in Writers : writer[w][2] = t

SerialInv ==
    /\ OneAtATime /\ NotBegun /\ ListInOrder /\ WriterLists
    /\ FuncFindsItself /\ ListHolds /\ ListKeeps /\ NoneCorrupt

SInv == ~own => SerialInv

LEMMA AloneBegins ==
    ASSUME ~own, FALSE \in Serial, Typing, MayBegin
    PROVE  /\ \A w \in Writers : Idle(w)
           /\ \A t \in Timers : func[t] = "no"
           /\ module # "registered"
<1>1. own = FALSE
  BY Zenon, ConstantsAssumption DEF Typing
<1>2. own \in Serial
  BY <1>1, Zenon
<1> QED
  BY <1>2 DEF MayBegin, Running

\* jiffies is read once more.
LEMMA BeforeGrows ==
    ASSUME Typing, NEW t \in Timers, due' = Append(due, t)
    PROVE  /\ \A s, u : Before(s, u) => Before(s, u)'
           /\ \A s \in {due[i] : i \in DOMAIN due} : Before(s, t)'
           /\ \A i \in DOMAIN due : i \in DOMAIN due' /\ due'[i] = due[i]
           /\ \E i \in DOMAIN due' : due'[i] = t
<1>1. /\ Len(due) \in Nat /\ Len(due') = Len(due) + 1
      /\ DOMAIN due = 1 .. Len(due) /\ DOMAIN due' = 1 .. Len(due')
      /\ \A i \in DOMAIN due : due'[i] = due[i]
      /\ due'[Len(due) + 1] = t
  BY DEF Typing
<1>2. \A i \in DOMAIN due : i \in DOMAIN due' /\ i < Len(due) + 1
  BY <1>1
<1>3. Len(due) + 1 \in DOMAIN due'
  BY <1>1
<1> QED
  BY <1>1, <1>2, <1>3 DEF Before

\* A list that has grown at its end
LEMMA ListGrows ==
    ASSUME Typing, NEW t \in Timers, list' = Append(list, t)
    PROVE  /\ Listed' = Listed \cup {t}
           /\ \A i \in DOMAIN list' :
                 \/ i \in DOMAIN list /\ list'[i] = list[i]
                 \/ list'[i] = t /\ \A j \in DOMAIN list' : j <= i
<1>1. /\ Len(list) \in Nat
      /\ DOMAIN list = 1 .. Len(list) /\ DOMAIN list' = 1 .. Len(list) + 1
      /\ \A i \in DOMAIN list : list'[i] = list[i]
      /\ list'[Len(list) + 1] = t
  BY DEF Typing
<1>2. \A i \in DOMAIN list' : i \in DOMAIN list \/ i = Len(list) + 1
  BY <1>1
<1>3. DOMAIN list \subseteq DOMAIN list' /\ Len(list) + 1 \in DOMAIN list'
  BY <1>1
<1>4. \A j \in DOMAIN list' : j <= Len(list) + 1
  BY <1>1
<1>5. Listed' = Listed \cup {t}
  BY <1>1, <1>2, <1>3 DEF Listed
<1> QED
  BY <1>1, <1>2, <1>4, <1>5

\* A list without its first
LEMMA ListShrinks ==
    ASSUME Typing, ListInOrder, list # <<>>, list' = Tail(list)
    PROVE  /\ list[1] \in Listed
           /\ Listed' = Listed \ {list[1]}
           /\ \A i \in DOMAIN list' :
                 i \in Int /\ i + 1 \in DOMAIN list /\ list'[i] = list[i + 1]
<1>1. /\ Len(list) \in Nat \ {0}
      /\ DOMAIN list = 1 .. Len(list) /\ DOMAIN list' = 1 .. Len(list) - 1
      /\ \A i \in 1 .. Len(list) - 1 : list'[i] = list[i + 1]
  BY DEF Typing
<1>2. \A i \in DOMAIN list : i # 1 => i - 1 \in DOMAIN list' /\ list'[i - 1] = list[i]
  <2> SUFFICES ASSUME NEW i \in DOMAIN list, i # 1
               PROVE  i - 1 \in DOMAIN list' /\ list'[i - 1] = list[i]
    OBVIOUS
  <2>1. i - 1 \in 1 .. Len(list) - 1 /\ (i - 1) + 1 = i
    BY <1>1
  <2> QED
    BY <1>1, <2>1
<1>3. \A i \in DOMAIN list' : i \in Int /\ i + 1 \in DOMAIN list /\ 1 < i + 1
  BY <1>1
<1>4. 1 \in DOMAIN list
  BY <1>1
<1>5. \A i \in DOMAIN list : i # 1 => list[i] # list[1]
  <2>1. \A i \in DOMAIN list : i # 1 => 1 < i
    BY <1>1
  <2> QED
    BY <1>4, <2>1 DEF ListInOrder
<1>6. Listed' \subseteq Listed \ {list[1]}
  BY <1>1, <1>3, <1>5 DEF Listed
<1>7. Listed \ {list[1]} \subseteq Listed'
  <2> SUFFICES ASSUME NEW i \in DOMAIN list, list[i] # list[1]
               PROVE  \E j \in DOMAIN list' : list'[j] = list[i]
    BY DEF Listed
  <2> QED
    BY <1>2
<1> QED
  BY <1>1, <1>3, <1>4, <1>6, <1>7 DEF Listed

\* A write and a function of MKtimer, each alone
LEMMA SerialStays ==
    ASSUME ~own, FALSE \in Serial, TypeInv, TypeInv', SerialInv, [Next]_vars
    PROVE  SerialInv'
<1> USE DEF TypeInv, SerialInv
<1>1. CASE UNCHANGED <<list, heap, due, armed, writer, func, victim>>
           /\ (module' \in {"out", "registered"} =>
                  module \in {"out", "registered"})
  <2>1. /\ Listed' = Listed
        /\ \A w \in Writers : Idle(w)' <=> Idle(w)
        /\ \A s, u : Before(s, u)' <=> Before(s, u)
    BY <1>1 DEF Listed, Idle, Before
  <2> QED
    BY <1>1, <2>1 DEF OneAtATime, NotBegun, ListInOrder, WriterLists,
                      FuncFindsItself, ListHolds, ListKeeps, NoneCorrupt
<1>2. CASE Register \/ Exit \/ FreedTextRuns
  BY <1>1, <1>2 DEF Register, Exit, FreedTextRuns
<1>3. CASE InitList
  BY <1>1, <1>3 DEF InitList, NotBegun
<1>4. ASSUME NEW w \in Writers, NEW t \in Timers, WriteCall(w, t)
      PROVE  SerialInv'
  <2>1. /\ \A v \in Writers : Idle(v) /\ writer[v][2] = ListHead
        /\ \A u \in Timers : func[u] = "no"
        /\ module = "in" /\ module' = "in"
    BY <1>4, AloneBegins DEF WriteCall, WriterLists
  <2>2. /\ heap' = [heap EXCEPT ![t] = "live"] /\ heap[t] = "unused"
        /\ due' = Append(due, t)
        /\ writer' = [writer EXCEPT ![w] = <<"add", t>>]
        /\ UNCHANGED <<list, armed, func, victim>>
    BY <1>4 DEF WriteCall
  <2>3. /\ Idle(w)' = FALSE /\ writer'[w] = <<"add", t>>
        /\ \A v \in Writers \ {w} : Idle(v)' /\ writer'[v][2] = ListHead
    BY <2>1, <2>2 DEF Idle, Typing
  <2>4. Listed' = Listed /\ t \notin Listed /\ t \notin armed
    BY <2>2 DEF Listed, ListHolds
  <2>5. OneAtATime' /\ NotBegun'
    BY <2>1, <2>2, <2>3 DEF OneAtATime, NotBegun
  <2>6. /\ \A s, u : Before(s, u) => Before(s, u)'
        /\ \A s \in {due[i] : i \in DOMAIN due} : Before(s, t)'
        /\ \A i \in DOMAIN due : i \in DOMAIN due' /\ due'[i] = due[i]
        /\ \E i \in DOMAIN due' : due'[i] = t
    BY <2>2, BeforeGrows
  <2>7. ListInOrder'
    BY <2>2, <2>4, <2>6 DEF ListInOrder
  <2>8. \A i \in DOMAIN list' : Before(list[i], t)'
    <3>1. \A s \in Listed : Before(s, t)'
      BY <2>6 DEF ListInOrder
    <3> QED
      BY <2>2, <3>1 DEF Listed
  <2>9. WriterLists'
    BY <2>2, <2>3, <2>4, <2>6, <2>8 DEF WriterLists, Typing
  <2>10. FuncFindsItself' /\ NoneCorrupt'
    BY <2>1, <2>2 DEF FuncFindsItself, NoneCorrupt, Typing
  <2>11. ListHolds'
    BY <2>1, <2>2, <2>4, ConstantsAssumption DEF ListHolds, Typing, Listed
  <2>12. ListKeeps'
    BY <2>1, <2>2, <2>3, <2>4, ConstantsAssumption DEF ListKeeps, Typing
  <2> QED
    BY <2>5, <2>7, <2>9, <2>10, <2>11, <2>12
<1>5. ASSUME NEW w \in Writers, WriteAdd(w) PROVE SerialInv'
  <2> DEFINE t == writer[w][2]
  <2>1. /\ writer[w][1] = "add" /\ ~Idle(w)
        /\ t \in Timers \ armed /\ heap[t] = "live" /\ t \notin Listed
        /\ \E i \in DOMAIN due : due[i] = t
        /\ \A i \in DOMAIN list : Before(list[i], t)
    BY <1>5 DEF WriteAdd, WriterLists, Idle
  <2>2. module \notin {"out", "registered"}
    BY <2>1 DEF NotBegun
  <2>3. /\ list' = Append(list, t)
        /\ writer' = [writer EXCEPT ![w] = <<"arm", t>>]
        /\ UNCHANGED <<module, heap, due, armed, func, victim>>
    BY <1>5, <2>2 DEF WriteAdd
  <2>4. /\ \A u \in Timers : func[u] = "no"
        /\ \A v \in Writers \ {w} : Idle(v) /\ writer[v][2] = ListHead
    BY <2>1 DEF OneAtATime, WriterLists
  <2>5. /\ Idle(w)' = FALSE /\ writer'[w] = <<"arm", t>>
        /\ \A v \in Writers \ {w} : Idle(v)' /\ writer'[v][2] = ListHead
    BY <2>3, <2>4 DEF Idle, Typing
  <2> HIDE DEF t
  <2>6. /\ Listed' = Listed \cup {t}
        /\ \A i \in DOMAIN list' :
              \/ i \in DOMAIN list /\ list'[i] = list[i]
              \/ list'[i] = t /\ \A j \in DOMAIN list' : j <= i
    BY <2>1, <2>3, ListGrows
  <2>7. \A s, u : Before(s, u)' <=> Before(s, u)
    BY <2>3 DEF Before
  <2>8. OneAtATime' /\ NotBegun'
    BY <2>2, <2>3, <2>4, <2>5 DEF OneAtATime, NotBegun
  <2>9. ListInOrder'
    <3>1. Listed' \subseteq {due'[i] : i \in DOMAIN due'}
      BY <2>1, <2>3, <2>6 DEF ListInOrder
    <3>2. ASSUME NEW i \in DOMAIN list', NEW j \in DOMAIN list', i < j
          PROVE  list'[i] # list'[j] /\ Before(list'[i], list'[j])
      <4>1. i \in Int /\ j \in Int
        BY <2>3 DEF Typing
      <4>2. i \in DOMAIN list /\ list'[i] = list[i]
        BY <2>6, <3>2, <4>1
      <4>3. CASE list'[j] = t
        BY <2>1, <4>2, <4>3 DEF Listed
      <4>4. CASE j \in DOMAIN list /\ list'[j] = list[j]
        BY <3>2, <4>2, <4>4 DEF ListInOrder
      <4> QED
        BY <2>6, <4>3, <4>4
    <3> QED
      BY <2>7, <3>1, <3>2 DEF ListInOrder
  <2>10. WriterLists'
    BY <2>1, <2>3, <2>5, <2>6 DEF WriterLists
  <2>11. FuncFindsItself' /\ NoneCorrupt'
    BY <2>3, <2>4 DEF FuncFindsItself, NoneCorrupt
  <2>12. ListHolds'
    <3>1. armed' \subseteq Listed'
      BY <2>3, <2>6 DEF ListHolds
    <3>2. heap'[t] = "live" /\ writer'[w][2] = t
      BY <2>1, <2>3, <2>5
    <3>3. ASSUME NEW u \in Listed, u # t
          PROVE  heap'[u] = "live" /\ u \in armed'
      <4>1. u \in Timers
        BY DEF Listed, Typing
      <4>2. func[u] = "no" /\ \A v \in Writers : writer[v][2] # u
        BY <2>4, <3>3, <4>1, ConstantsAssumption DEF t
      <4> QED
        BY <2>3, <4>2 DEF ListHolds
    <3> QED
      BY <2>6, <3>1, <3>2, <3>3 DEF ListHolds
  <2>13. ListKeeps'
    BY <2>1, <2>3, <2>4, <2>6, ConstantsAssumption DEF ListKeeps, t
  <2> QED
    BY <2>8, <2>9, <2>10, <2>11, <2>12, <2>13
<1>6. ASSUME NEW w \in Writers, WriteArm(w) PROVE SerialInv'
  <2> DEFINE t == writer[w][2]
  <2>1. /\ writer[w][1] = "arm" /\ ~Idle(w)
        /\ t \in Timers \ armed /\ heap[t] = "live" /\ t \in Listed
    BY <1>6 DEF WriteArm, WriterLists, Idle
  <2>2. /\ armed' = armed \cup {t}
        /\ writer' = [writer EXCEPT ![w] = <<"idle", ListHead>>]
        /\ UNCHANGED <<module, heap, due, list, func, victim>>
    BY <1>6 DEF WriteArm
  <2>3. /\ \A u \in Timers : func[u] = "no"
        /\ \A v \in Writers \ {w} : Idle(v) /\ writer[v][2] = ListHead
    BY <2>1 DEF OneAtATime, WriterLists
  <2>4. /\ \A v \in Writers : Idle(v)' /\ writer'[v][2] = ListHead
    BY <2>2, <2>3 DEF Idle, Typing
  <2>5. \A v \in Writers, u \in Timers : writer[v][2] = u => u = t
    BY <2>3, ConstantsAssumption
  <2> HIDE DEF t
  <2>6. Listed' = Listed /\ \A s, u : Before(s, u)' <=> Before(s, u)
    BY <2>2 DEF Before, Listed
  <2>7. OneAtATime' /\ NotBegun'
    BY <2>2, <2>3, <2>4 DEF OneAtATime, NotBegun
  <2>8. ListInOrder' /\ WriterLists'
    BY <2>2, <2>4, <2>6 DEF ListInOrder, WriterLists
  <2>9. FuncFindsItself' /\ NoneCorrupt'
    BY <2>2, <2>3 DEF FuncFindsItself, NoneCorrupt
  <2>10. Listed \subseteq Timers
    BY DEF Listed, Typing
  <2>11. ListHolds'
    BY <2>1, <2>2, <2>5, <2>6, <2>10 DEF ListHolds
  <2>12. ListKeeps'
    BY <2>1, <2>2, <2>5, <2>6 DEF ListKeeps
  <2> QED
    BY <2>7, <2>8, <2>9, <2>11, <2>12
<1>7. ASSUME NEW t \in Timers, Expire(t) PROVE SerialInv'
  <2>1. /\ \A v \in Writers : Idle(v) /\ writer[v][2] = ListHead
        /\ \A u \in Timers : func[u] = "no"
    BY <1>7, AloneBegins DEF Expire, WriterLists
  <2>2. /\ t \in armed /\ armed' = armed \ {t}
        /\ func' = [func EXCEPT ![t] = "take"]
        /\ UNCHANGED <<module, heap, due, list, writer, victim>>
        /\ \A i, j \in DOMAIN due : due[i] \in armed /\ due[j] = t => j <= i
    BY <1>7 DEF Expire
  <2>3. Listed \subseteq armed
    <3>1. Listed \subseteq Timers
      BY DEF Listed, Typing
    <3> QED
      BY <2>1, <3>1, ConstantsAssumption DEF ListHolds
  \* the first on the list is in the wheel and expires first
  <2>4. list # <<>> /\ list[1] = t
    <3>1. PICK j \in DOMAIN list : list[j] = t
      BY <2>2 DEF ListHolds, Listed
    <3>2. 1 \in DOMAIN list /\ 1 <= j /\ j \in Int
      BY <3>1 DEF Typing
    <3>3. list # <<>>
      BY <3>2
    <3>4. CASE 1 < j
      <4>1. Before(list[1], t) /\ list[1] \in armed
        BY <2>3, <3>1, <3>2, <3>4 DEF ListInOrder, Listed
      <4>2. PICK i, k \in DOMAIN due : i < k /\ due[i] = list[1] /\ due[k] = t
        BY <4>1 DEF Before
      <4>3. k <= i /\ i \in Int /\ k \in Int
        BY <2>2, <4>1, <4>2 DEF Typing
      <4> QED
        BY <4>2, <4>3
    <3> QED
      BY <3>1, <3>2, <3>3, <3>4
  <2>5. Listed' = Listed /\ \A s, u : Before(s, u)' <=> Before(s, u)
    BY <2>2 DEF Before, Listed
  <2>6. \A v \in Writers : Idle(v)'
    BY <2>1, <2>2 DEF Idle
  <2>7. /\ func'[t] = "take"
        /\ \A u \in Timers \ {t} : func'[u] = "no"
    BY <2>1, <2>2 DEF Typing
  <2>8. OneAtATime'
    BY <2>6, <2>7 DEF OneAtATime
  <2>9. NotBegun'
    BY <2>2, <2>4 DEF NotBegun
  <2>10. ListInOrder' /\ WriterLists' /\ NoneCorrupt'
    BY <2>1, <2>2, <2>5, <2>6 DEF ListInOrder, WriterLists, NoneCorrupt
  <2>11. FuncFindsItself'
    BY <2>2, <2>4, <2>7 DEF FuncFindsItself
  <2>12. ListHolds'
    BY <2>2, <2>3, <2>5, <2>7 DEF ListHolds
  <2>13. ListKeeps'
    BY <2>2, <2>5 DEF ListKeeps
  <2> QED
    BY <2>8, <2>9, <2>10, <2>11, <2>12, <2>13
<1>8. ASSUME NEW t \in Timers, FuncTake(t) PROVE SerialInv'
  <2>1. func[t] = "take" /\ t \notin armed /\ list # <<>> /\ list[1] = t
    BY <1>8 DEF FuncTake, FuncFindsItself
  <2>2. /\ victim' = [victim EXCEPT ![t] = t]
        /\ func' = [func EXCEPT ![t] = "free"]
        /\ UNCHANGED <<module, heap, due, list, writer, armed>>
    BY <1>8, <2>1 DEF FuncTake
  <2>3. \A u \in Timers : (func'[u] = "no" <=> func[u] = "no")
    BY <2>1, <2>2 DEF Typing
  <2>4. /\ Listed' = Listed
        /\ \A v \in Writers : Idle(v)' <=> Idle(v)
        /\ \A s, u : Before(s, u)' <=> Before(s, u)
    BY <2>2 DEF Before, Listed, Idle
  <2>5. OneAtATime' /\ NotBegun'
    BY <2>2, <2>3, <2>4 DEF OneAtATime, NotBegun
  <2>6. ListInOrder' /\ WriterLists' /\ NoneCorrupt' /\ ListKeeps'
    BY <2>2, <2>4 DEF ListInOrder, WriterLists, NoneCorrupt, ListKeeps
  <2>7. FuncFindsItself'
    BY <2>1, <2>2 DEF FuncFindsItself, Typing
  <2>8. Listed \subseteq Timers
    BY DEF Listed, Typing
  <2>9. ListHolds'
    BY <2>2, <2>3, <2>4, <2>8 DEF ListHolds
  <2> QED
    BY <2>5, <2>6, <2>7, <2>9
<1>9. ASSUME NEW t \in Timers, FuncFree(t) PROVE SerialInv'
  <2>1. /\ func[t] = "free" /\ victim[t] = t /\ t \notin armed
        /\ list # <<>> /\ list[1] = t
    BY <1>9 DEF FuncFree, FuncFindsItself
  <2>2. list' = Tail(list)
    BY <1>9, <2>1 DEF FuncFree
  <2>3. /\ t \in Listed /\ Listed' = Listed \ {t}
        /\ \A i \in DOMAIN list' :
              i \in Int /\ i + 1 \in DOMAIN list /\ list'[i] = list[i + 1]
    BY <2>1, <2>2, ListShrinks
  <2>4. heap[t] = "live"
    BY <2>3 DEF ListHolds
  <2>5. /\ heap' = [heap EXCEPT ![t] = "freed"]
        /\ func' = [func EXCEPT ![t] = "no"]
        /\ UNCHANGED <<module, due, armed, writer, victim>>
    BY <1>9, <2>1, <2>4 DEF FuncFree, kfree
  <2>6. /\ \A v \in Writers : Idle(v) /\ writer[v][2] = ListHead
        /\ \A u \in Timers \ {t} : func[u] = "no"
    BY <2>1 DEF OneAtATime, WriterLists
  <2>7. /\ \A v \in Writers : Idle(v)' /\ writer'[v][2] = ListHead
        /\ \A u \in Timers : func'[u] = "no"
    BY <2>5, <2>6 DEF Idle, Typing
  <2>8. \A s, u : Before(s, u)' <=> Before(s, u)
    BY <2>5 DEF Before
  <2>9. OneAtATime'
    BY <2>7 DEF OneAtATime
  <2>10. NotBegun'
    BY <2>1, <2>5 DEF NotBegun
  <2>11. ListInOrder'
    <3>1. ASSUME NEW i \in DOMAIN list', NEW j \in DOMAIN list', i < j
          PROVE  list'[i] # list'[j] /\ Before(list'[i], list'[j])
      <4>1. i + 1 < j + 1
        BY <2>3, <3>1
      <4> QED
        BY <2>3, <4>1 DEF ListInOrder
    <3>2. Listed' \subseteq {due'[i] : i \in DOMAIN due'}
      BY <2>3, <2>5 DEF ListInOrder
    <3> QED
      BY <2>8, <3>1, <3>2 DEF ListInOrder
  <2>12. WriterLists' /\ FuncFindsItself'
    BY <2>7 DEF WriterLists, FuncFindsItself
  <2>13. NoneCorrupt'
    BY <2>5 DEF NoneCorrupt, Typing
  <2>14. Listed \subseteq Timers
    BY DEF Listed, Typing
  <2>15. ListHolds'
    BY <2>1, <2>3, <2>5, <2>6, <2>14, ConstantsAssumption DEF ListHolds, Typing
  <2>16. ListKeeps'
    BY <2>3, <2>5 DEF ListKeeps, Typing
  <2> QED
    BY <2>9, <2>10, <2>11, <2>12, <2>13, <2>15, <2>16
<1>10. \A t \in Timers : ~FuncDec(t) /\ ~FuncReturn(t)
  BY DEF FuncDec, FuncReturn, FuncFindsItself
<1>11. CASE UNCHANGED vars
  BY <1>1, <1>11 DEF vars
<1> QED
  BY <1>2, <1>3, <1>4, <1>5, <1>6, <1>7, <1>8, <1>9, <1>10, <1>11
     DEF Next, Write, Func

LEMMA InitSInv == Init => SInv
<1> SUFFICES ASSUME Init PROVE SerialInv
  BY DEF SInv
<1>1. Listed = {}
  BY DEF Init, Listed
<1>2. \A w \in Writers : Idle(w) /\ writer[w][2] = ListHead
  BY DEF Init, Idle
<1>3. OneAtATime /\ NotBegun /\ ListInOrder /\ WriterLists
  BY <1>1, <1>2 DEF Init, OneAtATime, NotBegun, ListInOrder, WriterLists
<1>4. FuncFindsItself /\ ListHolds /\ ListKeeps /\ NoneCorrupt
  BY <1>1, ConstantsAssumption
     DEF Init, FuncFindsItself, ListHolds, ListKeeps, NoneCorrupt
<1> QED
  BY <1>3, <1>4 DEF SerialInv

LEMMA SerialInvariance ==
    ASSUME FALSE \in Serial
    PROVE  Spec => [](TypeInv /\ IInv /\ SInv)
<1>1. Spec => []TypeInv
  BY InitTypeInv, NextTypeInv, PTL DEF Spec
<1>2. TypeInv /\ TypeInv' /\ SInv /\ [Next]_vars => SInv'
  BY SerialStays, OwnStays DEF SInv
<1> QED
  BY <1>1, <1>2, InitSInv, Invariance, PTL DEF Spec

\* As long as MKtimer does one thing at a time, in neither driver is a timer
\* freed twice, in the wheel, on the list or in the hands of the write that sets
\* it up, for any number of timers and writers: MKtimer's function finds its own
\* timer at the head of the list, whatever was written and has expired before.
THEOREM FreedOnce ==
    ASSUME FALSE \in Serial
    PROVE  Spec => []NoUseAfterFree
<1>1. SInv /\ ~own => NoUseAfterFree
  <2> SUFFICES ASSUME SerialInv PROVE NoUseAfterFree
    BY DEF SInv
  <2> USE DEF SerialInv
  <2>1. ASSUME NEW t \in Timers, heap[t] = "freed"
        PROVE  /\ t \notin armed
               /\ \A i \in DOMAIN list : list[i] # t
               /\ \A w \in Writers : writer[w][2] # t
    <3>1. t \notin Listed /\ t \notin armed
      BY <2>1 DEF ListHolds
    <3>2. \A w \in Writers : writer[w][2] # t
      BY <2>1, ConstantsAssumption DEF WriterLists
    <3> QED
      BY <3>1, <3>2 DEF Listed
  <2> QED
    BY <2>1 DEF NoUseAfterFree, NoneCorrupt
<1> QED
  BY <1>1, SerialInvariance, OwnIsFreedOnce, PTL

\* As long as MKtimer does one thing at a time no live timer is forgotten in
\* either driver: a write is about to start it, it is in the wheel, or its
\* function is about to free it.  EveryTimerFreed then needs but their steps.
THEOREM NoTimerIsForgotten ==
    ASSUME FALSE \in Serial
    PROVE  Spec => []SomebodyHolds
<1>1. SInv /\ ~own => SomebodyHolds
  <2> SUFFICES ASSUME SerialInv, NEW t \in Timers, heap[t] = "live"
               PROVE  \/ t \in armed
                      \/ func[t] \in {"take", "free"}
                      \/ \E w \in Writers : writer[w][2] = t
    BY DEF SInv, SomebodyHolds
  <2> QED
    BY DEF SerialInv, ListKeeps, ListHolds, FuncFindsItself
<1>2. IInv /\ own => SomebodyHolds
  BY DEF IInv
<1> QED
  BY <1>1, <1>2, SerialInvariance, PTL
=============================================================================
