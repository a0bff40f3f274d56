------------------------- MODULE BlockingReadProofs -------------------------
(***************************************************************************)
(* No read of BlockingRead passes for nothing, for all twelve drivers, any *)
(* number of readers and writers, and any number of calls and signals.     *)
(*                                                                         *)
(* What the writes have posted never grows smaller; where it is counted it *)
(* is in the token counter or was served; and before the first write there *)
(* is nothing to take but the token lab1_semaphore starts with.            *)
(*                                                                         *)
(* And nobody sleeps on what is there without a reason: the writer that    *)
(* raised the flag has its wake_up to come, or a woken reader the token.   *)
(***************************************************************************)
EXTENDS BlockingRead, TLAPS, FiniteSetTheorems

\* what the proof needs of a driver's record
LEMMA KindOfDriver ==
    ASSUME driver \in Drivers
    PROVE  /\ d.by \in {"flag", "completion", "semaphore", "events"}
           /\ d.start \in {0, 1}
           /\ d.by = "events" => d.start = 0
           /\ d.by = "flag" =>
                 d.start = 0 /\ d.writes \in {<<"set", "wake">>, <<"wake", "set">>}
           /\ d.by # "flag" => d.writes \in {<<"post">>, <<"post", "wake">>}
<1>1. driver \in {"lab1_wait_event", "lab1_excl", "lab2_killable", "lab3_poll",
                  "lab1_complete", "lab1_semaphore", "globalmem_complete",
                  "globalmem_sem", "globalmem_wait", "globalmem_exwait",
                  "globalmem_killable", "lab7_uio"}
  BY DriversAssumption DEF Driver
<1> USE DEF d, Driver, lab1_wait_event
<1>2. CASE driver = "lab1_wait_event"
  BY <1>2
<1>3. CASE driver = "lab1_excl"
  BY <1>3 DEF lab1_excl
<1>4. CASE driver = "lab2_killable"
  BY <1>4 DEF lab2_killable
<1>5. CASE driver = "lab3_poll"
  BY <1>5 DEF lab3_poll
<1>6. CASE driver = "lab1_complete"
  BY <1>6 DEF lab1_complete
<1>7. CASE driver = "lab1_semaphore"
  BY <1>7 DEF lab1_semaphore
<1>8. CASE driver = "globalmem_complete"
  BY <1>8 DEF globalmem_complete, lab1_complete
<1>9. CASE driver = "globalmem_sem"
  BY <1>9 DEF globalmem_sem, lab1_semaphore
<1>10. CASE driver = "globalmem_wait"
  BY <1>10 DEF globalmem_wait
<1>11. CASE driver = "globalmem_exwait"
  BY <1>11 DEF globalmem_exwait, globalmem_wait
<1>12. CASE driver = "globalmem_killable"
  BY <1>12 DEF globalmem_killable, globalmem_wait
<1>13. CASE driver = "lab7_uio"
  BY <1>13 DEF lab7_uio
<1> QED
  BY <1>1, <1>2, <1>3, <1>4, <1>5, <1>6, <1>7, <1>8, <1>9, <1>10, <1>11,
     <1>12, <1>13

\* the four ways a write ends
SetWake == Len(d.writes) = 2 /\ d.writes[1] = "set" /\ d.writes[2] = "wake"
WakeSet == Len(d.writes) = 2 /\ d.writes[1] = "wake" /\ d.writes[2] = "set"
PostOnly == Len(d.writes) = 1 /\ d.writes[1] = "post"
PostWake == Len(d.writes) = 2 /\ d.writes[1] = "post" /\ d.writes[2] = "wake"

LEMMA Operations ==
    ASSUME driver \in Drivers
    PROVE  /\ d.by = "flag" => SetWake \/ WakeSet
           /\ d.by # "flag" => PostOnly \/ PostWake
           /\ Len(d.writes) \in {1, 2}
<1>1. CASE d.writes = <<"set", "wake">>
  BY <1>1, KindOfDriver DEF SetWake
<1>2. CASE d.writes = <<"wake", "set">>
  BY <1>2, KindOfDriver DEF WakeSet
<1>3. CASE d.writes = <<"post">>
  BY <1>3, KindOfDriver DEF PostOnly
<1>4. CASE d.writes = <<"post", "wake">>
  BY <1>4, KindOfDriver DEF PostWake
<1> QED
  BY <1>1, <1>2, <1>3, <1>4, KindOfDriver

Shapes ==
    /\ driver \in Drivers
    /\ tokens \in Int /\ served \in Int
    /\ flag \in {0, 1}
    /\ writes \in Nat
    /\ writer \in [Writers -> 0 .. Len(d.writes)]
    /\ nev \in [Readers -> Int]

LEMMA Lengths ==
    ASSUME Shapes
    PROVE  /\ 1 \in 0 .. Len(d.writes)
           /\ \A n \in 0 .. Len(d.writes) : n \in 0 .. 2
<1>1. Len(d.writes) = 1 \/ Len(d.writes) = 2
  BY Operations DEF Shapes
<1>2. CASE Len(d.writes) = 1
  BY <1>2
<1>3. CASE Len(d.writes) = 2
  BY <1>3
<1> QED
  BY <1>1, <1>2, <1>3

\* Until something is posted there is nothing but the first token.
NothingPosted ==
    Posted = 0 =>
        /\ served + tokens = d.start /\ tokens >= 0
        /\ d.by = "events" => tokens = 0
        /\ flag = 0
        /\ \A r \in Readers : nev[r] = 0

Balance == d.by # "flag" => served + tokens = d.start + Posted

IInv == Shapes /\ Posted \in Nat /\ NothingPosted /\ Balance

\* the steps that leave the writers alone
Quiet == UNCHANGED <<driver, writer, writes>>

-----------------------------------------------------------------------------
(* What a step posts *)

LEMMA PendingIsFinite ==
    IsFiniteSet(Pending) /\ Cardinality(Pending) \in Nat
BY FS_Subset, FS_CardinalityType, ConstantsAssumption DEF Pending

\* Which places of a driver's write are before its post or set.
Before(place) == place = 1 \/ (place = 2 /\ d.writes[1] = "wake")

LEMMA PendingPlaces ==
    ASSUME driver \in Drivers, NEW place \in 0 .. 2
    PROVE  Before(place) <=>
              /\ place # 0
              /\ \E i \in place .. Len(d.writes) :
                    d.writes[i] \in {"post", "set"}
<1>1. CASE SetWake
  <2>1. CASE place = 0
    BY <2>1 DEF Before
  <2>2. CASE place = 1
    BY <1>1, <2>2 DEF Before, SetWake
  <2>3. CASE place = 2
    BY <1>1, <2>3 DEF Before, SetWake
  <2> QED
    BY <2>1, <2>2, <2>3
<1>2. CASE WakeSet
  <2>1. CASE place = 0
    BY <2>1 DEF Before
  <2>2. CASE place = 1
    BY <1>2, <2>2 DEF Before, WakeSet
  <2>3. CASE place = 2
    BY <1>2, <2>3 DEF Before, WakeSet
  <2> QED
    BY <2>1, <2>2, <2>3
<1>3. CASE PostOnly
  <2>1. CASE place = 0
    BY <2>1 DEF Before
  <2>2. CASE place = 1
    BY <1>3, <2>2 DEF Before, PostOnly
  <2>3. CASE place = 2
    BY <1>3, <2>3 DEF Before, PostOnly
  <2> QED
    BY <2>1, <2>2, <2>3
<1>4. CASE PostWake
  <2>1. CASE place = 0
    BY <2>1 DEF Before
  <2>2. CASE place = 1
    BY <1>4, <2>2 DEF Before, PostWake
  <2>3. CASE place = 2
    BY <1>4, <2>3 DEF Before, PostWake
  <2> QED
    BY <2>1, <2>2, <2>3
<1> QED
  BY <1>1, <1>2, <1>3, <1>4, Operations

\* A step of writer w from one place to another
LEMMA MovePends ==
    ASSUME Shapes, NEW w \in Writers, NEW to \in 0 .. Len(d.writes),
           driver' = driver, writer' = [writer EXCEPT ![w] = to]
    PROVE  /\ w \in Pending <=> Before(writer[w])
           /\ Before(to) => Pending' = Pending \cup {w}
           /\ ~Before(to) => Pending' = Pending \ {w}
<1>1. d' = d
  BY DEF d
<1>0. \A v \in Writers : writer[v] \in 0 .. 2 /\ writer'[v] \in 0 .. 2
  <2>1. writer' \in [Writers -> 0 .. Len(d.writes)]
    BY DEF Shapes
  <2> QED
    BY <2>1, Lengths DEF Shapes
<1>2. Pending = {v \in Writers : Before(writer[v])}
  BY <1>0, PendingPlaces DEF Pending, Shapes
<1>3. Pending' = {v \in Writers : Before(writer'[v])}
  BY <1>0, <1>1, PendingPlaces DEF Pending, Shapes
<1>4. /\ writer'[w] = to
      /\ \A v \in Writers \ {w} : writer'[v] = writer[v]
  BY DEF Shapes
<1> QED
  BY <1>2, <1>3, <1>4

LEMMA QuietPosts ==
    ASSUME Quiet
    PROVE  Posted' = Posted /\ d' = d
BY DEF Quiet, Posted, Pending, d

\* A call that has begun to write has posted nothing yet.
LEMMA CallPosts ==
    ASSUME Shapes, NEW w \in Writers, writer[w] = 0,
           driver' = driver, writes' = writes + 1,
           writer' = [writer EXCEPT ![w] = 1]
    PROVE  Posted' = Posted
<1>1. w \notin Pending /\ Pending' = Pending \cup {w}
  <2>1. ~Before(0) /\ Before(1)
    BY DEF Before
  <2> QED
    BY <2>1, Lengths, MovePends
<1>2. Cardinality(Pending') = Cardinality(Pending) + 1
  BY <1>1, PendingIsFinite, FS_AddElement
<1> QED
  BY <1>2, PendingIsFinite DEF Posted, Shapes

\* post and set post, and wake does not.
LEMMA DoingPosts ==
    ASSUME Shapes, NEW w \in Writers, NEW op \in {"post", "set", "wake"},
           Doing(w, op)
    PROVE  /\ op = "wake" => Posted' = Posted
           /\ op # "wake" => Posted' = Posted + 1
           /\ writer' \in [Writers -> 0 .. Len(d.writes)]
<1>1. PICK to \in 0 .. Len(d.writes) :
         /\ writer' = [writer EXCEPT ![w] = to]
         /\ op # "wake" <=> Before(writer[w]) /\ ~Before(to)
         /\ op = "wake" => (Before(writer[w]) <=> Before(to))
  <2> DEFINE to == (writer[w] + 1) % (Len(d.writes) + 1)
  <2>1. writer[w] \in 1 .. Len(d.writes) /\ d.writes[writer[w]] = op
    BY DEF Doing, Shapes
  <2>2. /\ writer' = [writer EXCEPT ![w] = to]
    BY DEF Doing, Shapes
  <2> HIDE DEF to
  <2>3. /\ to \in 0 .. Len(d.writes)
        /\ op # "wake" <=> Before(writer[w]) /\ ~Before(to)
        /\ op = "wake" => (Before(writer[w]) <=> Before(to))
    <3>1. CASE SetWake
      <4>1. CASE writer[w] = 1
        <5>1. to = 2
          BY <3>1, <4>1 DEF to, SetWake
        <5> QED
          BY <2>1, <3>1, <4>1, <5>1 DEF Before, SetWake
      <4>2. CASE writer[w] = 2
        <5>1. to = 0
          BY <3>1, <4>2 DEF to, SetWake
        <5> QED
          BY <2>1, <3>1, <4>2, <5>1 DEF Before, SetWake
      <4> QED
        BY <2>1, <3>1, <4>1, <4>2 DEF SetWake
    <3>2. CASE WakeSet
      <4>1. CASE writer[w] = 1
        <5>1. to = 2
          BY <3>2, <4>1 DEF to, WakeSet
        <5> QED
          BY <2>1, <3>2, <4>1, <5>1 DEF Before, WakeSet
      <4>2. CASE writer[w] = 2
        <5>1. to = 0
          BY <3>2, <4>2 DEF to, WakeSet
        <5> QED
          BY <2>1, <3>2, <4>2, <5>1 DEF Before, WakeSet
      <4> QED
        BY <2>1, <3>2, <4>1, <4>2 DEF WakeSet
    <3>3. CASE PostOnly
      <4>1. writer[w] = 1
        BY <2>1, <3>3 DEF PostOnly
      <4>2. to = 0
        BY <3>3, <4>1 DEF to, PostOnly
      <4> QED
        BY <2>1, <3>3, <4>1, <4>2 DEF Before, PostOnly
    <3>4. CASE PostWake
      <4>1. CASE writer[w] = 1
        <5>1. to = 2
          BY <3>4, <4>1 DEF to, PostWake
        <5> QED
          BY <2>1, <3>4, <4>1, <5>1 DEF Before, PostWake
      <4>2. CASE writer[w] = 2
        <5>1. to = 0
          BY <3>4, <4>2 DEF to, PostWake
        <5> QED
          BY <2>1, <3>4, <4>2, <5>1 DEF Before, PostWake
      <4> QED
        BY <2>1, <3>4, <4>1, <4>2 DEF PostWake
    <3> QED
      BY <3>1, <3>2, <3>3, <3>4, Operations DEF Shapes
  <2> QED
    BY <2>2, <2>3
<1>2. driver' = driver /\ writes' = writes
  BY DEF Doing
<1>3. writer' \in [Writers -> 0 .. Len(d.writes)]
  BY <1>1 DEF Shapes
<1>4. CASE op = "wake"
  <2>1. Pending' = Pending
    <3>1. CASE Before(to)
      BY <1>1, <1>2, <1>4, <3>1, MovePends
    <3>2. CASE ~Before(to)
      BY <1>1, <1>2, <1>4, <3>2, MovePends
    <3> QED
      BY <3>1, <3>2
  <2> QED
    BY <1>2, <1>3, <1>4, <2>1 DEF Posted
<1>5. CASE op # "wake"
  <2>1. w \in Pending /\ Pending' = Pending \ {w}
    BY <1>1, <1>2, <1>5, MovePends
  <2>2. Cardinality(Pending') = Cardinality(Pending) - 1
    BY <2>1, PendingIsFinite, FS_RemoveElement
  <2>3. Posted' = Posted + 1
    BY <1>2, <2>2, PendingIsFinite DEF Posted, Shapes
  <2> QED
    BY <1>3, <1>5, <2>3
<1> QED
  BY <1>4, <1>5, <1>3

-----------------------------------------------------------------------------
(* The invariant *)

LEMMA InitIInv == Init => IInv
<1> SUFFICES ASSUME Init PROVE IInv
  OBVIOUS
<1>1. driver \in Drivers /\ d.start \in {0, 1}
  BY KindOfDriver DEF Init
<1>2. Shapes
  BY <1>1, Operations DEF Init, Shapes
<1>3. Pending = {}
  BY DEF Init, Pending
<1>4. Posted = 0
  BY <1>3, FS_EmptySet DEF Init, Posted
<1>5. NothingPosted /\ Balance
  BY <1>1, <1>4, KindOfDriver DEF Init, NothingPosted, Balance
<1> QED
  BY <1>2, <1>4, <1>5 DEF IInv

\* The steps of a reader
LEMMA ReaderIInv ==
    ASSUME IInv, NEW r \in Readers,
           ReadCall(r) \/ PollCall(r) \/ Interrupt(r) \/ Read(r)
    PROVE  IInv'
<1> USE DEF IInv
<1>1. Quiet
  BY DEF ReadCall, PollCall, Interrupt, Read, Wait, WaitToken, WaitFlag,
         ReadReturn, CountDown, Clear, Deal, Subtract, PollMask, Goes, Quiet,
         state, calls
<1>2. Posted' = Posted /\ d' = d
  BY <1>1, QuietPosts
<1>4. ASSUME /\ tokens' \in Int /\ served' \in Int
             /\ served' + tokens' = served + tokens
             /\ Posted = 0 =>
                  /\ tokens' >= 0
                  /\ d.by = "events" => tokens' = 0
             /\ flag' \in {0, flag} /\ nev' = nev
      PROVE  IInv'
  <2>1. Shapes'
    BY <1>1, <1>2, <1>4 DEF Quiet, Shapes
  <2>2. Balance'
    BY <1>2, <1>4 DEF Balance
  <2>3. NothingPosted'
    BY <1>2, <1>4 DEF NothingPosted, Shapes
  <2> QED
    BY <1>2, <2>1, <2>2, <2>3
<1>5. CASE UNCHANGED <<tokens, served, nev>> /\ flag' \in {0, flag}
  BY <1>4, <1>5 DEF Shapes, NothingPosted
<1>6. CASE WaitToken(r)
  BY <1>4, <1>6 DEF WaitToken, Goes, Shapes, NothingPosted
<1>7. CASE WaitFlag(r)
  <2>1. CASE d.by = "flag" /\ Ready
    <3>1. Posted # 0 /\ served' = served + 1
      BY <1>7, <2>1 DEF WaitFlag, Ready, NothingPosted
    <3>2. UNCHANGED <<tokens, flag, nev>>
      BY <1>7 DEF WaitFlag, Goes, state
    <3>3. Shapes'
      BY <1>1, <1>2, <3>1, <3>2 DEF Quiet, Shapes
    <3> QED
      BY <1>2, <2>1, <3>1, <3>3 DEF NothingPosted, Balance
  <2>2. CASE ~(d.by = "flag" /\ Ready)
    <3>1. UNCHANGED <<tokens, served, nev, flag>>
      BY <1>7, <2>2 DEF WaitFlag, Goes, state, Shapes
    <3> QED
      BY <1>5, <3>1
  <2> QED
    BY <2>1, <2>2
<1>8. CASE Deal(r)
  <2>1. UNCHANGED <<tokens, served, flag>>
    BY <1>8 DEF Deal, state, calls
  <2>2. \/ nev' = nev
        \/ d.by = "events" /\ nev' = [nev EXCEPT ![r] = tokens]
    <3>1. CASE Signals /\ UNCHANGED nev
      BY <3>1
    <3>2. CASE nev' = [nev EXCEPT ![r] = tokens]
      BY <1>8, <3>2 DEF Deal
    <3> QED
      BY <1>8, <3>1, <3>2, Zenon DEF Deal
  <2>3. Shapes'
    BY <1>1, <1>2, <2>1, <2>2 DEF Quiet, Shapes
  <2>4. NothingPosted'
    BY <1>2, <2>1, <2>2 DEF NothingPosted, Shapes
  <2>5. Balance'
    BY <1>2, <2>1 DEF Balance
  <2> QED
    BY <1>2, <2>3, <2>4, <2>5
<1>9. CASE Subtract(r)
  BY <1>4, <1>9 DEF Subtract, Goes, Shapes, NothingPosted
<1> QED
  BY <1>5, <1>6, <1>7, <1>8, <1>9
     DEF ReadCall, PollCall, Interrupt, Read, Wait, ReadReturn, CountDown,
         Clear, PollMask, Goes, state

\* The steps of a writer
LEMMA WriterIInv ==
    ASSUME IInv, NEW w \in Writers, WriteCall(w) \/ Write(w)
    PROVE  IInv'
<1> USE DEF IInv
<1>1. d' = d /\ driver' = driver
  BY DEF WriteCall, Write, Post, Set, Wake, Doing, d
<1>2. CASE WriteCall(w)
  <2>1. UNCHANGED <<tokens, flag, reader, nev, served>>
    BY <1>2 DEF WriteCall, state
  <2>2. writes' \in Nat /\ writer' \in [Writers -> 0 .. Len(d.writes)]
    BY <1>2, Lengths DEF WriteCall, Shapes
  <2>3. Posted' = Posted
    <3>1. CASE UNCHANGED <<writes, writer>>
      BY <1>1, <3>1 DEF Posted, Pending
    <3>2. CASE ~UNCHANGED <<writes, writer>>
      BY <1>1, <1>2, <3>2, CallPosts DEF WriteCall
    <3> QED
      BY <3>1, <3>2
  <2>4. Shapes'
    BY <1>1, <2>1, <2>2 DEF Shapes
  <2> QED
    BY <1>1, <2>1, <2>3, <2>4 DEF NothingPosted, Balance
<1>3. CASE Wake(w)
  <2>1. UNCHANGED <<tokens, flag, nev, served, writes>>
    BY <1>3 DEF Wake, Doing
  <2>2. Posted' = Posted /\ writer' \in [Writers -> 0 .. Len(d.writes)]
    BY <1>3, DoingPosts DEF Wake
  <2>3. Shapes'
    BY <1>1, <2>1, <2>2 DEF Shapes
  <2> QED
    BY <1>1, <2>1, <2>2, <2>3 DEF NothingPosted, Balance
<1>4. CASE Set(w)
  <2>1. UNCHANGED <<tokens, nev, served, writes, reader>> /\ flag' = 1
    BY <1>4 DEF Set, Doing
  <2>2. Posted' = Posted + 1 /\ writer' \in [Writers -> 0 .. Len(d.writes)]
    BY <1>4, DoingPosts DEF Set
  <2>3. Shapes'
    BY <1>1, <2>1, <2>2 DEF Shapes
  <2>4. d.by = "flag"
    <3>1. writer[w] \in 1 .. Len(d.writes) /\ d.writes[writer[w]] = "set"
      BY <1>4 DEF Set, Doing, Shapes
    <3> QED
      BY <3>1, Operations DEF Shapes, PostOnly, PostWake
  <2> QED
    BY <1>1, <2>2, <2>3, <2>4 DEF NothingPosted, Balance
<1>5. CASE Post(w)
  <2>1. UNCHANGED <<flag, nev, writes>>
    BY <1>5 DEF Post, Doing
  <2>2. Posted' = Posted + 1 /\ writer' \in [Writers -> 0 .. Len(d.writes)]
    BY <1>5, DoingPosts DEF Post
  <2>3. /\ tokens' \in Int /\ served' \in Int
        /\ served' + tokens' = served + tokens + 1
    BY <1>5 DEF Post, Shapes
  <2>4. Shapes'
    BY <1>1, <2>1, <2>2, <2>3 DEF Shapes
  <2>5. Balance'
    <3>1. d.start \in Int
      BY KindOfDriver DEF Shapes
    <3>2. SUFFICES ASSUME d.by # "flag"
                   PROVE  served' + tokens' = d.start + Posted'
      BY <1>1 DEF Balance
    <3>3. served + tokens = d.start + Posted
      BY <3>2 DEF Balance
    <3> QED
      BY <2>2, <2>3, <3>1, <3>3
  <2> QED
    BY <1>1, <2>2, <2>4, <2>5 DEF NothingPosted
<1> QED
  BY <1>2, <1>3, <1>4, <1>5 DEF Write

LEMMA Invariance == Spec => []IInv
<1>1. IInv /\ UNCHANGED vars => IInv'
  <2> SUFFICES ASSUME IInv, UNCHANGED vars PROVE IInv'
    OBVIOUS
  <2>1. UNCHANGED <<driver, tokens, flag, reader, writer, nev, served, writes>>
    BY DEF vars, state, calls
  <2>2. Posted' = Posted /\ d' = d
    BY <2>1 DEF Posted, Pending, d
  <2> QED
    BY <2>1, <2>2 DEF IInv, Shapes, NothingPosted, Balance
<1>2. IInv /\ [Next]_vars => IInv'
  BY <1>1, ReaderIInv, WriterIInv DEF Next
<1> QED
  BY <1>2, InitIInv, PTL DEF Spec

\* No read passes its condition before a write has posted, and where the writes
\* are counted every pass costs one, in all twelve drivers.
THEOREM NoReadForNothing == Spec => []PassNeedsWrite
<1>1. IInv => PassNeedsWrite
  <2> SUFFICES ASSUME IInv PROVE PassNeedsWrite
    OBVIOUS
  <2>1. served > d.start => Posted > 0
    <3>1. d.start \in {0, 1}
      BY KindOfDriver DEF IInv, Shapes
    <3> QED
      BY <3>1 DEF IInv, Shapes, NothingPosted
  <2> QED
    BY <2>1 DEF IInv, Balance, PassNeedsWrite
<1> QED
  BY <1>1, Invariance, PTL
-----------------------------------------------------------------------------
(* No wake-up is lost. *)

Waiting == {r \in Readers : reader[r] = "wait"}

\* A write on its way to its wake_up
Waking == \E w \in Writers : writer[w] = 2

\* Each way of waiting has its reason: who raises the flag or counts the event
\* wakes next; up hands its token to a sleeper, so that there is none to take
\* while somebody sleeps; and complete gets one sleeper up for each token.
WakeupComes ==
    driver \notin SleepOn /\ Asleep # {} =>
        /\ d.by \in {"flag", "events"} /\ Ready => Waking
        /\ d.by = "semaphore" => ~Ready
        /\ d.by = "completion" => tokens <= Cardinality(Waiting)

ReaderPlaces ==
    reader \in [Readers -> {"idle", "wait", "sleep", "poll", "pollsleep",
                            "awake", "interrupted", "clear", "sub"}]

\* Only lab7_uio takes a number of events.
NothingTaken == d.by # "events" => \A r \in Readers : nev[r] = 0

WInv == ReaderPlaces /\ WakeupComes /\ NothingTaken

-----------------------------------------------------------------------------
(* The drivers that keep their promise *)

LEMMA KindOfWaking ==
    ASSUME driver \in Drivers, driver \notin SleepOn
    PROVE  /\ d.by = "flag" => d.writes = <<"set", "wake">>
           /\ d.by = "events" => d.writes = <<"post", "wake">>
           /\ d.by \in {"completion", "semaphore"} => d.writes = <<"post">>
           /\ d.by = "completion" => d.sleep = "none"
           /\ d.exclusive = FALSE
           /\ ~(d.sleep = "fatal" /\ d.mask = "interruptible")
<1>1. driver \in {"lab1_wait_event", "lab1_complete", "lab1_semaphore",
                  "globalmem_complete", "globalmem_sem", "globalmem_wait",
                  "globalmem_exwait", "globalmem_killable", "lab7_uio"}
  BY DriversAssumption DEF Driver, SleepOn
<1> USE DEF d, Driver, lab1_wait_event
<1>2. CASE driver = "lab1_wait_event"
  BY <1>2
<1>3. CASE driver = "lab1_complete"
  BY <1>3 DEF lab1_complete
<1>4. CASE driver = "lab1_semaphore"
  BY <1>4 DEF lab1_semaphore
<1>5. CASE driver = "globalmem_complete"
  BY <1>5 DEF globalmem_complete, lab1_complete
<1>6. CASE driver = "globalmem_sem"
  BY <1>6 DEF globalmem_sem, lab1_semaphore
<1>7. CASE driver = "globalmem_wait"
  BY <1>7 DEF globalmem_wait
<1>8. CASE driver = "globalmem_exwait"
  BY <1>8 DEF globalmem_exwait, globalmem_wait
<1>9. CASE driver = "globalmem_killable"
  BY <1>9 DEF globalmem_killable, globalmem_wait
<1>10. CASE driver = "lab7_uio"
  BY <1>10 DEF lab7_uio
<1> QED
  BY <1>1, <1>2, <1>3, <1>4, <1>5, <1>6, <1>7, <1>8, <1>9, <1>10

LEMMA WakesAll ==
    ASSUME driver \in Drivers, driver \notin SleepOn
    PROVE  /\ d.by = "flag" => SetWake
           /\ d.by = "events" => PostWake
           /\ d.by \in {"completion", "semaphore"} => PostOnly
           /\ d.by = "completion" => d.sleep = "none"
           /\ ~d.exclusive
           /\ Wakeable = Asleep
<1>1. d.by = "flag" => SetWake
  BY KindOfWaking DEF SetWake
<1>2. d.by = "events" => PostWake
  BY KindOfWaking DEF PostWake
<1>3. d.by \in {"completion", "semaphore"} => PostOnly
  BY KindOfWaking DEF PostOnly
<1>4. ~d.exclusive /\ Wakeable = Asleep
  BY KindOfWaking DEF Wakeable
<1> QED
  BY <1>1, <1>2, <1>3, <1>4, KindOfWaking

-----------------------------------------------------------------------------
(* Who sleeps and who waits after a step *)

LEMMA WaitingIsFinite ==
    IsFiniteSet(Waiting) /\ Cardinality(Waiting) \in Nat
BY FS_Subset, FS_CardinalityType, ConstantsAssumption DEF Waiting

\* Reader r goes to a place.
LEMMA GoesTo ==
    ASSUME ReaderPlaces, NEW r \in Readers,
           NEW to \in {"idle", "wait", "sleep", "poll", "pollsleep", "awake",
                       "interrupted", "clear", "sub"},
           reader' = [reader EXCEPT ![r] = to]
    PROVE  /\ ReaderPlaces'
           /\ to \notin {"sleep", "pollsleep"} => Asleep' \subseteq Asleep
           /\ to # "wait" => Waiting' = Waiting \ {r}
           /\ to = "wait" => Waiting' = Waiting \cup {r}
BY DEF ReaderPlaces, Asleep, Waiting

LEMMA WaitsLess ==
    ASSUME NEW r \in Readers, Waiting' = Waiting \ {r}
    PROVE  /\ r \in Waiting => Cardinality(Waiting') = Cardinality(Waiting) - 1
           /\ r \notin Waiting => Cardinality(Waiting') = Cardinality(Waiting)
<1>1. CASE r \in Waiting
  BY <1>1, WaitingIsFinite, FS_RemoveElement
<1>2. CASE r \notin Waiting
  BY <1>2
<1> QED
  BY <1>1, <1>2

LEMMA WaitsMore ==
    ASSUME NEW r \in Readers, Waiting' = Waiting \cup {r}
    PROVE  /\ r \notin Waiting => Cardinality(Waiting') = Cardinality(Waiting) + 1
           /\ r \in Waiting => Cardinality(Waiting') = Cardinality(Waiting)
<1>1. CASE r \notin Waiting
  BY <1>1, WaitingIsFinite, FS_AddElement
<1>2. CASE r \in Waiting
  <2>1. Waiting' = Waiting
    BY <1>2
  <2> QED
    BY <1>2, <2>1
<1> QED
  BY <1>1, <1>2

\* A step that gets nobody to sleep, takes nobody from the waiting and leaves
\* no more to take
LEMMA LessToTake ==
    ASSUME Shapes, Shapes', WakeupComes, UNCHANGED <<driver, writer>>,
           Asleep' \subseteq Asleep,
           Cardinality(Waiting) <= Cardinality(Waiting'),
           Cardinality(Waiting') \in Nat,
           tokens' <= tokens, flag' \in {0, flag}
    PROVE  WakeupComes'
<1>1. d' = d /\ Waking' = Waking
  BY DEF d, Waking
<1>2. Ready' => Ready
  BY <1>1 DEF Ready, Shapes
<1>3. Cardinality(Waiting) \in Nat
  BY WaitingIsFinite
<1> QED
  BY <1>1, <1>2, <1>3 DEF WakeupComes, Shapes

-----------------------------------------------------------------------------
(* A reader's step *)

\* What a reader may do to what is counted and where it stands
LEMMA ReaderWakeup ==
    ASSUME IInv, IInv', WInv, d.by = "events" => ~Overdrawn,
           NEW r \in Readers,
           ReadCall(r) \/ PollCall(r) \/ Interrupt(r) \/ Read(r)
    PROVE  WInv'
<1> USE DEF WInv
<1>1. Quiet
  BY DEF ReadCall, PollCall, Interrupt, Read, Wait, WaitToken, WaitFlag,
         ReadReturn, CountDown, Clear, Deal, Subtract, PollMask, Goes, Quiet,
         state, calls
<1>2. /\ Shapes /\ Shapes'
      /\ UNCHANGED <<driver, writer>>
      /\ d' = d /\ Waking' = Waking
  BY <1>1 DEF IInv, Quiet, d, Waking
<1>3. Cardinality(Waiting) \in Nat /\ Cardinality(Waiting') \in Nat
  <2>1. Cardinality(Waiting') \in Nat
    BY FS_Subset, FS_CardinalityType, ConstantsAssumption DEF Waiting
  <2> QED
    BY <2>1, WaitingIsFinite
<1>4. nev[r] >= 0 /\ nev[r] \in Int
  BY <1>2 DEF NothingTaken, Overdrawn, Shapes
<1>5. NothingTaken'
  <2>1. CASE UNCHANGED nev
    BY <1>2, <2>1 DEF NothingTaken
  <2>2. CASE ~UNCHANGED nev
    <3>1. Deal(r)
      BY <2>2 DEF ReadCall, PollCall, Interrupt, Read, Wait, WaitToken,
                  WaitFlag, ReadReturn, CountDown, Clear, Subtract, PollMask,
                  Goes
    <3> QED
      BY <1>2, <3>1 DEF Deal, NothingTaken
  <2> QED
    BY <2>1, <2>2
\* Nobody goes to sleep, and nobody leaves the waiting.
<1>6. ASSUME NEW to \in {"idle", "wait", "poll", "awake", "interrupted",
                         "clear", "sub"},
             reader' = [reader EXCEPT ![r] = to],
             reader[r] # "wait" \/ d.by \in {"flag", "events"},
             tokens' <= tokens, flag' \in {0, flag}
      PROVE  WInv'
  <2>1. ReaderPlaces' /\ Asleep' \subseteq Asleep
    BY <1>6, GoesTo
  <2>2. CASE reader[r] # "wait"
    <3>1. r \notin Waiting
      BY <2>2 DEF Waiting
    <3>2. Cardinality(Waiting) <= Cardinality(Waiting')
      <4>1. CASE to = "wait"
        <5>1. Waiting' = Waiting \cup {r}
          BY <1>6, <4>1, GoesTo
        <5> QED
          BY <1>3, <3>1, <5>1, WaitsMore
      <4>2. CASE to # "wait"
        <5>1. Waiting' = Waiting \ {r}
          BY <1>6, <4>2, GoesTo
        <5> QED
          BY <1>3, <3>1, <5>1, WaitsLess
      <4> QED
        BY <4>1, <4>2
    <3> QED
      BY <1>2, <1>3, <1>5, <1>6, <2>1, <3>2, LessToTake
  <2>3. CASE d.by \in {"flag", "events"}
    <3>1. Ready' => Ready
      BY <1>2, <1>6 DEF Ready, Shapes
    <3>2. WakeupComes'
      BY <1>2, <2>1, <2>3, <3>1 DEF WakeupComes
    <3> QED
      BY <1>5, <2>1, <3>2
  <2> QED
    BY <1>6, <2>2, <2>3
\* A reader that goes to sleep, or to sleep in poll, has found nothing.
<1>7. ASSUME NEW to \in {"sleep", "pollsleep"},
             reader' = [reader EXCEPT ![r] = to],
             ~Ready, UNCHANGED <<tokens, flag>>
      PROVE  WInv'
  <2>1. ReaderPlaces'
    BY <1>7, GoesTo
  <2>2. ~Ready'
    BY <1>2, <1>7 DEF Ready
  <2>3. d.by = "completion" => tokens' <= Cardinality(Waiting')
    BY <1>2, <1>3, <1>7 DEF Ready, Shapes
  <2>4. WakeupComes'
    BY <1>2, <2>2, <2>3 DEF WakeupComes
  <2> QED
    BY <1>5, <2>1, <2>4
<1>8. tokens <= tokens /\ flag \in {0, flag} /\ 0 \in {0, flag}
  BY <1>2 DEF Shapes
<1>10. CASE ReadCall(r)
  BY <1>6, <1>8, <1>10 DEF ReadCall, Goes
<1>11. CASE PollCall(r)
  BY <1>6, <1>8, <1>11 DEF PollCall, Goes, state
<1>12. CASE Interrupt(r)
  BY <1>6, <1>8, <1>12 DEF Interrupt, Goes, state
<1>13. CASE WaitToken(r)
  <2>1. CASE tokens > 0
    <3>1. /\ reader[r] = "wait" /\ reader' = [reader EXCEPT ![r] = "awake"]
          /\ tokens' = tokens - 1 /\ flag' = flag
          /\ d.by \in {"completion", "semaphore"}
      BY <1>13, <2>1 DEF WaitToken, Goes
    <3>2. /\ ReaderPlaces' /\ Asleep' \subseteq Asleep
          /\ Waiting' = Waiting \ {r} /\ r \in Waiting
      BY <3>1, GoesTo DEF Waiting
    <3>3. Cardinality(Waiting') = Cardinality(Waiting) - 1
      BY <3>2, WaitsLess
    <3>4. WakeupComes'
      BY <1>2, <1>3, <3>1, <3>2, <3>3 DEF WakeupComes, Ready, Shapes
    <3> QED
      BY <1>5, <3>2, <3>4
  <2>2. CASE tokens = 0
    <3>1. /\ reader' = [reader EXCEPT ![r] = "sleep"]
          /\ UNCHANGED <<tokens, flag>> /\ ~Ready
      BY <1>13, <2>2 DEF WaitToken, Goes, Ready
    <3> QED
      BY <1>7, <3>1
  <2> QED
    BY <1>13, <2>1, <2>2 DEF WaitToken
<1>14. CASE WaitFlag(r)
  <2>1. CASE Ready
    BY <1>6, <1>8, <1>14, <2>1 DEF WaitFlag, Goes, state
  <2>2. CASE ~Ready
    BY <1>7, <1>14, <2>2 DEF WaitFlag, Goes, state
  <2> QED
    BY <2>1, <2>2
<1>15. CASE ReadReturn(r)
  BY <1>6, <1>8, <1>15 DEF ReadReturn, Goes
<1>16. CASE CountDown(r)
  BY <1>6, <1>8, <1>16 DEF CountDown, Goes
<1>17. CASE Clear(r)
  BY <1>6, <1>8, <1>17 DEF Clear, Goes
<1>18. CASE Deal(r)
  BY <1>6, <1>8, <1>18 DEF Deal, state
<1>19. CASE Subtract(r)
  <2>1. tokens' <= tokens
    BY <1>2, <1>4, <1>19 DEF Subtract, Shapes
  <2> QED
    BY <1>6, <1>8, <1>19, <2>1 DEF Subtract, Goes
<1>20. CASE PollMask(r)
  <2>1. CASE Ready
    BY <1>6, <1>8, <1>20, <2>1 DEF PollMask, Goes, state
  <2>2. CASE ~Ready
    BY <1>7, <1>20, <2>2 DEF PollMask, Goes, state
  <2> QED
    BY <2>1, <2>2
<1> QED
  BY <1>10, <1>11, <1>12, <1>13, <1>14, <1>15, <1>16, <1>17, <1>18, <1>19,
     <1>20 DEF Read, Wait

-----------------------------------------------------------------------------
(* A writer's step *)

\* Who sets the flag, or posts an event, wakes next.
LEMMA PostsThenWakes ==
    ASSUME Shapes, driver \notin SleepOn, d.by \in {"flag", "events"},
           NEW w \in Writers, NEW op \in {"post", "set"}, Doing(w, op)
    PROVE  Waking'
<1>1. writer[w] \in 1 .. Len(d.writes) /\ d.writes[writer[w]] = op
  BY DEF Doing, Shapes
<1>2. Len(d.writes) = 2 /\ d.writes[2] = "wake"
  BY WakesAll DEF SetWake, PostWake, Shapes
<1>3. writer[w] = 1
  BY <1>1, <1>2
<1>4. writer' = [writer EXCEPT ![w] = (writer[w] + 1) % 3]
  BY <1>2 DEF Doing, Shapes
<1>5. writer'[w] = 2
  BY <1>3, <1>4 DEF Shapes
<1> QED
  BY <1>5 DEF Waking

LEMMA WriterWakeup ==
    ASSUME IInv, WInv, NEW w \in Writers, WriteCall(w) \/ Write(w)
    PROVE  WInv'
<1> USE DEF WInv
<1>1. UNCHANGED <<driver, nev>> /\ d' = d
  BY DEF WriteCall, Write, Post, Set, Wake, Doing, d
<1>2. Shapes /\ NothingTaken'
  BY <1>1 DEF IInv, NothingTaken
<1>3. CASE WriteCall(w)
  <2>1. UNCHANGED <<tokens, flag, reader>>
    BY <1>3 DEF WriteCall, state
  <2>2. Asleep' = Asleep /\ Waiting' = Waiting /\ ReaderPlaces'
    BY <2>1 DEF Asleep, Waiting, ReaderPlaces
  <2>3. Waking => Waking'
    <3>1. SUFFICES ASSUME NEW v \in Writers, writer[v] = 2 PROVE writer'[v] = 2
      BY DEF Waking
    <3>2. v # w
      BY <1>3, <3>1 DEF WriteCall
    <3> QED
      BY <1>2, <1>3, <3>1, <3>2 DEF WriteCall, Shapes
  <2>4. WakeupComes'
    BY <1>1, <2>1, <2>2, <2>3 DEF WakeupComes, Ready
  <2> QED
    BY <1>2, <2>2, <2>4
<1>4. CASE Wake(w)
  <2>1. PICK who \in SUBSET Wakeable :
           /\ IF d.exclusive /\ Wakeable # {} THEN Cardinality(who) = 1
                                              ELSE who = Wakeable
           /\ reader' = [q \in Readers |->
                           IF q \notin who THEN reader[q]
                           ELSE IF reader[q] = "sleep" THEN "wait" ELSE "poll"]
    BY <1>4 DEF Wake
  <2>2. ReaderPlaces'
    BY <2>1 DEF ReaderPlaces
  <2>3. driver \notin SleepOn => Asleep' = {}
    <3>1. SUFFICES ASSUME driver \notin SleepOn PROVE Asleep' = {}
      OBVIOUS
    <3>2. who = Asleep
      BY <1>2, <2>1, <3>1, WakesAll DEF Shapes
    <3> QED
      BY <2>1, <3>2 DEF Asleep
  <2>4. WakeupComes'
    BY <1>1, <2>3 DEF WakeupComes
  <2> QED
    BY <1>2, <2>2, <2>4
<1>5. CASE Set(w)
  <2>1. UNCHANGED <<tokens, reader>>
    BY <1>5 DEF Set
  <2>2. Asleep' = Asleep /\ Waiting' = Waiting /\ ReaderPlaces'
    BY <2>1 DEF Asleep, Waiting, ReaderPlaces
  <2>3. d.by \in {"flag", "events"} /\ driver \notin SleepOn => Waking'
    BY <1>2, <1>5, PostsThenWakes DEF Set
  <2>4. WakeupComes'
    BY <1>1, <2>1, <2>2, <2>3 DEF WakeupComes, Ready
  <2> QED
    BY <1>2, <2>2, <2>4
<1>6. CASE Post(w)
  <2>1. d.by \in {"flag", "events"} /\ driver \notin SleepOn => Waking'
    BY <1>2, <1>6, PostsThenWakes DEF Post
  <2>2. CASE UNCHANGED reader /\ (Asleep = {} \/ d.by = "events")
    <3>1. Asleep' = Asleep /\ ReaderPlaces'
      BY <2>2 DEF Asleep, ReaderPlaces
    <3>2. WakeupComes'
      BY <1>1, <2>1, <2>2, <3>1 DEF WakeupComes
    <3> QED
      BY <1>2, <3>1, <3>2
  <2>3. CASE /\ d.by = "semaphore"
             /\ \E r \in Asleep : reader' = [reader EXCEPT ![r] = "awake"]
             /\ UNCHANGED tokens
    <3>1. PICK r \in Asleep : reader' = [reader EXCEPT ![r] = "awake"]
      BY <2>3
    <3>2. r \in Readers /\ Asleep # {}
      BY DEF Asleep
    <3>3. ReaderPlaces'
      BY <3>1, <3>2, GoesTo
    <3>4. WakeupComes'
      BY <1>1, <2>3, <3>2 DEF WakeupComes, Ready
    <3> QED
      BY <1>2, <3>3, <3>4
  <2>4. CASE /\ d.by = "completion"
             /\ \E r \in Asleep : reader' = [reader EXCEPT ![r] = "wait"]
             /\ tokens' = tokens + 1
    <3>1. PICK r \in Asleep : reader' = [reader EXCEPT ![r] = "wait"]
      BY <2>4
    <3>2. r \in Readers /\ Asleep # {} /\ r \notin Waiting
      BY DEF Asleep, Waiting
    <3>3. ReaderPlaces' /\ Waiting' = Waiting \cup {r}
      BY <3>1, <3>2, GoesTo
    <3>4. Cardinality(Waiting') = Cardinality(Waiting) + 1
      BY <3>2, <3>3, WaitsMore
    <3>5. WakeupComes'
      BY <1>1, <1>2, <2>4, <3>2, <3>4, WaitingIsFinite DEF WakeupComes, Shapes
    <3> QED
      BY <1>2, <3>3, <3>5
  <2> QED
    BY <1>6, <2>2, <2>3, <2>4 DEF Post
<1> QED
  BY <1>3, <1>4, <1>5, <1>6 DEF Write

\* While a reader sleeps on a raised flag or a counted event, a write is on its
\* way to its wake_up; nobody sleeps while there is a token of the semaphore to
\* take; and for each token of the completion a reader is up to take it: in
\* every driver but the three of SleepOn, whichever order the steps of readers,
\* writes and signals came in, and in lab7_uio as long as no reader is
\* Overdrawn.  ReadyIsTaken then needs but the steps that are on their way.
THEOREM WakeupNeverLost ==
    Spec /\ [](d.by = "events" => ~Overdrawn) => []WakeupComes
<1>1. Init => WInv
  BY DEF Init, WInv, ReaderPlaces, WakeupComes, NothingTaken, Asleep
<1>2. WInv /\ UNCHANGED vars => WInv'
  <2> SUFFICES ASSUME WInv, UNCHANGED vars PROVE WInv'
    OBVIOUS
  <2>1. UNCHANGED <<driver, tokens, flag, reader, writer, nev>>
    BY DEF vars, state
  <2>2. d' = d /\ Asleep' = Asleep /\ Waiting' = Waiting /\ Waking' = Waking
    BY <2>1 DEF d, Asleep, Waiting, Waking
  <2> QED
    BY <2>1, <2>2 DEF WInv, ReaderPlaces, WakeupComes, NothingTaken, Ready
<1>3. IInv /\ IInv' /\ WInv /\ (d.by = "events" => ~Overdrawn) /\ [Next]_vars
         => WInv'
  BY <1>2, ReaderWakeup, WriterWakeup DEF Next
<1>4. WInv => WakeupComes
  BY DEF WInv
<1> QED
  BY <1>1, <1>3, <1>4, Invariance, PTL DEF Spec
=============================================================================
