---------------------------- MODULE MouseProofs ----------------------------
(***************************************************************************)
(* The safety properties of Mouse, for any number of processes, any size   *)
(* of the port's buffer and any number of bytes.                           *)
(*                                                                         *)
(* The inductive invariant has four parts.  Shapes is the part of TypeOK   *)
(* that is inductive by itself; the bounds on depth and garbled follow     *)
(* from LineComesBack and Resync.  InOrder says where the bytes of the     *)
(* packet and of the port stand among those that were sent, and Slack that *)
(* every packet put together from two has been paid for by a byte that was *)
(* lost before its last one.                                               *)
(***************************************************************************)
EXTENDS Mouse, TLAPS, FiniteSetTheorems, SequenceTheorems

Shapes ==
    /\ sent \in 0 .. MaxBytes
    /\ fifo \in Seq(1 .. MaxBytes) /\ Len(fifo) =< FifoSize
    /\ numByteIn \in 0 .. MY_NBYTES
    /\ numByteIn = MY_NBYTES <=> handler = "ready"
    /\ bytes \in [1 .. MY_NBYTES -> 0 .. MaxBytes]
    /\ ready \in {0, 1}
    /\ handler \in {"idle", "lsr", "ready", "wake", "signal", "schedule"}
    /\ depth \in Int
    /\ sched \in BOOLEAN
    /\ user_pid \in Procs \cup {Nobody}
    /\ proc \in [Procs -> Places]
    /\ oops \in BOOLEAN
    /\ lost \in 0 .. sent /\ garbled \in Nat
    /\ faults \in 0 .. MaxFaults

\* The actions of one process, which leave the port, the packet and the handler.
ProcStep(p) ==
    \/ mymouse_open(p) \/ mymouse_release(p)
    \/ ReadCall(p) \/ mymouse_read(p)
    \/ PollCall(p) \/ PollMask(p) \/ Signal(p)

LEMMA ProcLeaves ==
    ASSUME NEW p \in Procs, ProcStep(p)
    PROVE  /\ UNCHANGED <<port, packet, handler, oops>>
           /\ sched' = sched
           /\ ~oops
           /\ \E to \in Places : proc' = [proc EXCEPT ![p] = to]
BY DEF ProcStep, mymouse_open, mymouse_release, mymouse_read, OpenReset,
       OpenRemember, ReleaseReset, ReleaseTest, KillTasklet, ReleaseForget,
       ReadCall, ReadTest, ReadWait, ReadWoken, DisableIrq, SynchronizeIrq,
       Copy, ClearReady, EnableIrq, PollCall, PollMask, Signal, Goes, Places

LEMMA InitShapes == Init => Shapes
<1> SUFFICES ASSUME Init PROVE Shapes
  OBVIOUS
<1>1. sched \in BOOLEAN /\ oops \in BOOLEAN
  BY Zenon DEF Init
<1> QED
  BY <1>1, ConstantsAssumption DEF Init, Shapes, MY_NBYTES, Places

\* Every action keeps Shapes.
LEMMA NextShapes == Shapes /\ [Next]_vars => Shapes'
<1> SUFFICES ASSUME Shapes, [Next]_vars PROVE Shapes'
  OBVIOUS
<1> USE ConstantsAssumption DEF Shapes, MY_NBYTES
<1>1. CASE Arrive
  <2>1. oops' \in BOOLEAN /\ sched' \in BOOLEAN
    BY <1>1, Zenon DEF Arrive
  <2>2. CASE Len(fifo) < FifoSize
    <3>1. sent' \in 1 .. MaxBytes /\ fifo' = Append(fifo, sent')
      BY <1>1, <2>2 DEF Arrive
    <3>2. fifo' \in Seq(1 .. MaxBytes) /\ Len(fifo') = Len(fifo) + 1
      BY <3>1
    <3> QED
      BY <1>1, <2>1, <2>2, <3>1, <3>2 DEF Arrive, packet
  <2>3. CASE ~(Len(fifo) < FifoSize)
    BY <1>1, <2>1, <2>3 DEF Arrive, packet
  <2> QED
    BY <2>2, <2>3
<1>2. CASE Enter
  <2>1. oops' \in BOOLEAN /\ sched' \in BOOLEAN
    BY <1>2, Zenon DEF Enter, Handles
  <2> QED
    BY <1>2, <2>1 DEF Enter, Handles, packet
<1>3. CASE TakeByte
  <2>1. oops' \in BOOLEAN /\ sched' \in BOOLEAN
    BY <1>3, Zenon DEF TakeByte, Handles
  <2>2. /\ fifo # <<>> /\ Head(fifo) \in 1 .. MaxBytes
        /\ fifo' \in Seq(1 .. MaxBytes) /\ Len(fifo') =< FifoSize
    BY <1>3 DEF TakeByte
  <2>3. handler = "lsr" /\ numByteIn \in 0 .. 2
    BY <1>3 DEF TakeByte, Handles
  <2>4. /\ bytes' \in [1 .. 3 -> 0 .. MaxBytes]
        /\ numByteIn' \in 0 .. 3
        /\ numByteIn' = 3 <=> handler' = "ready"
    BY <1>3, <2>2, <2>3 DEF TakeByte, Handles
  <2>5. handler' \in {"lsr", "ready"}
    BY <1>3 DEF TakeByte, Handles
  <2> QED
    BY <1>3, <2>1, <2>2, <2>4, <2>5 DEF TakeByte, Handles
<1>4. CASE Return
  <2>1. oops' \in BOOLEAN /\ sched' \in BOOLEAN
    BY <1>4, Zenon DEF Return, Handles
  <2> QED
    BY <1>4, <2>1 DEF Return, Handles, packet
<1>5. CASE Complete
  <2>1. oops' \in BOOLEAN /\ sched' \in BOOLEAN
    BY <1>5, Zenon DEF Complete, Handles
  <2>2. garbled' \in Nat
    BY <1>5 DEF Complete
  <2> QED
    BY <1>5, <2>1, <2>2 DEF Complete, Handles
<1>6. CASE WakeReaders
  <2>1. oops' \in BOOLEAN /\ sched' \in BOOLEAN
    BY <1>6, Zenon DEF WakeReaders, Handles
  <2>2. \A place \in Places : Woken(place) \in Places
    BY DEF Woken, Places
  <2>3. proc' \in [Procs -> Places]
    BY <1>6, <2>2 DEF WakeReaders
  <2> QED
    BY <1>6, <2>1, <2>3 DEF WakeReaders, Handles, packet
<1>7. CASE TestUser
  <2>1. oops' \in BOOLEAN /\ sched' \in BOOLEAN
    BY <1>7, Zenon DEF TestUser, Handles
  <2> QED
    BY <1>7, <2>1 DEF TestUser, Handles, packet
<1>8. CASE ScheduleSignal
  <2>1. oops' \in BOOLEAN /\ sched' \in BOOLEAN
    BY <1>8, Zenon DEF ScheduleSignal, Handles
  <2> QED
    BY <1>8, <2>1 DEF ScheduleSignal, Handles, packet
<1>9. CASE SendSignal
  <2>1. oops' \in BOOLEAN /\ sched' \in BOOLEAN
    BY <1>9, Zenon DEF SendSignal
  <2> QED
    BY <1>9, <2>1 DEF SendSignal, port, packet
<1>10. ASSUME NEW p \in Procs, ProcStep(p) PROVE Shapes'
  <2>1. oops' \in BOOLEAN /\ sched' \in BOOLEAN
    BY <1>10, ProcLeaves, Zenon
  <2>2. proc' \in [Procs -> Places]
    BY <1>10, ProcLeaves
  <2>3. /\ ready' \in {0, 1} /\ depth' \in Int
        /\ user_pid' \in Procs \cup {Nobody}
        /\ faults' \in 0 .. MaxFaults
    BY <1>10 DEF ProcStep, mymouse_open, mymouse_release, mymouse_read,
                 OpenReset, OpenRemember, ReleaseReset, ReleaseTest,
                 KillTasklet, ReleaseForget, ReadCall, ReadTest, ReadWait,
                 ReadWoken, DisableIrq, SynchronizeIrq, Copy, ClearReady,
                 EnableIrq, PollCall, PollMask, Signal
  <2>4. UNCHANGED <<sent, fifo, lost, numByteIn, bytes, garbled, handler>>
    BY <1>10, ProcLeaves DEF port, packet
  <2> QED
    BY <2>1, <2>2, <2>3, <2>4
<1>11. CASE UNCHANGED vars
  <2>1. oops' \in BOOLEAN /\ sched' \in BOOLEAN
    BY <1>11, Zenon DEF vars
  <2> QED
    BY <1>11, <2>1 DEF vars, port, packet
<1> QED
  BY <1>1, <1>2, <1>3, <1>4, <1>5, <1>6, <1>7, <1>8, <1>9, <1>10, <1>11
     DEF Next, my_interrupt, ProcStep

-----------------------------------------------------------------------------
(* Whom the tasklet signals *)

LEMMA NextRemembers ==
    Shapes /\ RemembersAnOpener /\ [Next]_vars => RemembersAnOpener'
<1> SUFFICES ASSUME Shapes, RemembersAnOpener, [Next]_vars
             PROVE  RemembersAnOpener'
  OBVIOUS
<1> USE DEF RemembersAnOpener
<1>1. CASE UNCHANGED <<user_pid, proc>>
  BY <1>1
<1>2. CASE WakeReaders
  <2>1. \A p \in Procs : proc'[p] = "closed" => proc[p] = "closed"
    BY <1>2 DEF WakeReaders, Woken, Shapes
  <2> QED
    BY <1>2, <2>1, ConstantsAssumption DEF WakeReaders, Handles, Shapes
<1>3. ASSUME NEW p \in Procs, ProcStep(p) PROVE RemembersAnOpener'
  <2>1. CASE OpenRemember(p)
    BY <2>1 DEF OpenRemember, Goes, Shapes
  <2>2. CASE ReleaseTest(p)
    BY <2>2 DEF ReleaseTest, Goes, Shapes
  <2>3. CASE ReleaseForget(p)
    BY <2>3 DEF ReleaseForget
  <2>4. CASE /\ user_pid' = user_pid
             /\ \E to \in Places \ {"closed"} : proc' = [proc EXCEPT ![p] = to]
    BY <2>4 DEF Shapes
  <2> QED
    BY <1>3, <2>1, <2>2, <2>3, <2>4
       DEF ProcStep, mymouse_open, mymouse_release, mymouse_read, OpenReset,
           ReleaseReset, KillTasklet, ReadCall, ReadTest, ReadWait, ReadWoken,
           DisableIrq, SynchronizeIrq, Copy, ClearReady, EnableIrq, PollCall,
           PollMask, Signal, Goes, Places
<1> QED
  BY <1>1, <1>2, <1>3
     DEF Next, my_interrupt, ProcStep, vars, Arrive, Enter, TakeByte, Return,
         Complete, TestUser, ScheduleSignal, SendSignal, Handles

-----------------------------------------------------------------------------
(* The interrupt that is disabled *)

LEMMA DisablingIsFinite ==
    IsFiniteSet(Disabling) /\ Cardinality(Disabling) \in Nat
        /\ Cardinality(Disabling) =< Cardinality(Procs)
        /\ Cardinality(Procs) \in Nat
BY FS_Subset, FS_CardinalityType, ConstantsAssumption DEF Disabling

LEMMA NextLineComesBack ==
    Shapes /\ LineComesBack /\ [Next]_vars => LineComesBack'
<1> SUFFICES ASSUME Shapes, LineComesBack, [Next]_vars
             PROVE  LineComesBack'
  OBVIOUS
<1> USE DEF LineComesBack
<1>0. IsFiniteSet(Disabling) /\ Cardinality(Disabling) \in Nat
  BY DisablingIsFinite
<1>1. CASE UNCHANGED <<depth, faults, proc>>
  BY <1>1 DEF Disabling
<1>2. CASE WakeReaders
  <2>1. \A p \in Procs :
           \A place \in {"synchronize", "copy", "clear", "enable"} :
              proc'[p] = place <=> proc[p] = place
    BY <1>2 DEF WakeReaders, Woken, Shapes
  <2>2. Disabling' = Disabling
    BY <2>1 DEF Disabling
  <2> QED
    BY <1>2, <2>2 DEF WakeReaders, Handles
<1>3. ASSUME NEW p \in Procs, ProcStep(p) PROVE LineComesBack'
  <2>1. CASE DisableIrq(p)
    <3>1. p \notin Disabling /\ Disabling' = Disabling \cup {p}
      BY <2>1 DEF DisableIrq, Goes, Disabling, Shapes
    <3>2. Cardinality(Disabling') = Cardinality(Disabling) + 1
      BY <3>1, <1>0, FS_AddElement
    <3> QED
      BY <2>1, <3>2, <1>0 DEF DisableIrq, Shapes
  <2>2. CASE EnableIrq(p)
    <3>1. p \in Disabling /\ Disabling' = Disabling \ {p}
      BY <2>2 DEF EnableIrq, Goes, Disabling, Shapes
    <3>2. Cardinality(Disabling') = Cardinality(Disabling) - 1
      BY <3>1, <1>0, FS_RemoveElement
    <3> QED
      BY <2>2, <3>2, <1>0 DEF EnableIrq, Shapes
  <2>3. CASE Copy(p)
    <3>1. CASE Goes(p, "copy", "clear") /\ UNCHANGED faults
      <4>1. Disabling' = Disabling
        BY <3>1 DEF Goes, Disabling, Shapes
      <4> QED
        BY <2>3, <3>1, <4>1 DEF Copy
    <3>2. CASE Goes(p, "copy", "open") /\ faults' = faults + 1
      <4>1. p \in Disabling /\ Disabling' = Disabling \ {p}
        BY <3>2 DEF Goes, Disabling, Shapes
      <4>2. Cardinality(Disabling') = Cardinality(Disabling) - 1
        BY <4>1, <1>0, FS_RemoveElement
      <4> QED
        BY <2>3, <3>2, <4>2, <1>0 DEF Copy, Shapes
    <3> QED
      BY <2>3, <3>1, <3>2 DEF Copy
  <2>4. CASE SynchronizeIrq(p) \/ ClearReady(p)
    <3>1. Disabling' = Disabling
      BY <2>4 DEF SynchronizeIrq, ClearReady, Goes, Disabling, Shapes
    <3> QED
      BY <2>4, <3>1 DEF SynchronizeIrq, ClearReady
  <2>5. CASE /\ UNCHANGED <<depth, faults>>
             /\ \E from, to \in Places \ {"synchronize", "copy", "clear", "enable"} :
                   proc[p] = from /\ proc' = [proc EXCEPT ![p] = to]
    <3>1. Disabling' = Disabling
      BY <2>5 DEF Disabling, Shapes
    <3> QED
      BY <2>5, <3>1
  <2> QED
    BY <1>3, <2>1, <2>2, <2>3, <2>4, <2>5
       DEF ProcStep, mymouse_open, mymouse_release, mymouse_read, OpenReset,
           OpenRemember, ReleaseReset, ReleaseTest, KillTasklet,
           ReleaseForget, ReadCall, ReadTest, ReadWait, ReadWoken, PollCall,
           PollMask, Signal, Goes, Places
<1> QED
  BY <1>1, <1>2, <1>3
     DEF Next, my_interrupt, ProcStep, vars, Arrive, Enter, TakeByte, Return,
         Complete, TestUser, ScheduleSignal, SendSignal, Handles

-----------------------------------------------------------------------------
(* The packet that is copied *)

\* While a reader copies, the handler is at rest.
Quiet == \A p \in Procs : proc[p] \in {"copy", "clear"} => handler = "idle"

\* A line that is disabled by somebody is disabled.
LEMMA CopyingIsDisabled ==
    ASSUME Shapes, LineComesBack, NEW p \in Procs, proc[p] \in {"copy", "clear"}
    PROVE  depth # 0
<1>1. p \in Disabling
  BY DEF Disabling
<1>2. IsFiniteSet(Disabling) /\ Cardinality(Disabling) \in Nat
  BY DisablingIsFinite
<1>3. Cardinality(Disabling) # 0
  BY <1>1, <1>2, FS_EmptySet
<1> QED
  BY <1>2, <1>3, ConstantsAssumption DEF LineComesBack, Shapes

LEMMA NextQuiet ==
    Shapes /\ LineComesBack /\ Quiet /\ [Next]_vars => Quiet'
<1> SUFFICES ASSUME Shapes, LineComesBack, Quiet, [Next]_vars PROVE Quiet'
  OBVIOUS
<1> USE DEF Quiet
<1>1. CASE UNCHANGED <<handler, proc>>
  BY <1>1
<1>2. CASE Enter
  BY <1>2, CopyingIsDisabled DEF Enter
<1>3. CASE /\ handler # "idle"
           /\ proc' = proc
  BY <1>3
<1>4. CASE WakeReaders
  BY <1>4 DEF WakeReaders, Handles, Woken, Shapes
<1>5. ASSUME NEW p \in Procs, ProcStep(p) PROVE Quiet'
  <2>1. handler' = handler
    BY <1>5, ProcLeaves
  <2>2. CASE SynchronizeIrq(p)
    BY <2>1, <2>2 DEF SynchronizeIrq
  <2>3. CASE Copy(p) \/ ClearReady(p)
    BY <2>1, <2>3 DEF Copy, ClearReady, Goes, Shapes
  <2>4. CASE \E to \in Places \ {"copy", "clear"} : proc' = [proc EXCEPT ![p] = to]
    BY <2>1, <2>4 DEF Shapes
  <2> QED
    BY <1>5, <2>2, <2>3, <2>4
       DEF ProcStep, mymouse_open, mymouse_release, mymouse_read, OpenReset,
           OpenRemember, ReleaseReset, ReleaseTest, KillTasklet,
           ReleaseForget, ReadCall, ReadTest, ReadWait, ReadWoken, DisableIrq,
           EnableIrq, PollCall, PollMask, Signal, Goes, Places
<1> QED
  BY <1>1, <1>2, <1>3, <1>4, <1>5
     DEF Next, my_interrupt, ProcStep, vars, Arrive, TakeByte, Return,
         Complete, TestUser, ScheduleSignal, SendSignal, Handles

\* With the handler at rest nothing touches the packet.
LEMMA IdleLeavesPacket ==
    ASSUME handler = "idle", [Next]_vars
    PROVE  bytes' = bytes
<1>1. ASSUME NEW p \in Procs, ProcStep(p) PROVE bytes' = bytes
  BY <1>1, ProcLeaves DEF packet
<1> QED
  BY <1>1 DEF Next, my_interrupt, ProcStep, vars, packet, Arrive, Enter,
              TakeByte, Return, Complete, WakeReaders, TestUser,
              ScheduleSignal, SendSignal, Handles

-----------------------------------------------------------------------------
(* Getting into step again *)

\* The port's bytes follow those of the packet, and all of them were sent.
PortSent == \A i \in 1 .. Len(fifo) : fifo[i] + (Len(fifo) - i) =< sent
PortRises == \A i, j \in 1 .. Len(fifo) : i < j => fifo[i] < fifo[j]
PacketRises == \A i, j \in 1 .. numByteIn : i < j => bytes[i] < bytes[j]
PacketFirst ==
    numByteIn > 0 =>
       /\ First(bytes[1])
       /\ bytes[numByteIn] + Len(fifo) =< sent
       /\ \A i \in 1 .. Len(fifo) : bytes[numByteIn] < fifo[i]
InOrder == PortSent /\ PortRises /\ PacketRises /\ PacketFirst

\* Of the bytes lost, those that came before the last byte taken are
\* lost - (sent - last - Len(fifo)).  They pay for the packets that were put
\* together from two, and for the gaps in the packet at hand.
Slack ==
    /\ numByteIn = 0 =>
          /\ garbled =< lost
          /\ fifo # <<>> => garbled =< lost - sent + Len(fifo) + fifo[1] - 1
    /\ numByteIn > 0 =>
          garbled =< lost - sent + Len(fifo) + bytes[1] + numByteIn - 1

\* What the arithmetic below needs of Shapes.
Numbers ==
    /\ sent \in Nat /\ lost \in Nat /\ garbled \in Nat
    /\ Len(fifo) \in Nat
    /\ \A i \in 1 .. Len(fifo) : fifo[i] \in Nat
    /\ numByteIn \in 0 .. 3
    /\ bytes \in [1 .. 3 -> Nat]

LEMMA ShapesAreNumbers == Shapes => Numbers
<1> SUFFICES ASSUME Shapes PROVE Numbers
  OBVIOUS
<1>1. MaxBytes \in Nat
  BY ConstantsAssumption
<1>2. 1 .. MaxBytes \subseteq Nat /\ 0 .. MaxBytes \subseteq Nat
  BY <1>1
<1>3. Len(fifo) \in Nat /\ \A i \in 1 .. Len(fifo) : fifo[i] \in 1 .. MaxBytes
  <2>1. fifo \in Seq(1 .. MaxBytes)
    BY DEF Shapes
  <2> QED
    BY <2>1, ElementOfSeq, LenProperties
<1>4. bytes \in [1 .. 3 -> Nat]
  BY <1>2 DEF Shapes, MY_NBYTES
<1> QED
  BY <1>1, <1>2, <1>3, <1>4 DEF Shapes, Numbers, MY_NBYTES

LEMMA SlackPays == Numbers /\ InOrder /\ Slack => Resync
<1> SUFFICES ASSUME Numbers, InOrder, Slack, numByteIn > 0 PROVE Resync
  BY DEF Numbers, Slack, Resync
<1> USE DEF Numbers
<1>1. numByteIn \in 1 .. 3
  OBVIOUS
<1>2. bytes[1] + numByteIn - 1 =< bytes[numByteIn]
  <2>1. CASE numByteIn = 1
    BY <2>1
  <2>2. CASE numByteIn = 2
    BY <2>2 DEF InOrder, PacketRises
  <2>3. CASE numByteIn = 3
    <3>1. bytes[1] < bytes[2] /\ bytes[2] < bytes[3]
      BY <2>3 DEF InOrder, PacketRises
    <3> QED
      BY <2>3, <3>1
  <2> QED
    BY <1>1, <2>1, <2>2, <2>3
<1>3. bytes[numByteIn] + Len(fifo) =< sent
  BY DEF InOrder, PacketFirst
<1> QED
  BY <1>1, <1>2, <1>3 DEF Slack, Resync

LEMMA ArriveInOrder ==
    ASSUME Shapes, Numbers, InOrder, Slack, Arrive
    PROVE  InOrder' /\ Slack'
<1> USE DEF Numbers
<1>1. UNCHANGED <<numByteIn, bytes, garbled>> /\ sent' = sent + 1
  BY DEF Arrive, packet
<1>2. CASE Len(fifo) < FifoSize
  <2>1. fifo' = Append(fifo, sent + 1) /\ lost' = lost
    BY <1>2 DEF Arrive
  <2>2. /\ Len(fifo') = Len(fifo) + 1
        /\ \A i \in 1 .. Len(fifo) : fifo'[i] = fifo[i]
        /\ fifo'[Len(fifo) + 1] = sent + 1
    BY <2>1 DEF Shapes
  <2>3. \A i \in 1 .. Len(fifo) : fifo[i] =< sent
    BY DEF InOrder, PortSent
  <2>4. PortSent'
    <3>1. ASSUME NEW i \in 1 .. Len(fifo')
          PROVE  fifo'[i] + (Len(fifo') - i) =< sent'
      <4>1. CASE i \in 1 .. Len(fifo)
        <5>1. fifo[i] + (Len(fifo) - i) =< sent /\ fifo'[i] = fifo[i]
          BY <4>1, <2>2 DEF InOrder, PortSent
        <5> QED
          BY <1>1, <2>2, <4>1, <5>1
      <4>2. CASE i = Len(fifo) + 1
        BY <1>1, <2>2, <4>2
      <4> QED
        BY <2>2, <4>1, <4>2
    <3> QED
      BY <3>1 DEF PortSent
  <2>5. PortRises'
    <3>1. ASSUME NEW i \in 1 .. Len(fifo'), NEW j \in 1 .. Len(fifo'), i < j
          PROVE  fifo'[i] < fifo'[j]
      <4>1. i \in 1 .. Len(fifo)
        BY <2>2, <3>1
      <4>2. CASE j \in 1 .. Len(fifo)
        BY <2>2, <3>1, <4>1, <4>2 DEF InOrder, PortRises
      <4>3. CASE j = Len(fifo) + 1
        BY <2>2, <2>3, <4>1, <4>3
      <4> QED
        BY <2>2, <4>2, <4>3
    <3> QED
      BY <3>1 DEF PortRises
  <2>6. PacketFirst'
    <3> SUFFICES ASSUME numByteIn > 0 PROVE PacketFirst'
      BY <1>1 DEF PacketFirst
    <3>1. /\ First(bytes[1])
          /\ bytes[numByteIn] + Len(fifo) =< sent
          /\ \A i \in 1 .. Len(fifo) : bytes[numByteIn] < fifo[i]
      BY DEF InOrder, PacketFirst
    <3>2. bytes[numByteIn] < sent + 1
      BY <3>1
    <3>3. \A i \in 1 .. Len(fifo') : bytes[numByteIn] < fifo'[i]
      BY <2>2, <3>1, <3>2
    <3> QED
      BY <1>1, <2>2, <3>1, <3>3 DEF PacketFirst
  <2>7. InOrder'
    BY <1>1, <2>4, <2>5, <2>6 DEF InOrder, PacketRises
  <2>8. Slack'
    BY <1>1, <2>1, <2>2 DEF Slack
  <2> QED
    BY <2>7, <2>8
<1>3. CASE ~(Len(fifo) < FifoSize)
  <2>1. fifo' = fifo /\ lost' = lost + 1
    BY <1>3 DEF Arrive
  <2>2. PortSent'
    BY <1>1, <2>1 DEF InOrder, PortSent
  <2>3. PacketFirst'
    BY <1>1, <2>1 DEF InOrder, PacketFirst
  <2>4. InOrder'
    BY <1>1, <2>1, <2>2, <2>3 DEF InOrder, PortRises, PacketRises
  <2>5. Slack'
    BY <1>1, <2>1 DEF Slack
  <2> QED
    BY <2>4, <2>5
<1> QED
  BY <1>2, <1>3

LEMMA TakeByteInOrder ==
    ASSUME Shapes, Numbers, numByteIn # 3, InOrder, Slack, TakeByte
    PROVE  InOrder' /\ Slack'
<1> USE DEF Numbers
<1> DEFINE h == fifo[1]
<1>1. /\ UNCHANGED <<sent, lost, garbled>>
      /\ fifo # <<>> /\ Len(fifo) >= 1 /\ h \in Nat
      /\ Len(fifo') = Len(fifo) - 1
      /\ \A i \in 1 .. Len(fifo') : fifo'[i] = fifo[i + 1]
  BY DEF TakeByte, Handles, Shapes
<1>2. numByteIn \in 0 .. 2 /\ Head(fifo) = h
  BY <1>1 DEF TakeByte, Handles, Shapes
<1>3. h + Len(fifo) - 1 =< sent
  BY <1>1 DEF InOrder, PortSent
<1>4. \A i \in 1 .. Len(fifo') : h < fifo'[i] /\ fifo'[i] \in Nat
  <2>1. \A i \in 2 .. Len(fifo) : fifo[1] < fifo[i]
    BY <1>1 DEF InOrder, PortRises
  <2>2. ASSUME NEW i \in 1 .. Len(fifo')
        PROVE  h < fifo'[i] /\ fifo'[i] \in Nat
    <3>1. i + 1 \in 2 .. Len(fifo) /\ fifo'[i] = fifo[i + 1]
      BY <1>1
    <3> QED
      BY <2>1, <3>1
  <2> QED
    BY <2>2
<1>5. PortSent'
  <2>1. \A i \in 2 .. Len(fifo) : fifo[i] + (Len(fifo) - i) =< sent
    BY DEF InOrder, PortSent
  <2>2. ASSUME NEW i \in 1 .. Len(fifo')
        PROVE  fifo'[i] + (Len(fifo') - i) =< sent
    <3>1. fifo'[i] = fifo[i + 1] /\ i + 1 \in 2 .. Len(fifo)
      BY <1>1
    <3>2. fifo[i + 1] + (Len(fifo) - (i + 1)) =< sent
      BY <2>1, <3>1
    <3> QED
      BY <1>1, <3>1, <3>2
  <2> QED
    BY <1>1, <2>2 DEF PortSent
<1>6. PortRises'
  <2>1. ASSUME NEW i \in 1 .. Len(fifo'), NEW j \in 1 .. Len(fifo'), i < j
        PROVE  fifo'[i] < fifo'[j]
    <3>1. i + 1 \in 1 .. Len(fifo) /\ j + 1 \in 1 .. Len(fifo) /\ i + 1 < j + 1
      BY <1>1, <2>1
    <3>2. fifo[i + 1] < fifo[j + 1]
      BY <3>1 DEF InOrder, PortRises
    <3> QED
      BY <1>1, <3>2
  <2> QED
    BY <2>1 DEF PortRises
<1>7. CASE numByteIn > 0 \/ First(h)
  <2>1. /\ bytes' = [bytes EXCEPT ![numByteIn + 1] = h]
        /\ numByteIn' = numByteIn + 1
    BY <1>2, <1>7 DEF TakeByte
  <2> HIDE DEF h
  <2>2. /\ bytes'[numByteIn + 1] = h
        /\ \A i \in 1 .. numByteIn : bytes'[i] = bytes[i]
    BY <1>2, <2>1
  <2>3. \A i \in 1 .. numByteIn : bytes[i] < h
    <3>1. numByteIn > 0 => bytes[numByteIn] < h
      BY <1>1 DEF InOrder, PacketFirst, h
    <3>2. ASSUME NEW i \in 1 .. numByteIn PROVE bytes[i] < h
      <4>1. CASE i = numByteIn
        BY <3>1, <4>1
      <4>2. CASE i < numByteIn
        <5>1. bytes[i] < bytes[numByteIn]
          BY <4>2, <1>2 DEF InOrder, PacketRises
        <5> QED
          BY <5>1, <3>1, <1>1, <1>2
      <4> QED
        BY <4>1, <4>2, <1>2
    <3> QED
      BY <3>2
  <2>4. PacketRises'
    <3>1. \A i, j \in 1 .. numByteIn : i < j => bytes'[i] < bytes'[j]
      BY <2>2 DEF InOrder, PacketRises
    <3>2. \A i \in 1 .. numByteIn : bytes'[i] < bytes'[numByteIn + 1]
      BY <2>2, <2>3
    <3> QED
      BY <1>2, <2>1, <3>1, <3>2 DEF PacketRises
  <2>5. First(bytes'[1])
    <3>1. CASE numByteIn = 0
      BY <1>7, <2>2, <3>1
    <3>2. CASE numByteIn > 0
      BY <1>2, <2>2, <3>2 DEF InOrder, PacketFirst
    <3> QED
      BY <1>2, <3>1, <3>2
  <2>6. /\ bytes'[numByteIn'] + Len(fifo') =< sent
        /\ \A i \in 1 .. Len(fifo') : bytes'[numByteIn'] < fifo'[i]
    BY <1>1, <1>3, <1>4, <2>1, <2>2
  <2>7. InOrder'
    BY <1>1, <1>5, <1>6, <2>4, <2>5, <2>6 DEF InOrder, PacketFirst
  <2>8. garbled =< lost - sent + Len(fifo') + bytes'[1] + numByteIn' - 1
    <3>1. CASE numByteIn = 0
      <4>1. garbled =< lost - sent + Len(fifo) + h - 1
        BY <1>1, <3>1 DEF Slack, h
      <4> QED
        BY <1>1, <2>1, <2>2, <3>1, <4>1
    <3>2. CASE numByteIn > 0
      BY <1>1, <1>2, <2>1, <2>2, <3>2 DEF Slack
    <3> QED
      BY <1>2, <3>1, <3>2
  <2>9. Slack'
    BY <1>1, <1>2, <2>1, <2>8 DEF Slack
  <2> QED
    BY <2>7, <2>9
<1>8. CASE ~(numByteIn > 0 \/ First(h))
  <2>1. UNCHANGED <<bytes, numByteIn>> /\ numByteIn = 0
    BY <1>2, <1>8 DEF TakeByte
  <2>2. InOrder'
    BY <1>5, <1>6, <2>1 DEF InOrder, PacketRises, PacketFirst
  <2>3. fifo' # <<>> =>
          garbled =< lost - sent + Len(fifo') + fifo'[1] - 1
    <3>1. garbled =< lost - sent + Len(fifo) + h - 1
      BY <1>1, <2>1 DEF Slack
    <3>2. fifo' # <<>> => Len(fifo') >= 1
      BY DEF TakeByte, Shapes
    <3>3. fifo' # <<>> => h < fifo'[1] /\ fifo'[1] \in Nat
      BY <1>1, <1>4, <3>2
    <3> QED
      BY <1>1, <3>1, <3>3
  <2> QED
    BY <1>1, <2>1, <2>2, <2>3 DEF Slack
<1> QED
  BY <1>7, <1>8

LEMMA CompleteInOrder ==
    ASSUME Shapes, Numbers, numByteIn = 3, InOrder, Slack, Complete
    PROVE  InOrder' /\ Slack'
<1> USE DEF Numbers
<1>1. /\ UNCHANGED <<sent, lost, fifo, bytes>> /\ numByteIn' = 0
      /\ garbled' = garbled + (IF Whole(bytes) THEN 0 ELSE 1)
  BY DEF Complete, Handles
<1>2. InOrder'
  BY <1>1 DEF InOrder, PortSent, PortRises, PacketRises, PacketFirst
<1>3. /\ First(bytes[1]) /\ bytes[1] < bytes[2] /\ bytes[2] < bytes[3]
      /\ bytes[3] + Len(fifo) =< sent
  BY <1>1 DEF InOrder, PacketRises, PacketFirst
<1>4. fifo # <<>> => bytes[3] < fifo[1] /\ fifo[1] \in Nat
  <2>1. fifo # <<>> => 1 \in 1 .. Len(fifo)
    BY DEF Shapes
  <2> QED
    BY <2>1 DEF InOrder, PacketFirst
<1>5. garbled =< lost - sent + Len(fifo) + bytes[1] + 2
  BY <1>1 DEF Slack
<1>6. garbled' =< lost - sent + Len(fifo) + bytes[3]
  <2>1. bytes[1] \in Nat /\ bytes[2] \in Nat /\ bytes[3] \in Nat
    OBVIOUS
  <2>2. CASE bytes[3] = bytes[1] + 2
    <3>1. Whole(bytes)
      BY <1>3, <2>1, <2>2 DEF Whole
    <3>2. garbled' = garbled
      BY <1>1, <3>1
    <3> QED
      BY <1>5, <2>1, <2>2, <3>2
  <2>3. CASE bytes[3] >= bytes[1] + 3
    <3>1. garbled' =< garbled + 1
      BY <1>1
    <3>2. garbled' \in Nat
      BY <1>1
    <3> QED
      BY <1>5, <2>1, <2>3, <3>1, <3>2
  <2> QED
    BY <1>3, <2>1, <2>2, <2>3
<1>7. garbled' \in Nat
  BY <1>1
<1>8. garbled' =< lost
  BY <1>1, <1>3, <1>6, <1>7
<1>9. fifo # <<>> => garbled' =< lost - sent + Len(fifo) + fifo[1] - 1
  BY <1>4, <1>6, <1>7
<1>10. Slack'
  BY <1>1, <1>8, <1>9 DEF Slack
<1> QED
  BY <1>2, <1>10

LEMMA NextInOrder ==
    Shapes /\ InOrder /\ Slack /\ [Next]_vars => InOrder' /\ Slack'
<1> SUFFICES ASSUME Shapes, InOrder, Slack, [Next]_vars
             PROVE  InOrder' /\ Slack'
  OBVIOUS
<1>1. CASE Arrive \/ TakeByte \/ Complete
  <2>1. Numbers
    BY ShapesAreNumbers
  <2>2. /\ TakeByte => numByteIn # 3
        /\ Complete => numByteIn = 3
    BY DEF Shapes, MY_NBYTES, TakeByte, Complete, Handles
  <2> QED
    BY <1>1, <2>1, <2>2, ArriveInOrder, TakeByteInOrder, CompleteInOrder
<1>2. CASE UNCHANGED <<sent, fifo, lost, numByteIn, bytes, garbled>>
  BY <1>2 DEF InOrder, PortSent, PortRises, PacketRises, PacketFirst, Slack
<1>3. ASSUME NEW p \in Procs, ProcStep(p)
      PROVE  UNCHANGED <<sent, fifo, lost, numByteIn, bytes, garbled>>
  BY <1>3, ProcLeaves DEF port, packet
<1> QED
  BY <1>1, <1>2, <1>3
     DEF Next, my_interrupt, ProcStep, vars, port, packet, Enter, Return,
         WakeReaders, TestUser, ScheduleSignal, SendSignal, Handles

-----------------------------------------------------------------------------
(* The theorems *)

IInv ==
    /\ Shapes /\ RemembersAnOpener /\ LineComesBack /\ Quiet
    /\ InOrder /\ Slack

LEMMA InitIInv == Init => IInv
<1> SUFFICES ASSUME Init PROVE IInv
  OBVIOUS
<1>1. Shapes
  BY InitShapes
<1>2. RemembersAnOpener /\ Quiet
  BY DEF Init, RemembersAnOpener, Quiet
<1>3. LineComesBack
  <2>1. Disabling = {}
    BY DEF Init, Disabling
  <2> QED
    BY <2>1, FS_EmptySet DEF Init, LineComesBack
<1>4. InOrder /\ Slack
  BY DEF Init, InOrder, PortSent, PortRises, PacketRises, PacketFirst, Slack
<1> QED
  BY <1>1, <1>2, <1>3, <1>4 DEF IInv

LEMMA NextIInv == IInv /\ [Next]_vars => IInv'
BY NextShapes, NextRemembers, NextLineComesBack, NextQuiet, NextInOrder
   DEF IInv

LEMMA Invariance == Spec => []IInv
BY InitIInv, NextIInv, PTL DEF Spec

\* The types and bounds of TypeOK: how deep the interrupt is disabled is bounded
\* by the processes and the failed copies, and garbled packets by the bytes.
THEOREM TypeCorrect == Spec => []TypeOK
<1>1. IInv => TypeOK
  <2> SUFFICES ASSUME IInv PROVE TypeOK
    OBVIOUS
  <2>1. Shapes /\ LineComesBack /\ Resync
    BY SlackPays, ShapesAreNumbers DEF IInv
  <2>2. depth \in 0 .. Cardinality(Procs) + MaxFaults
    BY <2>1, DisablingIsFinite, ConstantsAssumption DEF LineComesBack, Shapes
  <2>3. sched \in BOOLEAN /\ oops \in BOOLEAN
    BY <2>1, Zenon DEF Shapes
  <2> QED
    BY <2>1, <2>2, <2>3, ConstantsAssumption DEF Shapes, TypeOK, Resync
<1> QED
  BY <1>1, Invariance, PTL

\* A byte lost in the port costs at most one garbled packet, however many bytes
\* the mouse sends and wherever in a packet the module was loaded.
THEOREM ResyncHolds == Spec => []Resync
<1>1. IInv => Resync
  BY SlackPays, ShapesAreNumbers DEF IInv
<1> QED
  BY <1>1, Invariance, PTL

\* The process t_sendsig would signal has the device open, for any number of
\* processes that open and release it around each other.
THEOREM OpenerIsRemembered == Spec => []RemembersAnOpener
<1>1. IInv => RemembersAnOpener
  BY DEF IInv
<1> QED
  BY <1>1, Invariance, PTL

\* disable_irq and enable_irq of mymouse_read are balanced but for the copies
\* that failed, for any number of readers.
THEOREM LineIsGivenBack == Spec => []LineComesBack
<1>1. IInv => LineComesBack
  BY DEF IInv
<1> QED
  BY <1>1, Invariance, PTL

\* From the return of disable_irq to the clearing of ready no step changes the
\* packet, for any number of readers.
THEOREM PacketStaysStill == Spec => PacketIsStill
<1>1. IInv /\ [Next]_vars =>
        [(\E p \in Procs : proc[p] \in {"copy", "clear"}) => bytes' = bytes]_vars
  BY IdleLeavesPacket DEF IInv, Quiet
<1> QED
  BY <1>1, Invariance, PTL DEF Spec, PacketIsStill

-----------------------------------------------------------------------------
(* The packet that is noticed *)

\* Where mymouse_read and poll() sleep
Asleep == {p \in Procs : proc[p] \in {"sleep", "pollsleep"}}

\* While somebody sleeps on a packet that is there the handler is about to wake
\* whoever sleeps.
NoticeComes == ready = 1 /\ Asleep # {} => handler = "wake"

LEMMA NextNoticeComes == Shapes /\ NoticeComes /\ [Next]_vars => NoticeComes'
<1> SUFFICES ASSUME Shapes, NoticeComes, [Next]_vars PROVE NoticeComes'
  OBVIOUS
<1> USE DEF NoticeComes
<1>1. CASE UNCHANGED <<ready, proc>> /\ handler # "wake"
  BY <1>1 DEF Asleep
<1>2. CASE UNCHANGED <<ready, proc, handler>>
  BY <1>2 DEF Asleep
<1>3. CASE Complete
  BY <1>3 DEF Complete, Handles
<1>4. CASE WakeReaders
  <2>1. \A p \in Procs : proc'[p] \notin {"sleep", "pollsleep"}
    BY <1>4 DEF WakeReaders, Woken
  <2> QED
    BY <2>1 DEF Asleep
<1>5. ASSUME NEW p \in Procs, ProcStep(p) PROVE NoticeComes'
  <2>1. handler' = handler
    BY <1>5, ProcLeaves
  <2>2. CASE ReadWait(p)
    <3>1. CASE ready = 1
      <4>1. Asleep' \subseteq Asleep
        BY <2>2, <3>1 DEF ReadWait, Goes, Asleep, Shapes
      <4> QED
        BY <2>1, <2>2, <4>1 DEF ReadWait
    <3>2. CASE ready # 1
      BY <2>2, <3>2 DEF ReadWait
    <3> QED
      BY <3>1, <3>2
  <2>3. CASE PollMask(p)
    <3>1. CASE ready = 1
      <4>1. Asleep' \subseteq Asleep
        BY <2>3, <3>1 DEF PollMask, Goes, Asleep, Shapes
      <4> QED
        BY <2>1, <2>3, <4>1 DEF PollMask
    <3>2. CASE ready # 1
      BY <2>3, <3>2 DEF PollMask
    <3> QED
      BY <3>1, <3>2
  <2>4. CASE /\ ready' \in {0, ready}
             /\ \E to \in Places \ {"sleep", "pollsleep"} :
                   proc' = [proc EXCEPT ![p] = to]
    <3>1. Asleep' \subseteq Asleep
      BY <2>4 DEF Asleep, Shapes
    <3> QED
      BY <2>1, <2>4, <3>1
  <2> QED
    BY <1>5, <2>2, <2>3, <2>4
       DEF ProcStep, mymouse_open, mymouse_release, mymouse_read, OpenReset,
           OpenRemember, ReleaseReset, ReleaseTest, KillTasklet,
           ReleaseForget, ReadCall, ReadTest, ReadWoken, DisableIrq,
           SynchronizeIrq, Copy, ClearReady, EnableIrq, PollCall, Signal,
           Goes, Places
<1> QED
  BY <1>1, <1>2, <1>3, <1>4, <1>5
     DEF Next, my_interrupt, ProcStep, vars, Arrive, Enter, TakeByte, Return,
         TestUser, ScheduleSignal, SendSignal, Handles

\* Between a process' look at ready and its sleep, or between two processes that
\* open, read and close, no wake-up is lost: while somebody sleeps and a packet
\* is there, my_interrupt is between its atomic_set and its
\* wake_up_interruptible.  ReadyIsNoticed then needs but that step.
THEOREM NoticeIsNeverLost == Spec => []NoticeComes
<1>1. Init => NoticeComes
  BY DEF Init, NoticeComes
<1>2. IInv => Shapes
  BY DEF IInv
<1> QED
  BY <1>1, <1>2, NextNoticeComes, Invariance, PTL DEF Spec
=============================================================================
