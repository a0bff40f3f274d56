--------------------------- MODULE CharFileProofs ---------------------------
(***************************************************************************)
(* The properties of CharFile, for every catalogue of drivers, device      *)
(* size, width of an int and of a position, and any number of processes    *)
(* and open files.                                                         *)
(***************************************************************************)
EXTENDS CharFile, TLAPS

\* The kernel has let no call in that would overflow a position.
Room == \A p \in Procs : InCall(p) => call[p].from + call[p].count =< MaxPos

\* The record of the driver that is loaded is one of the catalogue.
LEMMA KindOfDriver ==
    ASSUME TypeOK
    PROVE  /\ me.cut \in {"none", "refuse", "clamp", "shrink", "stop"}
           /\ me.memory \in {"fixed", "each", "shared"}
           /\ me.seek \in {"own", "default"}
           /\ me.checked \in BOOLEAN
           /\ me.whole \in BOOLEAN
           /\ me.moves \in BOOLEAN
           /\ me.clears \in BOOLEAN
BY CharFileAssumption DEF TypeOK, me

\* What a driver asks to be copied fits an unsigned count, whichever way it cuts.
LEMMA AskedIsCount ==
    ASSUME TypeOK, NEW pos \in Positions, NEW n \in 0 .. MaxCount,
           pos + n =< MaxPos
    PROVE  Asked(pos, n) \in Counts
<1>1. CASE me.cut = "none"
  BY <1>1, CharFileAssumption DEF Asked, Counts, Positions
<1>2. CASE me.cut = "refuse"
  BY <1>2, CharFileAssumption DEF Asked, Refuse, Counts, Positions
<1>3. CASE me.cut = "clamp"
  <2>1. Clamp(pos, n) \in 0 .. n
    BY DEF Clamp
  <2> QED
    BY <1>3, <2>1, CharFileAssumption DEF Asked, Counts, Positions
<1>4. CASE me.cut = "shrink"
  BY <1>4, CharFileAssumption DEF Asked, Shrink, Unsigned, Counts, Positions
<1>5. CASE me.cut = "stop"
  BY <1>5, CharFileAssumption DEF Asked, Stop, Counts, Positions
<1> QED
  BY <1>1, <1>2, <1>3, <1>4, <1>5, KindOfDriver

\* What every case of Begin needs of the call it makes.
LEMMA BeginIsTyped ==
    ASSUME TypeOK, NEW p \in Procs, NEW f \in Files, NEW n \in 0 .. MaxCount,
           NEW pos \in Positions, NEW given \in BOOLEAN,
           Begin(p, f, n, pos, given)
    PROVE  \E from \in Positions :
              /\ from = (IF me.moves THEN pos ELSE 0)
              /\ from + n =< MaxPos
              /\ Asked(from, n) \in Counts
              /\ call' = [call EXCEPT ![p] =
                            [at |-> "copy", on |-> f, from |-> from,
                             count |-> n, asked |-> Asked(from, n),
                             base |-> Memory(f), given |-> given]]
<1> DEFINE from == IF me.moves THEN pos ELSE 0
<1>1. from \in Positions /\ from + n =< MaxPos
  BY KindOfDriver, CharFileAssumption DEF Begin, Positions
<1>2. Asked(from, n) \in Counts
  <2> HIDE DEF from
  <2> QED BY <1>1, AskedIsCount
<1>3. call' = [call EXCEPT ![p] =
                  [at |-> "copy", on |-> f, from |-> from, count |-> n,
                   asked |-> Asked(from, n), base |-> Memory(f),
                   given |-> given]]
  BY DEF Begin
<1> QED
  BY <1>1, <1>2, <1>3

\* A copy comes to no more than was asked, and not past the largest position.
LEMMA CopiedFits ==
    ASSUME TypeOK, Room, NEW p \in Procs, InCall(p),
           NEW k \in 0 .. MaxCount, k \in Copied(call[p])
    PROVE  /\ k =< call[p].asked
           /\ call[p].from + k \in Positions
<1>1. /\ call[p].asked \in Counts
      /\ call[p].from \in Positions
      /\ call[p].count \in 0 .. MaxCount
  BY DEF TypeOK
<1>2. call[p].from + call[p].count =< MaxPos
  BY DEF Room
<1>3. CASE call[p].asked > call[p].count \/ call[p].base = Null
  BY <1>1, <1>3, CharFileAssumption DEF Copied, Counts, Positions
<1>4. CASE ~(call[p].asked > call[p].count \/ call[p].base = Null)
  <2>1. k \in 0 .. call[p].asked
    BY <1>1, <1>4, KindOfDriver DEF Copied, Counts
  <2> QED
    BY <1>1, <1>2, <1>4, <2>1, CharFileAssumption DEF Counts, Positions
<1> QED
  BY <1>3, <1>4

-----------------------------------------------------------------------------

(* Types, and that no position overflows: read and write return with a      *)
(* position that pread, lseek and the next call can take.                   *)
LEMMA TypeInit == Init => TypeOK /\ Room
<1> SUFFICES ASSUME Init PROVE TypeOK /\ Room
  OBVIOUS
<1>1. PICK o \in Objects : /\ ramdisk = IF me.memory = "fixed" THEN o ELSE Null
                           /\ used = {ramdisk} \ {Null}
  BY DEF Init
<1>2. ramdisk \in Objects \cup {Null} /\ used \subseteq Objects
  BY <1>1
<1>3. Idle \in [at : {"user", "copy"}, on : Files \cup {Null},
                from : Positions, count : 0 .. MaxCount, asked : Counts,
                base : Objects \cup {Null}, given : BOOLEAN]
  BY CharFileAssumption DEF Idle, Positions, Counts
<1>4. Closed \in [open : BOOLEAN, pos : Positions, own : Objects \cup {Null}]
  BY CharFileAssumption DEF Closed, Positions
<1>5. TypeOK
  BY <1>2, <1>3, <1>4 DEF Init, TypeOK
<1>6. Room
  BY DEF Init, Room, InCall, Idle
<1> QED
  BY <1>5, <1>6

\* read, write, pread and pwrite, as far as the copy.
LEMMA BeginKeepsTypes ==
    ASSUME TypeOK, Room, NEW p \in Procs, NEW f \in Files,
           NEW n \in 0 .. MaxCount, NEW pos \in Positions,
           NEW given \in BOOLEAN, Begin(p, f, n, pos, given)
    PROVE  TypeOK' /\ Room'
<1>1. PICK from \in Positions :
         /\ from + n =< MaxPos
         /\ Asked(from, n) \in Counts
         /\ call' = [call EXCEPT ![p] =
                       [at |-> "copy", on |-> f, from |-> from, count |-> n,
                        asked |-> Asked(from, n), base |-> Memory(f),
                        given |-> given]]
  BY BeginIsTyped
<1>2. Memory(f) \in Objects \cup {Null}
  BY DEF Memory, TypeOK
<1>3. TypeOK'
  <2> HIDE DEF Asked, Memory
  <2> QED BY <1>1, <1>2 DEF Begin, TypeOK
<1>4. Room'
  BY <1>1 DEF Room, InCall, TypeOK
<1> QED
  BY <1>3, <1>4

\* The steps of Next, one by one.
LEMMA TypeStep == TypeOK /\ Room /\ [Next]_vars => TypeOK' /\ Room'
<1> SUFFICES ASSUME TypeOK, Room, [Next]_vars
             PROVE  TypeOK' /\ Room'
  OBVIOUS
<1>1. ASSUME NEW f \in Files, Open(f)
      PROVE  TypeOK' /\ Room'
  <2>1. file' \in [Files -> [open : BOOLEAN, pos : Positions,
                            own : Objects \cup {Null}]]
    <3>1. PICK o \in Objects \cup {Null} : Opened(f, o) \/ UNCHANGED file
      BY <1>1 DEF Open
    <3>2. [open |-> TRUE, pos |-> 0, own |-> o]
             \in [open : BOOLEAN, pos : Positions, own : Objects \cup {Null}]
      BY CharFileAssumption DEF Positions
    <3> QED
      BY <3>1, <3>2 DEF Opened, TypeOK
  <2>2. ramdisk' \in Objects \cup {Null} /\ used' \subseteq Objects
    BY <1>1 DEF Open, TypeOK
  <2> QED
    BY <1>1, <2>1, <2>2 DEF Open, TypeOK, Room, InCall
<1>2. ASSUME NEW f \in Files, Release(f)
      PROVE  TypeOK' /\ Room'
  BY <1>2, CharFileAssumption
     DEF Release, TypeOK, Room, InCall, Closed, Positions
<1>3. ASSUME NEW f \in Files, NEW t \in -1 .. MaxPos, Seek(f, t)
      PROVE  TypeOK' /\ Room'
  <2>1. OwnSeek(t) \in Positions
    BY CharFileAssumption DEF OwnSeek, Unsigned, Positions
  <2>2. (IF me.seek = "own" THEN OwnSeek(t) ELSE t) \in Positions
    BY <1>3, <2>1, KindOfDriver, CharFileAssumption DEF Seek, Positions
  <2> QED
    BY <1>3, <2>2 DEF Seek, TypeOK, Room, InCall
<1>4. ASSUME NEW p \in Procs, NEW f \in Files, NEW n \in 0 .. MaxCount,
             Call(p, f, n)
      PROVE  TypeOK' /\ Room'
  <2>1. file[f].pos \in Positions
    BY DEF TypeOK
  <2> QED
    BY <1>4, <2>1, BeginKeepsTypes DEF Call
<1>5. ASSUME NEW p \in Procs, NEW f \in Files, NEW n \in 0 .. MaxCount,
             NEW pos \in Positions, CallAt(p, f, n, pos)
      PROVE  TypeOK' /\ Room'
  BY <1>5, BeginKeepsTypes DEF CallAt
<1>6. ASSUME NEW p \in Procs, NEW k \in 0 .. MaxCount, Return(p, k)
      PROVE  TypeOK' /\ Room'
  <2>1. call[p].from + k \in Positions
    BY <1>6, CopiedFits DEF Return
  <2>2. Idle \in [at : {"user", "copy"}, on : Files \cup {Null},
                  from : Positions, count : 0 .. MaxCount, asked : Counts,
                  base : Objects \cup {Null}, given : BOOLEAN]
    BY CharFileAssumption DEF Idle, Positions, Counts
  <2>3. call' = [call EXCEPT ![p] = Idle]
    BY <1>6 DEF Return
  <2>4. file' \in [Files -> [open : BOOLEAN, pos : Positions,
                            own : Objects \cup {Null}]]
    BY <1>6, <2>1 DEF Return, TypeOK
  <2>5. TypeOK'
    BY <1>6, <2>2, <2>3, <2>4 DEF Return, TypeOK
  <2>6. Room'
    BY <2>3 DEF Room, InCall, Idle, TypeOK
  <2> QED
    BY <2>5, <2>6
<1>7. ASSUME NEW p \in Procs, NEW f \in Files, Clear(p, f)
      PROVE  TypeOK' /\ Room'
  <2>1. ClearCall(f) \in [at : {"user", "copy"}, on : Files \cup {Null},
                          from : Positions, count : 0 .. MaxCount,
                          asked : Counts, base : Objects \cup {Null},
                          given : BOOLEAN]
    BY CharFileAssumption DEF ClearCall, TypeOK, Memory, Positions, Counts
  <2>2. TypeOK'
    BY <1>7, <2>1 DEF Clear, TypeOK
  <2>3. Room'
    BY <1>7, CharFileAssumption DEF Clear, ClearCall, Room, InCall, TypeOK
  <2> QED
    BY <2>2, <2>3
<1>8. CASE UNCHANGED vars
  BY <1>8 DEF vars, TypeOK, Room, InCall
<1> QED
  BY <1>1, <1>2, <1>3, <1>4, <1>5, <1>6, <1>7, <1>8,
      CharFileAssumption DEF Next

(* No position overflows and no count is negative, whatever the sizes of    *)
(* the device, of an int and of a position.                                 *)
THEOREM TypeCorrect == Spec => []TypeOK
<1>1. Init => TypeOK /\ Room
  BY TypeInit
<1>2. (TypeOK /\ Room) /\ [Next]_vars => (TypeOK /\ Room)'
  BY TypeStep
<1> QED
  BY <1>1, <1>2, PTL DEF Spec

-----------------------------------------------------------------------------
(* The end of the device *)

\* Drivers that look at the end cut there, at any position.
LEMMA WatchedCount ==
    ASSUME TypeOK, NEW pos \in Positions, NEW n \in 0 .. MaxCount,
           me.cut \in {"refuse", "stop"}
    PROVE  Asked(pos, n) = 0 \/ pos + Asked(pos, n) =< Size
<1>1. CASE me.cut = "refuse"
  BY <1>1, CharFileAssumption DEF Asked, Refuse, Positions
<1>2. CASE me.cut = "stop"
  BY <1>2, CharFileAssumption DEF Asked, Stop, Positions
<1> QED
  BY <1>1, <1>2

\* In the device, size - pos is an int, and cuts as it is meant to.
LEMMA ClampedCount ==
    ASSUME TypeOK, NEW pos \in 0 .. Size, NEW n \in 0 .. MaxCount,
           me.cut = "clamp"
    PROVE  pos + Asked(pos, n) =< Size
<1>1. Size - pos \in 0 .. IntMax
  BY CharFileAssumption
<1>2. ToInt(Size - pos) = Size - pos
  BY <1>1, CharFileAssumption DEF ToInt
<1>3. Clamp(pos, n) =< Size - pos
  BY <1>1, <1>2, CharFileAssumption DEF Clamp
<1>4. Clamp(pos, n) \in 0 .. n
  BY DEF Clamp
<1> QED
  BY <1>3, <1>4, CharFileAssumption DEF Asked

Seeks == me.cut = "clamp" /\ me.seek = "own"

\* Under a driver with an lseek of its own all positions are in the device,
\* those in files and those that calls will store.
PositionsInDevice ==
    Seeks =>
        /\ \A f \in Files : file[f].pos =< Size
        /\ \A p \in Procs :
              InCall(p) /\ ~call[p].given =>
                  /\ call[p].from =< Size
                  /\ call[p].from + call[p].asked =< Size

DeviceInv == TypeOK /\ Room /\ InDevice /\ PositionsInDevice

\* The invariant holds of a device that nobody has opened.
LEMMA DeviceInit == Init => DeviceInv
<1> SUFFICES ASSUME Init PROVE DeviceInv
  OBVIOUS
<1>1. \A p \in Procs : ~InCall(p)
  BY DEF Init, InCall, Idle
<1>2. \A f \in Files : file[f].pos =< Size
  BY CharFileAssumption DEF Init, Closed
<1> QED
  BY <1>1, <1>2, TypeInit DEF DeviceInv, InDevice, PositionsInDevice

\* A call that begins cuts at the end of the device.
LEMMA BeginStaysInDevice ==
    ASSUME DeviceInv, NEW p \in Procs, NEW f \in Files,
           NEW n \in 0 .. MaxCount, NEW pos \in Positions,
           NEW given \in BOOLEAN, Begin(p, f, n, pos, given),
           ~given => pos = file[f].pos
    PROVE  InDevice' /\ PositionsInDevice'
<1>1. PICK from \in Positions :
         /\ from = (IF me.moves THEN pos ELSE 0)
         /\ Asked(from, n) \in Counts
         /\ call' = [call EXCEPT ![p] =
                       [at |-> "copy", on |-> f, from |-> from, count |-> n,
                        asked |-> Asked(from, n), base |-> Memory(f),
                        given |-> given]]
  BY BeginIsTyped DEF DeviceInv
<1>2. me' = me /\ file' = file
  BY DEF Begin, me
<1>3. /\ WatchesAt' <=> WatchesAt
      /\ Watches' <=> Watches
      /\ Seeks' <=> Seeks
  BY <1>2 DEF Watches, WatchesAt, Seeks
<1>4. /\ call'[p].from = from
      /\ call'[p].asked = Asked(from, n)
      /\ call'[p].given = given
  BY <1>1 DEF DeviceInv, TypeOK
<1>5. \A q \in Procs \ {p} : call'[q] = call[q]
  BY <1>1 DEF DeviceInv, TypeOK
<1>6. Seeks /\ ~given => from \in 0 .. Size
  <2> SUFFICES ASSUME Seeks, ~given PROVE from \in 0 .. Size
    OBVIOUS
  <2>1. file[f].pos \in 0 .. Size
    BY CharFileAssumption DEF DeviceInv, PositionsInDevice, TypeOK, Positions
  <2> QED
    BY <1>1, <2>1, CharFileAssumption DEF DeviceInv
<1>7. Seeks /\ ~given => from =< Size /\ from + Asked(from, n) =< Size
  BY <1>6, ClampedCount, CharFileAssumption DEF DeviceInv, Seeks
<1>8. WatchesAt => Asked(from, n) = 0 \/ from + Asked(from, n) =< Size
  BY WatchedCount DEF WatchesAt, DeviceInv
<1>9. PositionsInDevice'
  BY <1>2, <1>3, <1>4, <1>5, <1>7 DEF PositionsInDevice, InCall, DeviceInv
<1>10. InDevice'
  BY <1>3, <1>4, <1>5, <1>7, <1>8
     DEF InDevice, InCall, DeviceInv, Watches, WatchesAt, Seeks
<1> QED
  BY <1>9, <1>10

\* Every step keeps it.
LEMMA DeviceStep == DeviceInv /\ [Next]_vars => DeviceInv'
<1> SUFFICES ASSUME DeviceInv, [Next]_vars
             PROVE  InDevice' /\ PositionsInDevice'
  BY TypeStep DEF DeviceInv
<1>1. ASSUME NEW f \in Files, Open(f)
      PROVE  InDevice' /\ PositionsInDevice'
  <2>1. UNCHANGED <<driver, call>>
    BY <1>1 DEF Open
  <2>2. \A g \in Files : file'[g].pos \in {0, file[g].pos}
    BY <1>1 DEF Open, Opened, DeviceInv, TypeOK
  <2> QED
    BY <2>1, <2>2, CharFileAssumption
       DEF DeviceInv, InDevice, PositionsInDevice, InCall, Watches, WatchesAt,
           Seeks, me
<1>2. ASSUME NEW f \in Files, Release(f)
      PROVE  InDevice' /\ PositionsInDevice'
  <2>1. UNCHANGED <<driver, call>>
    BY <1>2 DEF Release
  <2>2. \A g \in Files : file'[g].pos \in {0, file[g].pos}
    BY <1>2 DEF Release, Closed, DeviceInv, TypeOK
  <2> QED
    BY <2>1, <2>2, CharFileAssumption
       DEF DeviceInv, InDevice, PositionsInDevice, InCall, Watches, WatchesAt,
           Seeks, me
<1>3. ASSUME NEW f \in Files, NEW t \in -1 .. MaxPos, Seek(f, t)
      PROVE  InDevice' /\ PositionsInDevice'
  <2>1. UNCHANGED <<driver, call>>
    BY <1>3 DEF Seek
  <2>2. OwnSeek(t) =< Size
    BY CharFileAssumption DEF OwnSeek, Unsigned
  <2>3. Seeks => \A g \in Files : file'[g].pos \in {OwnSeek(t), file[g].pos}
    BY <1>3 DEF Seek, DeviceInv, TypeOK, Seeks
  <2> QED
    BY <2>1, <2>2, <2>3
       DEF DeviceInv, InDevice, PositionsInDevice, InCall, Watches, WatchesAt,
           Seeks, me
<1>4. ASSUME NEW p \in Procs, NEW f \in Files, NEW n \in 0 .. MaxCount,
             Call(p, f, n)
      PROVE  InDevice' /\ PositionsInDevice'
  <2>1. file[f].pos \in Positions
    BY DEF TypeOK, DeviceInv
  <2> QED
    BY <1>4, <2>1, BeginStaysInDevice DEF Call
<1>5. ASSUME NEW p \in Procs, NEW f \in Files, NEW n \in 0 .. MaxCount,
             NEW pos \in Positions, CallAt(p, f, n, pos)
      PROVE  InDevice' /\ PositionsInDevice'
  BY <1>5, BeginStaysInDevice DEF CallAt
<1>6. ASSUME NEW p \in Procs, NEW k \in 0 .. MaxCount, Return(p, k)
      PROVE  InDevice' /\ PositionsInDevice'
  <2>1. UNCHANGED driver /\ call' = [call EXCEPT ![p] = Idle]
    BY <1>6 DEF Return
  <2>2. /\ ~InCall(p)'
        /\ \A q \in Procs \ {p} : call'[q] = call[q]
    BY <2>1 DEF InCall, Idle, DeviceInv, TypeOK
  <2>3. k =< call[p].asked /\ call[p].from \in Positions
        /\ call[p].asked \in Counts
    BY <1>6, CopiedFits DEF Return, DeviceInv, TypeOK
  <2>4. Seeks => \A g \in Files : file'[g].pos =< Size
    <3> SUFFICES ASSUME Seeks, NEW g \in Files PROVE file'[g].pos =< Size
      OBVIOUS
    <3>1. file[g].pos =< Size
      BY DEF DeviceInv, PositionsInDevice
    <3>2. CASE file' = file
      BY <3>1, <3>2
    <3>3. CASE /\ ~call[p].given
               /\ file' = [file EXCEPT ![call[p].on].pos = call[p].from + k]
      <4>1. call[p].from + call[p].asked =< Size
        BY <1>6, <3>3 DEF DeviceInv, PositionsInDevice, Return
      <4>2. call[p].from + k =< Size
        BY <2>3, <4>1, CharFileAssumption DEF Positions, Counts
      <4>3. file'[g].pos \in {file[g].pos, call[p].from + k}
        BY <3>3 DEF DeviceInv, TypeOK
      <4> QED
        BY <3>1, <4>2, <4>3
    <3> QED
      BY <1>6, <3>2, <3>3 DEF Return
  <2> QED
    BY <2>1, <2>2, <2>4
       DEF DeviceInv, InDevice, PositionsInDevice, InCall, Watches, WatchesAt,
           Seeks, me
<1>7. ASSUME NEW p \in Procs, NEW f \in Files, Clear(p, f)
      PROVE  InDevice' /\ PositionsInDevice'
  <2>1. /\ UNCHANGED <<driver, file>>
        /\ call'[p].from = 0 /\ call'[p].asked = Size /\ call'[p].given
        /\ \A q \in Procs \ {p} : call'[q] = call[q]
    BY <1>7 DEF Clear, ClearCall, DeviceInv, TypeOK
  <2> QED
    BY <2>1, CharFileAssumption
       DEF DeviceInv, InDevice, PositionsInDevice, InCall, Watches, WatchesAt,
           Seeks, me
<1>8. CASE UNCHANGED vars
  BY <1>8 DEF vars, DeviceInv, InDevice, PositionsInDevice, InCall, Watches,
              WatchesAt, Seeks, me
<1> QED
  BY <1>1, <1>2, <1>3, <1>4, <1>5, <1>6, <1>7, <1>8,
      CharFileAssumption DEF Next

(* A driver that watches for the end of the device copies within it, for    *)
(* every size of device and int: with processes that share files, seek to   *)
(* where there is no device, and come back from copies cut short.           *)
THEOREM StaysInDevice == Spec => []InDevice
<1>1. DeviceInv => InDevice
  BY DEF DeviceInv
<1> QED
  BY <1>1, DeviceInit, DeviceStep, PTL DEF Spec

-----------------------------------------------------------------------------
(* The memory of an open file *)

\* The memory of init is there for good, and for everybody.
InitsMemory ==
    me.memory = "fixed" =>
        /\ ramdisk \in Objects /\ used = {ramdisk}
        /\ \A p \in Procs : InCall(p) => call[p].base = ramdisk

\* Every block belongs to one open file, which outlives the calls on it.
OwnMemory ==
    me.memory = "each" =>
        /\ ramdisk = Null
        /\ \A f \in Files :
              file[f].open =>
                  file[f].own \in used \cup (IF me.checked THEN {} ELSE {Null})
        /\ \A f, g \in Files :
              f # g /\ file[f].open /\ file[g].open
                  /\ file[f].own = file[g].own => file[f].own = Null
        /\ \A o \in used : \E f \in Files : file[f].open /\ file[f].own = o
        /\ \A p \in Procs :
              InCall(p) => /\ call[p].on \in Files
                           /\ file[call[p].on].open
                           /\ call[p].base = file[call[p].on].own

MemoryInv == TypeOK /\ Room /\ InitsMemory /\ OwnMemory

\* The invariant holds of a device that nobody has opened.
LEMMA MemoryInit == Init => MemoryInv
<1> SUFFICES ASSUME Init PROVE InitsMemory /\ OwnMemory
  BY TypeInit DEF MemoryInv
<1>1. PICK o \in Objects : /\ ramdisk = IF me.memory = "fixed" THEN o ELSE Null
                           /\ used = {ramdisk} \ {Null}
  BY DEF Init
<1>2. (\A p \in Procs : ~InCall(p)) /\ (\A f \in Files : ~file[f].open)
  BY DEF Init, InCall, Idle, Closed
<1>3. InitsMemory
  BY <1>1, <1>2, CharFileAssumption DEF InitsMemory
<1>4. OwnMemory
  BY <1>1, <1>2 DEF OwnMemory
<1> QED
  BY <1>3, <1>4

\* A step that leaves the memory alone and begins no call.
LEMMA MemoryLeftAlone ==
    ASSUME MemoryInv, UNCHANGED <<driver, ramdisk, used>>,
           \A f \in Files : /\ file'[f].open = file[f].open
                           /\ file'[f].own = file[f].own,
           \A p \in Procs : InCall(p)' => InCall(p) /\ call'[p] = call[p]
    PROVE  InitsMemory' /\ OwnMemory'
<1>1. me' = me
  BY DEF me
<1>2. InitsMemory'
  BY <1>1 DEF MemoryInv, InitsMemory
<1>3. OwnMemory'
  BY <1>1 DEF MemoryInv, OwnMemory
<1> QED
  BY <1>2, <1>3

\* A call takes the memory of its file, which is allocated.
LEMMA BeginUsesMemory ==
    ASSUME MemoryInv, NEW p \in Procs, NEW f \in Files,
           NEW n \in 0 .. MaxCount, NEW pos \in Positions,
           NEW given \in BOOLEAN, Begin(p, f, n, pos, given)
    PROVE  InitsMemory' /\ OwnMemory'
<1>1. PICK from \in Positions :
         call' = [call EXCEPT ![p] =
                       [at |-> "copy", on |-> f, from |-> from, count |-> n,
                        asked |-> Asked(from, n), base |-> Memory(f),
                        given |-> given]]
  BY BeginIsTyped DEF MemoryInv
<1>2. UNCHANGED <<driver, file, ramdisk, used>> /\ file[f].open /\ me' = me
  BY DEF Begin, me
<1>3. call'[p].on = f /\ call'[p].base = Memory(f)
  BY <1>1 DEF MemoryInv, TypeOK
<1>4. \A q \in Procs \ {p} : call'[q] = call[q]
  BY <1>1 DEF MemoryInv, TypeOK
<1>5. InitsMemory'
  BY <1>2, <1>3, <1>4 DEF MemoryInv, InitsMemory, InCall, Memory
<1>6. OwnMemory'
  BY <1>2, <1>3, <1>4 DEF MemoryInv, OwnMemory, InCall, Memory
<1> QED
  BY <1>5, <1>6

\* open gives a file memory that no other file has.
LEMMA OpenTakesMemory ==
    ASSUME MemoryInv, NEW f \in Files, Open(f)
    PROVE  InitsMemory' /\ OwnMemory'
<1>1. /\ UNCHANGED <<driver, call>> /\ me' = me /\ ~file[f].open
      /\ \A p \in Procs : InCall(p)' <=> InCall(p)
  BY DEF Open, me, InCall
<1>2. InitsMemory'
  BY <1>1 DEF MemoryInv, InitsMemory, Open
<1>3. OwnMemory'
  <2> SUFFICES ASSUME me.memory = "each" PROVE OwnMemory'
    BY <1>1 DEF OwnMemory
  <2>1. PICK o \in (Objects \ used) \cup {Null} :
          /\ used' = (used \cup {o}) \ {Null}
          /\ IF o = Null /\ me.checked THEN UNCHANGED file ELSE Opened(f, o)
          /\ ramdisk' = ramdisk
    BY DEF Open
  <2>2. Null \notin used
    BY CharFileAssumption DEF MemoryInv, TypeOK
  <2>3. CASE o = Null /\ me.checked
    <3>1. used' = used /\ file' = file
      BY <2>1, <2>2, <2>3
    <3> QED
      BY <1>1, <2>1, <3>1 DEF MemoryInv, OwnMemory
  <2>4. CASE ~(o = Null /\ me.checked)
    <3>1. /\ file'[f].open /\ file'[f].own = o
          /\ \A g \in Files \ {f} : file'[g] = file[g]
      BY <2>1, <2>4 DEF Opened, MemoryInv, TypeOK
    <3>2. \A p \in Procs :
            InCall(p) => /\ call[p].on \in Files \ {f}
                         /\ file'[call[p].on].open
                         /\ call[p].base = file'[call[p].on].own
      BY <1>1, <3>1 DEF MemoryInv, OwnMemory
    <3>3. /\ \A g \in Files \ {f} : file[g].open =>
                file[g].own \in used \cup (IF me.checked THEN {} ELSE {Null})
          /\ \A g, h \in Files \ {f} :
                g # h /\ file[g].open /\ file[h].open
                    /\ file[g].own = file[h].own => file[g].own = Null
          /\ \A u \in used : \E g \in Files \ {f} :
                file[g].open /\ file[g].own = u
          /\ ramdisk = Null
      BY <1>1 DEF MemoryInv, OwnMemory
    <3>4. o \in used' \cup (IF me.checked THEN {} ELSE {Null})
      BY <2>1, <2>4
    <3>5. used \subseteq used' /\ used' \subseteq used \cup ({o} \ {Null})
      BY <2>1, <2>2
    <3>6. \A g \in Files :
            file'[g].open =>
                file'[g].own \in used' \cup (IF me.checked THEN {} ELSE {Null})
      BY <3>1, <3>3, <3>4, <3>5
    <3>7. \A g, h \in Files :
            g # h /\ file'[g].open /\ file'[h].open
                /\ file'[g].own = file'[h].own => file'[g].own = Null
      BY <2>1, <3>1, <3>3
    <3>8. \A u \in used' : \E g \in Files : file'[g].open /\ file'[g].own = u
      BY <3>1, <3>3, <3>5
    <3> QED
      BY <1>1, <2>1, <3>2, <3>3, <3>6, <3>7, <3>8 DEF OwnMemory
  <2> QED
    BY <2>3, <2>4
<1> QED
  BY <1>2, <1>3

\* release frees the memory of its file, which no call uses any more.
LEMMA ReleaseFreesOwn ==
    ASSUME MemoryInv, NEW f \in Files, Release(f)
    PROVE  InitsMemory' /\ OwnMemory'
<1>1. /\ UNCHANGED <<driver, ramdisk, call>> /\ me' = me /\ file[f].open
      /\ \A p \in Procs : InCall(p)' <=> InCall(p)
  BY DEF Release, me, InCall
<1>2. InitsMemory'
  BY <1>1 DEF MemoryInv, InitsMemory, Release
<1>3. OwnMemory'
  <2> SUFFICES ASSUME me.memory = "each" PROVE OwnMemory'
    BY <1>1 DEF OwnMemory
  <2>1. used' = used \ {file[f].own}
    BY DEF Release, Memory
  <2>2. /\ ~file'[f].open
        /\ \A g \in Files \ {f} : file'[g] = file[g]
    BY DEF Release, Closed, MemoryInv, TypeOK
  <2>3. Null \notin used
    BY CharFileAssumption DEF MemoryInv, TypeOK
  <2>4. \A g \in Files \ {f} :
          file[g].open =>
              /\ file[g].own \in used \cup (IF me.checked THEN {} ELSE {Null})
              /\ file[g].own = file[f].own => file[g].own = Null
    BY <1>1 DEF MemoryInv, OwnMemory
  <2>5. \A g \in Files :
          file'[g].open =>
              file'[g].own \in used' \cup (IF me.checked THEN {} ELSE {Null})
    BY <2>1, <2>2, <2>3, <2>4
  <2>6. \A g, h \in Files :
          g # h /\ file'[g].open /\ file'[h].open
              /\ file'[g].own = file'[h].own => file'[g].own = Null
    BY <2>2 DEF MemoryInv, OwnMemory
  <2>7. \A u \in used' : \E g \in Files : file'[g].open /\ file'[g].own = u
    <3> SUFFICES ASSUME NEW u \in used'
                 PROVE  \E g \in Files : file'[g].open /\ file'[g].own = u
      OBVIOUS
    <3>1. PICK g \in Files : file[g].open /\ file[g].own = u
      BY <2>1 DEF MemoryInv, OwnMemory
    <3>2. g # f
      BY <2>1, <3>1
    <3> QED
      BY <2>2, <3>1, <3>2
  <2>8. \A p \in Procs :
          InCall(p) => /\ call[p].on \in Files
                       /\ file'[call[p].on].open
                       /\ call[p].base = file'[call[p].on].own
    <3>1. \A p \in Procs : InCall(p) => call[p].on # f
      BY DEF Release
    <3> QED
      BY <2>2, <3>1 DEF MemoryInv, OwnMemory
  <2> QED
    BY <1>1, <2>5, <2>6, <2>7, <2>8 DEF OwnMemory, MemoryInv
<1> QED
  BY <1>2, <1>3

\* Every step keeps it.
LEMMA MemoryStep == MemoryInv /\ [Next]_vars => MemoryInv'
<1> SUFFICES ASSUME MemoryInv, [Next]_vars
             PROVE  InitsMemory' /\ OwnMemory'
  BY TypeStep DEF MemoryInv
<1>1. ASSUME NEW f \in Files, Open(f) \/ Release(f)
      PROVE  InitsMemory' /\ OwnMemory'
  BY <1>1, OpenTakesMemory, ReleaseFreesOwn
<1>2. ASSUME NEW f \in Files, NEW t \in -1 .. MaxPos, Seek(f, t)
      PROVE  InitsMemory' /\ OwnMemory'
  <2>1. \A g \in Files : /\ file'[g].open = file[g].open
                         /\ file'[g].own = file[g].own
    BY <1>2 DEF Seek, MemoryInv, TypeOK
  <2> QED
    BY <1>2, <2>1, MemoryLeftAlone DEF Seek, InCall
<1>3. ASSUME NEW p \in Procs, NEW f \in Files, NEW n \in 0 .. MaxCount,
             Call(p, f, n)
      PROVE  InitsMemory' /\ OwnMemory'
  <2>1. file[f].pos \in Positions
    BY DEF TypeOK, MemoryInv
  <2> QED
    BY <1>3, <2>1, BeginUsesMemory DEF Call
<1>4. ASSUME NEW p \in Procs, NEW f \in Files, NEW n \in 0 .. MaxCount,
             NEW pos \in Positions, CallAt(p, f, n, pos)
      PROVE  InitsMemory' /\ OwnMemory'
  BY <1>4, BeginUsesMemory DEF CallAt
<1>5. ASSUME NEW p \in Procs, NEW k \in 0 .. MaxCount, Return(p, k)
      PROVE  InitsMemory' /\ OwnMemory'
  <2>1. \A g \in Files : /\ file'[g].open = file[g].open
                         /\ file'[g].own = file[g].own
    BY <1>5 DEF Return, MemoryInv, TypeOK
  <2>2. \A q \in Procs : InCall(q)' => InCall(q) /\ call'[q] = call[q]
    BY <1>5 DEF Return, InCall, Idle, MemoryInv, TypeOK
  <2> QED
    BY <1>5, <2>1, <2>2, MemoryLeftAlone DEF Return
<1>6. ASSUME NEW p \in Procs, NEW f \in Files, Clear(p, f)
      PROVE  InitsMemory' /\ OwnMemory'
  <2>1. /\ UNCHANGED <<driver, file, ramdisk, used>>
        /\ file[f].open /\ me' = me
        /\ call'[p].on = f /\ call'[p].base = Memory(f)
        /\ \A q \in Procs \ {p} : call'[q] = call[q]
    BY <1>6 DEF Clear, ClearCall, MemoryInv, TypeOK, me
  <2>2. InitsMemory'
    BY <2>1 DEF MemoryInv, InitsMemory, InCall, Memory
  <2>3. OwnMemory'
    BY <2>1 DEF MemoryInv, OwnMemory, InCall, Memory
  <2> QED
    BY <2>2, <2>3
<1>7. CASE UNCHANGED vars
  BY <1>7, MemoryLeftAlone DEF vars, InCall
<1> QED
  BY <1>1, <1>2, <1>3, <1>4, <1>5, <1>6, <1>7, CharFileAssumption
      DEF Next

\* The two properties follow from it.
LEMMA MemoryInvGives == MemoryInv => UsesLiveMemory /\ ClosedLeavesNothing
<1> SUFFICES ASSUME MemoryInv, me.memory # "shared"
             PROVE  UsesLiveMemory /\ ClosedLeavesNothing
  BY DEF UsesLiveMemory, ClosedLeavesNothing
<1>1. CASE me.memory = "fixed"
  BY <1>1, CharFileAssumption
     DEF MemoryInv, InitsMemory, UsesLiveMemory, ClosedLeavesNothing
<1>2. CASE me.memory = "each"
  <2>1. UsesLiveMemory
    BY <1>2 DEF MemoryInv, OwnMemory, UsesLiveMemory
  <2>2. ClosedLeavesNothing
    BY <1>2 DEF MemoryInv, OwnMemory, ClosedLeavesNothing
  <2> QED
    BY <2>1, <2>2
<1> QED
  BY <1>1, <1>2, KindOfDriver DEF MemoryInv

(* A call copies from and to memory that is allocated, however the other    *)
(* processes open, close and fail to open the device meanwhile.             *)
THEOREM MemoryIsLive == Spec => []UsesLiveMemory
BY MemoryInit, MemoryStep, MemoryInvGives, PTL DEF Spec

(* The last release gives back all that the opens took.                     *)
THEOREM NothingIsKept == Spec => []ClosedLeavesNothing
BY MemoryInit, MemoryStep, MemoryInvGives, PTL DEF Spec

-----------------------------------------------------------------------------
(* Nothing is read only where there is nothing *)

\* No number but 0 is 0 in an int, in the device; the others are past the end.
LEMMA NoneAskedAtTheEnd ==
    ASSUME TypeOK, NEW pos \in Positions, NEW n \in 1 .. MaxCount,
           me.cut # "refuse", Asked(pos, n) = 0
    PROVE  pos >= Size
<1> SUFFICES ASSUME pos < Size PROVE FALSE
  BY CharFileAssumption DEF Positions
<1>1. me.cut # "none"
  BY DEF Asked
<1>2. CASE me.cut = "clamp"
  <2>1. Size - pos \in 1 .. IntMax
    BY CharFileAssumption DEF Positions
  <2>2. ToInt(Size - pos) = Size - pos
    BY <2>1, CharFileAssumption DEF ToInt
  <2>3. Clamp(pos, n) # 0
    BY <2>1, <2>2 DEF Clamp
  <2> QED
    BY <1>2, <2>3 DEF Asked
<1>3. CASE me.cut = "shrink"
  BY <1>3, CharFileAssumption DEF Asked, Shrink, Unsigned, Positions
<1>4. CASE me.cut = "stop"
  BY <1>4, CharFileAssumption DEF Asked, Stop, Positions
<1> QED
  BY <1>1, <1>2, <1>3, <1>4, KindOfDriver

\* A call that begins asks for nothing only at the end.
LEMMA BeginAsksAll ==
    ASSUME TypeOK, NothingOnlyAtTheEnd, NEW p \in Procs, NEW f \in Files,
           NEW n \in 0 .. MaxCount, NEW pos \in Positions,
           NEW given \in BOOLEAN, Begin(p, f, n, pos, given)
    PROVE  NothingOnlyAtTheEnd'
<1>1. PICK from \in Positions :
         call' = [call EXCEPT ![p] =
                       [at |-> "copy", on |-> f, from |-> from, count |-> n,
                        asked |-> Asked(from, n), base |-> Memory(f),
                        given |-> given]]
  BY BeginIsTyped
<1>2. me' = me
  BY DEF Begin, me
<1>3. me.cut # "refuse" /\ n > 0 /\ Asked(from, n) = 0 => from >= Size
  BY NoneAskedAtTheEnd
<1>4. /\ call'[p].count = n
      /\ call'[p].asked = Asked(from, n)
      /\ call'[p].from = from
  BY <1>1 DEF TypeOK
<1>5. \A q \in Procs \ {p} : call'[q] = call[q]
  BY <1>1 DEF TypeOK
<1> QED
  BY <1>2, <1>3, <1>4, <1>5 DEF NothingOnlyAtTheEnd, InCall

(* A program that reads until there is nothing more has read to the end,    *)
(* whatever the sizes of the device, of an int and of the reads.            *)
THEOREM NothingMeansTheEnd == Spec => []NothingOnlyAtTheEnd
<1> DEFINE Inv == TypeOK /\ Room /\ NothingOnlyAtTheEnd
<1>1. Init => Inv
  BY TypeInit DEF Init, NothingOnlyAtTheEnd, InCall, Idle
<1>2. Inv /\ [Next]_vars => Inv'
  <2> SUFFICES ASSUME Inv, [Next]_vars PROVE NothingOnlyAtTheEnd'
    BY TypeStep
  <2>1. ASSUME NEW p \in Procs, NEW f \in Files, NEW n \in 0 .. MaxCount,
               Call(p, f, n)
        PROVE  NothingOnlyAtTheEnd'
    <3>1. file[f].pos \in Positions
      BY DEF TypeOK
    <3> QED
      BY <2>1, <3>1, BeginAsksAll DEF Call
  <2>2. ASSUME NEW p \in Procs, NEW f \in Files, NEW n \in 0 .. MaxCount,
               NEW pos \in Positions, CallAt(p, f, n, pos)
        PROVE  NothingOnlyAtTheEnd'
    BY <2>2, BeginAsksAll DEF CallAt
  <2>3. ASSUME NEW p \in Procs, NEW k \in 0 .. MaxCount, Return(p, k)
        PROVE  NothingOnlyAtTheEnd'
    <3>1. \A q \in Procs : InCall(q)' => InCall(q) /\ call'[q] = call[q]
      BY <2>3 DEF Return, InCall, Idle, TypeOK
    <3> QED
      BY <2>3, <3>1 DEF Return, NothingOnlyAtTheEnd, me
  <2>4. ASSUME NEW p \in Procs, NEW f \in Files, Clear(p, f)
        PROVE  NothingOnlyAtTheEnd'
    <3>1. /\ UNCHANGED driver /\ call'[p].count = 0
          /\ \A q \in Procs \ {p} : call'[q] = call[q]
      BY <2>4 DEF Clear, ClearCall, TypeOK
    <3> QED
      BY <3>1 DEF NothingOnlyAtTheEnd, InCall, me
  <2>5. ASSUME UNCHANGED <<driver, call>>
        PROVE  NothingOnlyAtTheEnd'
    BY <2>5 DEF NothingOnlyAtTheEnd, InCall, me
  <2> QED
    BY <2>1, <2>2, <2>3, <2>4, <2>5, CharFileAssumption
        DEF Next, Open, Release, Seek, vars
<1> QED
  <2>1. Inv => NothingOnlyAtTheEnd
    OBVIOUS
  <2> HIDE DEF Inv
  <2> QED
    BY <1>1, <1>2, <2>1, PTL DEF Spec
=============================================================================
