------------------------------ MODULE CharFile ------------------------------
(***************************************************************************)
(* The memory device of the character drivers: processes that open it,     *)
(* share open files, read, write, seek, clear it and close, all at once. A *)
(* driver is a record of the catalogue (see CharDrivers).  What is copied  *)
(* is left out; where it is copied from and to is what this is about.      *)
(*                                                                         *)
(* The widths are those of the build kept in the repository (-m64): a      *)
(* position is signed, a size unsigned and as wide, an int is narrower.    *)
(* The kernel reads the position of a file before it calls the driver and  *)
(* stores it afterwards; pread and pwrite bring a position of their own.   *)
(***************************************************************************)
EXTENDS Integers

CONSTANTS
    Catalogue,      \* the drivers: a function from names to records
    Size,           \* bytes of the device
    MaxCount,       \* the most one call may ask for (MAX_RW_COUNT)
    Asks,           \* the counts that calls do ask for
    MaxPos,         \* the largest position (LLONG_MAX)
    IntMax,         \* the largest int
    Files,          \* open files (struct file)
    Procs,          \* processes, which may share them
    Objects,        \* blocks of memory
    Null            \* no memory

ASSUME CharFileAssumption ==
    /\ Size \in Nat \ {0} /\ MaxCount \in Nat /\ Asks \subseteq 0 .. MaxCount
    /\ MaxPos \in Nat /\ IntMax \in Nat
    /\ Size =< IntMax /\ MaxCount =< IntMax /\ Size =< MaxPos
    /\ Null \notin Objects
    /\ \A n \in DOMAIN Catalogue :
          Catalogue[n] \in
              [cut : {"none", "refuse", "clamp", "shrink", "stop"},
               seek : {"own", "default"}, memory : {"fixed", "each", "shared"},
               checked : BOOLEAN, whole : BOOLEAN, moves : BOOLEAN,
               clears : BOOLEAN]

VARIABLES
    driver,     \* the driver under the files
    file,       \* its open files: their position and private_data
    ramdisk,    \* the memory that all files have in common
    used,       \* the blocks that are allocated
    call        \* the call each process is in

vars == <<driver, file, ramdisk, used, call>>

me == Catalogue[driver]

InCall(p) == call[p].at = "copy"

Idle == [at |-> "user", on |-> Null, from |-> 0, count |-> 0, asked |-> 0,
         base |-> Null, given |-> FALSE]

Closed == [open |-> FALSE, pos |-> 0, own |-> Null]

-----------------------------------------------------------------------------

Positions == 0 .. MaxPos

\* what unsigned arithmetic can come to
Counts == 0 .. 2 * MaxPos + 1

TypeOK ==
    /\ driver \in DOMAIN Catalogue
    /\ file \in [Files -> [open : BOOLEAN, pos : Positions,
                           own : Objects \cup {Null}]]
    /\ ramdisk \in Objects \cup {Null}
    /\ used \subseteq Objects
    /\ call \in [Procs -> [at : {"user", "copy"}, on : Files \cup {Null},
                           from : Positions, count : 0 .. MaxCount,
                           asked : Counts, base : Objects \cup {Null},
                           given : BOOLEAN]]

Init ==
    /\ driver \in DOMAIN Catalogue
    /\ file = [f \in Files |-> Closed]
    /\ \E o \in Objects :
          /\ ramdisk = IF me.memory = "fixed" THEN o ELSE Null
          /\ used = {ramdisk} \ {Null}
    /\ call = [p \in Procs |-> Idle]

-----------------------------------------------------------------------------
(* How many of n bytes at position pos a driver asks to be copied *)

(* Mutated form of Unsigned, only ever used to test TypeOK: the count is    *)
(* an int, and negative past the end.                                       *)
Signed(i) == i

Unsigned(i) == IF i >= 0 THEN i ELSE i + 2 * MaxPos + 2

\* the value of an int that is assigned i
ToInt(i) ==
    IF i \in -IntMax - 1 .. IntMax THEN i
    ELSE ((i + IntMax + 1) % (2 * IntMax + 2)) - IntMax - 1

Refuse(pos, n) == IF n + pos > Size THEN 0 ELSE n

\* bytes_to_do = maxbytes > lbuf ? lbuf : maxbytes, where lbuf is unsigned
Clamp(pos, n) ==
    LET maxbytes == ToInt(Size - pos) IN
    IF maxbytes \in 0 .. n THEN maxbytes ELSE n

Shrink(pos, n) ==
    LET count == IF n > Size THEN Size ELSE n IN
    IF pos + count > Size THEN Unsigned(Size - pos) ELSE count

\* Mutated form: the last byte of the device is never reached.
StopBefore(pos, n) ==
    IF pos + 1 >= Size THEN 0 ELSE IF n > Size - pos THEN Size - pos ELSE n

Stop(pos, n) ==
    IF pos >= Size THEN 0 ELSE IF n > Size - pos THEN Size - pos ELSE n

Asked(pos, n) ==
    CASE me.cut = "none" -> n
      [] me.cut = "refuse" -> Refuse(pos, n)
      [] me.cut = "clamp" -> Clamp(pos, n)
      [] me.cut = "shrink" -> Shrink(pos, n)
      [] me.cut = "stop" -> Stop(pos, n)

-----------------------------------------------------------------------------
(* The calls *)

Memory(f) == IF me.memory = "each" THEN file[f].own ELSE ramdisk

Begin(p, f, n, pos, given) ==
    /\ ~InCall(p) /\ file[f].open
    /\ pos + n =< MaxPos                \* rw_verify_area
    /\ LET from == IF me.moves THEN pos ELSE 0 IN
       call' = [call EXCEPT ![p] =
                   [at |-> "copy", on |-> f, from |-> from, count |-> n,
                    asked |-> Asked(from, n), base |-> Memory(f),
                    given |-> given]]
    /\ UNCHANGED <<driver, file, ramdisk, used>>

\* read and write, or pread and pwrite
Call(p, f, n) == Begin(p, f, n, file[f].pos, FALSE)
CallAt(p, f, n, pos) == Begin(p, f, n, pos, TRUE)

\* ioctl(MEM_CLEAR): a memset of the whole device, which gives the caller no
\* bytes and leaves the position alone.  GET_SIZE touches no memory.
ClearCall(f) == [at |-> "copy", on |-> f, from |-> 0, count |-> 0,
                 asked |-> Size, base |-> Memory(f), given |-> TRUE]

Clear(p, f) ==
    /\ ~InCall(p) /\ file[f].open /\ me.clears
    /\ call' = [call EXCEPT ![p] = ClearCall(f)]
    /\ UNCHANGED <<driver, file, ramdisk, used>>

\* What the copy may come to: the user's pages may not be there, and no
\* buffer has room for more than its length.  A memset copies nothing; of the
\* null pointer it kills its process, which leaves the call all the same.
Copied(c) ==
    IF c.asked > c.count \/ c.base = Null THEN {0}
    ELSE {k \in 0 .. c.asked : me.whole => k \in {0, c.asked}}

\* The call returns k, or -EFAULT, and the kernel stores the position.
Return(p, k) ==
    /\ InCall(p)
    /\ k \in Copied(call[p])
    /\ LET c == call[p] IN
       file' = IF c.given \/ ~me.moves THEN file
               ELSE [file EXCEPT ![c.on].pos = c.from + k]
    /\ call' = [call EXCEPT ![p] = Idle]
    /\ UNCHANGED <<driver, ramdisk, used>>

(* Mutated form of OwnSeek, only ever used to test InDevice: the end is not *)
(* looked at.                                                               *)
OwnSeekAnywhere(t) == IF t >= 0 THEN t ELSE 0

\* testpos < ramdisk_size compares as unsigned: what is before the start is
\* after the end.
OwnSeek(t) == IF Unsigned(t) < Size THEN t ELSE Size

\* lseek to position t, from wherever it is counted
Seek(f, t) ==
    /\ file[f].open
    /\ me.seek = "default" => t >= 0
    /\ file' = [file EXCEPT ![f].pos =
                   IF me.seek = "own" THEN OwnSeek(t) ELSE t]
    /\ UNCHANGED <<driver, ramdisk, used, call>>

-----------------------------------------------------------------------------
(* open and release *)

Opened(f, o) ==
    file' = [file EXCEPT ![f] = [open |-> TRUE, pos |-> 0, own |-> o]]

\* o is the memory allocated, Null if there is none left
Open(f) ==
    /\ ~file[f].open
    /\ \/ /\ me.memory = "fixed"
          /\ Opened(f, Null)
          /\ UNCHANGED <<ramdisk, used>>
       \/ \E o \in (Objects \ used) \cup {Null} :
             /\ me.memory # "fixed"
             /\ used' = (used \cup {o}) \ {Null}
             /\ IF o = Null /\ me.checked THEN UNCHANGED file ELSE Opened(f, o)
             /\ ramdisk' = IF me.memory = "shared" THEN o ELSE ramdisk
    /\ UNCHANGED <<driver, call>>

\* Mutated form: every release frees, the memory of init too.
ReleaseFreesAny(f) ==
    /\ file[f].open
    /\ \A p \in Procs : InCall(p) => call[p].on # f
    /\ file' = [file EXCEPT ![f] = Closed]
    /\ used' = used \ {Memory(f)}
    /\ UNCHANGED <<driver, ramdisk, call>>

\* Mutated form: private_data is not freed.
ReleaseWithoutFree(f) ==
    /\ file[f].open
    /\ \A p \in Procs : InCall(p) => call[p].on # f
    /\ file' = [file EXCEPT ![f] = Closed]
    /\ UNCHANGED <<driver, ramdisk, used, call>>

\* The kernel calls release when the last call on the file has returned.
Release(f) ==
    /\ file[f].open
    /\ \A p \in Procs : InCall(p) => call[p].on # f
    /\ file' = [file EXCEPT ![f] = Closed]
    /\ used' = IF me.memory = "fixed" THEN used ELSE used \ {Memory(f)}
    /\ UNCHANGED <<driver, ramdisk, call>>

Next ==
    \/ \E f \in Files :
          \/ Open(f) \/ Release(f)
          \/ \E t \in -1 .. MaxPos : Seek(f, t)
          \/ \E p \in Procs : Clear(p, f)
          \/ \E p \in Procs, n \in Asks :
                \/ Call(p, f, n)
                \/ \E pos \in Positions : CallAt(p, f, n, pos)
    \/ \E p \in Procs : \E k \in 0 .. MaxCount : Return(p, k)

Spec == Init /\ [][Next]_vars

-----------------------------------------------------------------------------
(* Properties *)

\* the drivers that look where the device ends, and those that still do
\* when the position is not the file's own
Watches ==
    \/ me.cut \in {"refuse", "stop"}
    \/ me.cut = "clamp" /\ me.seek = "own"
WatchesAt == me.cut \in {"refuse", "stop"}

(* A driver that watches for the end of the device copies from and to the   *)
(* device only: through seeks before its start and past its end, short      *)
(* copies, and other processes that move the same file.  For the drivers    *)
(* that cut with an int that rests on their own lseek, which must never     *)
(* leave a position past the end: it does not hold for pread and pwrite.    *)
InDevice ==
    \A p \in Procs :
        InCall(p) /\ (IF call[p].given THEN WatchesAt ELSE Watches) =>
            call[p].asked = 0 \/ call[p].from + call[p].asked =< Size

(* A call that asks for bytes gets none only when there is none left: a     *)
(* program that reads until read returns 0 has seen the whole device.  The  *)
(* stub that refuses what does not fit is the exception.                    *)
NothingOnlyAtTheEnd ==
    \A p \in Procs :
        InCall(p) /\ me.cut # "refuse" /\ call[p].count > 0
            /\ call[p].asked = 0 =>
                call[p].from >= Size

(* No call copies from or to memory that was freed, or that belongs to      *)
(* nobody, whoever opens and closes the device meanwhile: where each open   *)
(* file has memory of its own, or none of its own.  An allocation that is   *)
(* not looked at leaves the null pointer.                                   *)
UsesLiveMemory ==
    me.memory # "shared" =>
        \A p \in Procs :
            InCall(p) =>
                call[p].base \in used \cup (IF me.checked THEN {} ELSE {Null})

(* When no file is open, only what init allocated is allocated: release     *)
(* freed what open took, in every order of opens and closes.                *)
ClosedLeavesNothing ==
    me.memory # "shared" /\ (\A f \in Files : ~file[f].open) =>
        used = {ramdisk} \ {Null}
=============================================================================
