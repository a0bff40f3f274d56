---------------------------- MODULE BlockingRead ----------------------------
(***************************************************************************)
(* Chapter 19: a read() that sleeps until a write() wakes it.  The drivers *)
(* are one protocol with different parts: what the reader waits on, how    *)
(* it sleeps, and what the writer does in which order.  Each driver is a   *)
(* record of those parts; the actions interpret it.                        *)
(*                                                                         *)
(* by        "completion" and "semaphore" count the writes, "flag" is      *)
(*           data_ready (atom) with a wait queue, "events" is nevents with *)
(*           one: lab7_uio of chapter 20, whose writer is its interrupt    *)
(* start     the semaphore's first count                                   *)
(* sleep     what wakes the sleep: "none" (no signal), "any", "fatal"      *)
(* mask      whom the writer wakes: "interruptible" sleepers, or "normal"  *)
(*           ones, the killable included                                   *)
(* exclusive the writer wakes one sleeper, not all                         *)
(* reset     who lowers the flag: nobody, each reader, the last reader     *)
(* writes    what a write does after it copied its data                    *)
(* endstops  a write at the end of the memory returns before it does that  *)
(*                                                                         *)
(* What is read and written is left out: the ramdisk is copied without a   *)
(* lock on either side, and a read that has been woken always returns.     *)
(***************************************************************************)
EXTENDS Integers, FiniteSets, Sequences

CONSTANTS
    Drivers,    \* the drivers under check, names of Driver
    Readers,    \* processes that read, or poll
    Writers,    \* processes that write
    MaxReads,   \* bound on the calls of read and poll
    MaxWrites,  \* bound on the calls of write
    Signals     \* TRUE: sleepers may be sent signals

ASSUME ConstantsAssumption ==
    /\ MaxReads \in Nat /\ MaxWrites \in Nat
    /\ Signals \in BOOLEAN
    /\ IsFiniteSet(Readers) /\ IsFiniteSet(Writers)

VARIABLES
    driver,     \* which driver is loaded
    tokens,     \* x->done of the completion, count of the semaphore, nevents
    flag,       \* data_ready
    nsleepers,  \* nsleepers (reset = "last" only)
    reader,     \* where each reader stands
    writer,     \* the operation of .writes each writer is at, 0: none
    nev,        \* lab7_uio: the events each reader is dealing with
    served,     \* readers let through by the condition; events dealt with
    reads, writes   \* calls made

state == <<tokens, flag, nsleepers>>
calls == <<served, reads, writes>>
vars == <<driver, state, reader, writer, nev, calls>>

-----------------------------------------------------------------------------
(* The drivers *)

(* Mutated form, only ever used to test ReadyIsTaken: a write wakes first.  *)
wait_event_WakesFirst ==
    [by |-> "flag", start |-> 0, sleep |-> "any", mask |-> "interruptible",
     exclusive |-> FALSE, reset |-> "nobody", writes |-> <<"wake", "set">>,
     endstops |-> FALSE]

lab1_wait_event ==
    [by |-> "flag", start |-> 0, sleep |-> "any", mask |-> "interruptible",
     exclusive |-> FALSE, reset |-> "nobody", writes |-> <<"set", "wake">>,
     endstops |-> FALSE]

lab1_excl ==
    [lab1_wait_event EXCEPT !.exclusive = TRUE, !.reset = "last",
                            !.writes = <<"wake", "set">>]

lab2_killable ==
    [lab1_wait_event EXCEPT !.sleep = "fatal", !.reset = "each"]

lab3_poll ==
    [lab1_wait_event EXCEPT !.reset = "each", !.writes = <<"wake", "set">>]

lab1_complete ==
    [lab1_wait_event EXCEPT !.by = "completion", !.sleep = "none",
                            !.writes = <<"post">>]

lab1_semaphore ==
    [lab1_wait_event EXCEPT !.by = "semaphore", !.start = 1,
                            !.writes = <<"post">>]

globalmem_complete == [lab1_complete EXCEPT !.endstops = TRUE]

globalmem_sem == [lab1_semaphore EXCEPT !.start = 0, !.endstops = TRUE]

globalmem_wait == [lab1_wait_event EXCEPT !.endstops = TRUE]

\* 19_LAB1_exwait: the exclusive wait is commented out
globalmem_exwait == globalmem_wait

globalmem_killable ==
    [globalmem_wait EXCEPT !.sleep = "fatal", !.mask = "normal"]

lab7_uio ==
    [lab1_wait_event EXCEPT !.by = "events", !.writes = <<"post", "wake">>]

Driver ==
    [lab1_wait_event |-> lab1_wait_event, lab1_excl |-> lab1_excl,
     lab2_killable |-> lab2_killable, lab3_poll |-> lab3_poll,
     lab1_complete |-> lab1_complete, lab1_semaphore |-> lab1_semaphore,
     globalmem_complete |-> globalmem_complete,
     globalmem_sem |-> globalmem_sem, globalmem_wait |-> globalmem_wait,
     globalmem_exwait |-> globalmem_exwait,
     globalmem_killable |-> globalmem_killable, lab7_uio |-> lab7_uio]

ASSUME DriversAssumption == Drivers \subseteq DOMAIN Driver

d == Driver[driver]

-----------------------------------------------------------------------------

TypeOK ==
    /\ driver \in Drivers
    /\ tokens \in -MaxReads * MaxWrites .. MaxWrites + 1
    /\ flag \in {0, 1}
    /\ nsleepers \in 0 .. Cardinality(Readers)
    /\ reader \in [Readers -> {"idle", "wait", "sleep", "poll", "pollsleep",
                               "awake", "interrupted", "clear", "sub"}]
    /\ nev \in [Readers -> Int]
    /\ writer \in [Writers -> 0 .. 2]
    /\ served \in Int
    /\ reads \in 0 .. MaxReads
    /\ writes \in 0 .. MaxWrites

(* Mutated forms of definitions below, only ever used to test properties. *)

\* the flag raised before any write, as the thread drivers of chapter 20 do
InitReady ==
    /\ driver \in Drivers
    /\ tokens = d.start
    /\ flag = 1 /\ nsleepers = 0
    /\ reader = [r \in Readers |-> "idle"]
    /\ nev = [r \in Readers |-> 0]
    /\ writer = [w \in Writers |-> 0]
    /\ served = 0 /\ reads = 0 /\ writes = 0

Init ==
    /\ driver \in Drivers
    /\ tokens = d.start
    /\ flag = 0 /\ nsleepers = 0
    /\ reader = [r \in Readers |-> "idle"]
    /\ nev = [r \in Readers |-> 0]
    /\ writer = [w \in Writers |-> 0]
    /\ served = 0 /\ reads = 0 /\ writes = 0

Asleep == {r \in Readers : reader[r] \in {"sleep", "pollsleep"}}
Ready == IF d.by = "flag" THEN flag = 1 ELSE tokens > 0

\* Reader r goes from one place to another.
Goes(r, from, to) ==
    /\ reader[r] = from
    /\ reader' = [reader EXCEPT ![r] = to]
    /\ UNCHANGED <<driver, writer, nev, writes>>

-----------------------------------------------------------------------------
(* mycdrv_read, globalmem_read *)

ReadCall(r) ==
    /\ reads < MaxReads
    /\ Goes(r, "idle", "wait")
    /\ reads' = reads + 1
    /\ nsleepers' = nsleepers + (IF d.reset = "last" THEN 1 ELSE 0)
    /\ UNCHANGED <<tokens, flag, served>>

\* wait_for_completion, down_interruptible: a token is taken, or waited for.
WaitToken(r) ==
    /\ d.by \in {"completion", "semaphore"}
    /\ \/ tokens > 0 /\ Goes(r, "wait", "awake")
          /\ tokens' = tokens - 1
          /\ served' = served + 1
       \/ tokens = 0 /\ Goes(r, "wait", "sleep") /\ UNCHANGED <<tokens, served>>
    /\ UNCHANGED <<flag, nsleepers, reads>>

\* wait_event_*(wq, atomic_read(&data_ready)); queued before the flag is read
WaitFlag(r) ==
    /\ d.by \in {"flag", "events"}
    /\ Goes(r, "wait", IF Ready THEN "awake" ELSE "sleep")
    /\ served' = served + (IF d.by = "flag" /\ Ready THEN 1 ELSE 0)
    /\ UNCHANGED <<state, reads>>

\* A signal ends the sleep.  down_interruptible's failure is returned as
\* -ERESTARTSYS; the result of wait_event_* is not looked at, and lab7_uio
\* looks for the signal.  A poll that is interrupted returns -EINTR.
Interrupt(r) ==
    /\ Signals
    /\ d.sleep # "none"
    /\ \/ Goes(r, "sleep", IF d.by = "flag" THEN "interrupted" ELSE "idle")
       \/ Goes(r, "pollsleep", "idle")
    /\ UNCHANGED <<state, served, reads>>

\* generic_read, after lowering the flag where the driver does
ReadReturn(r) ==
    /\ d.by # "events" /\ d.reset # "last"
    /\ \E from \in {"awake", "interrupted"} : Goes(r, from, "idle")
    /\ flag' = IF d.reset = "each" THEN 0 ELSE flag
    /\ UNCHANGED <<tokens, nsleepers, served, reads>>

\* lab1_excl: under the spin lock, the last of the sleepers lowers the flag.
\* "clear" is the place between the two, and there the lock is held.
CountDown(r) ==
    /\ d.reset = "last"
    /\ \A q \in Readers : reader[q] # "clear"
    /\ nsleepers' = nsleepers - 1
    /\ \E from \in {"awake", "interrupted"} :
          Goes(r, from, IF nsleepers' = 0 THEN "clear" ELSE "idle")
    /\ UNCHANGED <<tokens, flag, served, reads>>

Clear(r) ==
    /\ Goes(r, "clear", "idle")
    /\ flag' = 0
    /\ UNCHANGED <<tokens, nsleepers, served, reads>>

\* lab7_uio: a signal that came meanwhile takes nothing; or nev = nevents
Deal(r) ==
    /\ d.by = "events"
    /\ reader[r] = "awake"
    /\ \/ Signals /\ reader' = [reader EXCEPT ![r] = "idle"] /\ UNCHANGED nev
       \/ reader' = [reader EXCEPT ![r] = "sub"] /\ nev' = [nev EXCEPT ![r] = tokens]
    /\ UNCHANGED <<driver, writer, state, calls>>

\* atomic_sub(nev, &nevents)
Subtract(r) ==
    /\ Goes(r, "sub", "idle")
    /\ tokens' = tokens - nev[r]
    /\ served' = served + nev[r]
    /\ UNCHANGED <<flag, nsleepers, reads>>

-----------------------------------------------------------------------------
(* mycdrv_poll *)

PollCall(r) ==
    /\ driver \in {"lab3_poll", "lab7_uio"}
    /\ reads < MaxReads
    /\ Goes(r, "idle", "poll")
    /\ reads' = reads + 1
    /\ UNCHANGED <<state, served>>

\* poll_wait queues the caller before the mask is computed.
PollMask(r) ==
    /\ Goes(r, "poll", IF Ready THEN "idle" ELSE "pollsleep")
    /\ UNCHANGED <<state, served, reads>>

-----------------------------------------------------------------------------
(* mycdrv_write, globalmem_write; my_interrupt of lab7_uio *)

\* The data is copied, or not when the file stands at the end of the memory:
\* then a globalmem write returns 0 there and wakes nobody, while the others
\* go on to the wake-up.  A line calls one interrupt handler at a time.
WriteCall(w) ==
    /\ writes < MaxWrites
    /\ writer[w] = 0
    /\ d.by = "events" => \A v \in Writers : writer[v] = 0
    /\ \/ writes' = writes + 1 /\ writer' = [writer EXCEPT ![w] = 1]
       \/ d.endstops /\ UNCHANGED <<writes, writer>>
    /\ UNCHANGED <<driver, state, reader, nev, served, reads>>

Doing(w, op) ==
    /\ writer[w] # 0
    /\ d.writes[writer[w]] = op
    /\ writer' = [writer EXCEPT ![w] = (@ + 1) % (Len(d.writes) + 1)]
    /\ UNCHANGED <<driver, nsleepers, nev, reads, writes>>

\* complete, up, atomic_inc: up hands the token to a sleeper, complete wakes one
\* and lets it look for the token again, atomic_inc wakes nobody.
Post(w) ==
    /\ Doing(w, "post")
    /\ \/ /\ Asleep = {} \/ d.by = "events"
          /\ tokens' = tokens + 1
          /\ UNCHANGED <<reader, served>>
       \/ /\ d.by = "semaphore"
          /\ \E r \in Asleep : reader' = [reader EXCEPT ![r] = "awake"]
          /\ served' = served + 1
          /\ UNCHANGED tokens
       \/ /\ d.by = "completion"
          /\ \E r \in Asleep : reader' = [reader EXCEPT ![r] = "wait"]
          /\ tokens' = tokens + 1
          /\ UNCHANGED served
    /\ UNCHANGED flag

Set(w) ==
    /\ Doing(w, "set")
    /\ flag' = 1
    /\ UNCHANGED <<tokens, reader, served>>

\* wake_up: only sleepers the mask matches, who look at the flag again
Wakeable == IF d.sleep = "fatal" /\ d.mask = "interruptible" THEN {} ELSE Asleep

Wake(w) ==
    /\ Doing(w, "wake")
    /\ \E who \in SUBSET Wakeable :
          /\ IF d.exclusive /\ Wakeable # {} THEN Cardinality(who) = 1
                                             ELSE who = Wakeable
          /\ reader' = [r \in Readers |->
                          IF r \notin who THEN reader[r]
                          ELSE IF reader[r] = "sleep" THEN "wait" ELSE "poll"]
    /\ UNCHANGED <<tokens, flag, served>>

-----------------------------------------------------------------------------

Wait(r) == WaitToken(r) \/ WaitFlag(r)
Read(r) ==
    \/ Wait(r) \/ ReadReturn(r) \/ CountDown(r) \/ Clear(r)
    \/ Deal(r) \/ Subtract(r) \/ PollMask(r)
Write(w) == Post(w) \/ Set(w) \/ Wake(w)
Next ==
    \/ \E r \in Readers : ReadCall(r) \/ PollCall(r) \/ Interrupt(r) \/ Read(r)
    \/ \E w \in Writers : WriteCall(w) \/ Write(w)

\* A process that can run runs, and a system call that was entered goes on.
\* Nobody has to call read or write, or to send a signal.
Fairness ==
    /\ \A r \in Readers : WF_vars(Read(r))
    /\ \A w \in Writers : WF_vars(Write(w))

Spec == Init /\ [][Next]_vars /\ Fairness

-----------------------------------------------------------------------------
(* Properties *)

\* The writes that have yet to give their token, or to raise the flag, and how
\* many have.
Pending ==
    {w \in Writers : /\ writer[w] # 0
                     /\ \E i \in writer[w] .. Len(d.writes) :
                           d.writes[i] \in {"post", "set"}}
Posted == writes - Cardinality(Pending)

\* "Have the read() function go to sleep until woken by a write() function"
\* (lab1_wait_event.c:24-25): no reader passes its condition before a write,
\* and where the writes are counted every pass costs one, whoever slept, was
\* interrupted or came between the wake-up and the awakening.  The exception
\* is the first read of lab1_semaphore, whose semaphore starts as a mutex.
\* Readers of lab7_uio deal with more events than there were when two subtract
\* the same, and what is left of nevents is less by as much.
PassNeedsWrite ==
    /\ served > d.start => Posted > 0
    /\ d.by # "flag" => served + tokens = d.start + Posted

\* Two wake before they raise the flag: their sleepers sleep on until a write
\* comes after the one that raised it.  A wake-up of the third does not reach
\* its killable sleepers, ever.
SleepOn == {"lab1_excl", "lab3_poll", "lab2_killable"}

\* A reader of lab7_uio found less than nothing, two before it having taken the
\* same events; what it gives back wakes nobody.
Overdrawn == \E r \in Readers : nev[r] < 0

\* Nobody sleeps on what is there: while the flag is up, or a token is left,
\* a sleeper is woken or somebody else takes it, whichever write or signal
\* came between a reader's look at the condition and its sleep.  The drivers
\* of SleepOn are the ones that break it, and lab7_uio once it is Overdrawn.
ReadyIsTaken ==
    \A r \in Readers :
        driver \notin SleepOn /\ r \in Asleep /\ Ready
            ~> r \notin Asleep \/ ~Ready \/ Overdrawn
=============================================================================
