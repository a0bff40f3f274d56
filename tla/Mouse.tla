-------------------------------- MODULE Mouse --------------------------------
(***************************************************************************)
(* SOLUTIONS/s_21/lab4_full_mouse_driver.c, a mouse on a serial port: the  *)
(* interrupt puts packets of three bytes together, read() waits for one    *)
(* with a flag and copies it with the interrupt disabled, and a tasklet    *)
(* sends SIGIO to the process that opened the device last.                 *)
(*                                                                         *)
(* The module is loaded, in the middle of a packet perhaps, and stays.     *)
(* The bytes of the mouse are numbered, and those with the magic bit are   *)
(* the first of each three.  The port keeps a few bytes and loses what     *)
(* comes when it is full.  inb, outb, the interrupt core and the tasklet's *)
(* softirq are external.                                                   *)
(***************************************************************************)
EXTENDS Integers, Sequences, FiniteSets

CONSTANTS
    Procs,      \* processes that open the device, one file each
    Nobody,     \* user_pid = 0
    FifoSize,   \* bytes the port keeps
    MaxBytes,   \* bound on the bytes the mouse sends
    MaxFaults   \* bound on the reads whose buffer is bad

ASSUME ConstantsAssumption ==
    /\ IsFiniteSet(Procs) /\ Nobody \notin Procs
    /\ FifoSize \in Nat \ {0} /\ MaxBytes \in Nat \ (0 .. 2)
    /\ MaxFaults \in Nat

VARIABLES
    sent,       \* bytes the mouse has sent
    fifo,       \* what the port has of them
    numByteIn,  \* bytes of the packet that is put together
    bytes,      \* my_state.bytes, as numbers of bytes; 0: none yet
    ready,      \* my_state.ready
    handler,    \* the interrupt handler's next operation
    depth,      \* how often the interrupt is disabled
    sched,      \* the tasklet is queued
    user_pid,   \* whom it signals
    proc,       \* where each process stands
    oops,       \* the tasklet found no process
    lost,       \* history: bytes lost in the port
    garbled,    \* history: packets put together from bytes of two
    faults      \* history: copies that failed

port == <<sent, fifo, lost>>
packet == <<numByteIn, bytes, garbled>>
vars == <<port, packet, ready, handler, depth, sched, user_pid, proc, oops,
          faults>>

MY_NBYTES == 3
First(b) == b % 3 = 1           \* b & FIRST_BYTE_MAGIC

\* a process that is in the open device, whatever it does there
Places == {"closed", "opening", "open", "test", "wait", "sleep", "woken",
           "disable", "synchronize", "copy", "clear", "enable",
           "poll", "pollsleep", "release", "kill", "forget"}

TypeOK ==
    /\ sent \in 0 .. MaxBytes
    /\ fifo \in Seq(1 .. MaxBytes) /\ Len(fifo) <= FifoSize
    /\ numByteIn \in 0 .. MY_NBYTES
    /\ bytes \in [1 .. MY_NBYTES -> 0 .. MaxBytes]
    /\ ready \in {0, 1}
    /\ handler \in {"idle", "lsr", "ready", "wake", "signal", "schedule"}
    /\ depth \in 0 .. Cardinality(Procs) + MaxFaults
    /\ sched \in BOOLEAN
    /\ user_pid \in Procs \cup {Nobody}
    /\ proc \in [Procs -> Places]
    /\ oops \in BOOLEAN
    /\ lost \in 0 .. MaxBytes /\ garbled \in 0 .. MaxBytes
    /\ faults \in 0 .. MaxFaults

Init ==
    /\ sent \in 0 .. MY_NBYTES - 1 /\ fifo = <<>> /\ lost = 0
    /\ numByteIn = 0 /\ bytes = [i \in 1 .. MY_NBYTES |-> 0]
    /\ garbled = 0
    /\ ready = 0
    /\ handler = "idle" /\ depth = 0
    /\ sched = FALSE /\ user_pid = Nobody
    /\ proc = [p \in Procs |-> "closed"]
    /\ oops = FALSE /\ faults = 0

\* Process p goes from one place to another.
Goes(p, from, to) ==
    /\ ~oops
    /\ proc[p] = from
    /\ proc' = [proc EXCEPT ![p] = to]
    /\ UNCHANGED <<port, packet, handler, oops>>

\* The handler does one operation and goes to the next.
Handles(from, to) ==
    /\ ~oops
    /\ handler = from
    /\ handler' = to
    /\ UNCHANGED <<sent, lost, depth, user_pid, oops, faults>>

\* the sleepers of my_wait look again
Woken(place) == IF place = "sleep" THEN "wait"
                ELSE IF place = "pollsleep" THEN "poll" ELSE place

\* three bytes in a row, the first of them a first byte
Whole(b) == First(b[1]) /\ b[2] = b[1] + 1 /\ b[3] = b[1] + 2

-----------------------------------------------------------------------------
(* Mutated forms of the actions below, only ever used to test properties. *)

\* every byte accepted
TakeAnyByte ==
    /\ fifo # <<>>
    /\ fifo' = Tail(fifo)
    /\ bytes' = [bytes EXCEPT ![numByteIn + 1] = Head(fifo)]
    /\ numByteIn' = numByteIn + 1
    /\ Handles("lsr", IF numByteIn' = MY_NBYTES THEN "ready" ELSE "lsr")
    /\ UNCHANGED <<garbled, ready, sched, proc>>

\* the bytes not counted from 0 again
CompleteKeepsCount ==
    /\ Handles("ready", "wake")
    /\ ready' = 1
    /\ numByteIn' = numByteIn
    /\ garbled' = garbled + (IF Whole(bytes) THEN 0 ELSE 1)
    /\ UNCHANGED <<fifo, bytes, sched, proc>>

\* nobody woken
WakeNobody ==
    /\ Handles("wake", "signal")
    /\ UNCHANGED <<fifo, packet, ready, sched, proc>>

\* disable_irq_nosync
DisableNoSync(p) ==
    /\ Goes(p, "disable", "copy")
    /\ depth' = depth + 1
    /\ UNCHANGED <<ready, sched, user_pid, faults>>

\* the process not forgotten
ForgetNothing(p) ==
    /\ Goes(p, "forget", "closed")
    /\ UNCHANGED <<ready, depth, sched, user_pid, faults>>

\* the interrupt left disabled
EnableForgotten(p) ==
    /\ Goes(p, "enable", "open")
    /\ UNCHANGED <<ready, depth, sched, user_pid, faults>>

-----------------------------------------------------------------------------
(* The port *)

\* The mouse sends a byte; a full port loses it.
Arrive ==
    /\ ~oops
    /\ sent < MaxBytes
    /\ sent' = sent + 1
    /\ IF Len(fifo) < FifoSize
         THEN fifo' = Append(fifo, sent') /\ UNCHANGED lost
         ELSE lost' = lost + 1 /\ UNCHANGED fifo
    /\ UNCHANGED <<packet, ready, handler, depth, sched, user_pid, proc, oops,
                   faults>>

-----------------------------------------------------------------------------
(* my_interrupt *)

\* The line is shared: the handler is called for others' interrupts, too.
Enter ==
    /\ depth = 0
    /\ Handles("idle", "lsr")
    /\ UNCHANGED <<fifo, packet, ready, sched, proc>>

\* while (inb(LSR) & UART_LSR_DR) byte = inb(RX): a byte that could be the first
\* of a packet and is not one is dropped.  Nobody but the handler looks at
\* bytes and numByteIn while it runs.
TakeByte ==
    /\ fifo # <<>>
    /\ fifo' = Tail(fifo)
    /\ IF numByteIn > 0 \/ First(Head(fifo))
         THEN /\ bytes' = [bytes EXCEPT ![numByteIn + 1] = Head(fifo)]
              /\ numByteIn' = numByteIn + 1
         ELSE UNCHANGED <<bytes, numByteIn>>
    /\ Handles("lsr", IF numByteIn' = MY_NBYTES THEN "ready" ELSE "lsr")
    /\ UNCHANGED <<garbled, ready, sched, proc>>

Return ==
    /\ fifo = <<>>
    /\ Handles("lsr", "idle")
    /\ UNCHANGED <<fifo, packet, ready, sched, proc>>

\* atomic_set(&my_state.ready, 1); numByteIn = 0;
Complete ==
    /\ Handles("ready", "wake")
    /\ ready' = 1
    /\ numByteIn' = 0
    /\ garbled' = garbled + (IF Whole(bytes) THEN 0 ELSE 1)
    /\ UNCHANGED <<fifo, bytes, sched, proc>>

\* wake_up_interruptible(&my_wait)
WakeReaders ==
    /\ Handles("wake", "signal")
    /\ proc' = [p \in Procs |-> Woken(proc[p])]
    /\ UNCHANGED <<fifo, packet, ready, sched>>

\* if (user_pid)
TestUser ==
    /\ Handles("signal", IF user_pid = Nobody THEN "lsr" ELSE "schedule")
    /\ UNCHANGED <<fifo, packet, ready, sched, proc>>

\* tasklet_schedule(&usersig)
ScheduleSignal ==
    /\ Handles("schedule", "lsr")
    /\ sched' = TRUE
    /\ UNCHANGED <<fifo, packet, ready, proc>>

-----------------------------------------------------------------------------
(* t_sendsig *)

\* pid_task(find_vpid(user_pid)), which finds nobody for 0 or a process that
\* is gone
SendSignal ==
    /\ ~oops
    /\ sched
    /\ sched' = FALSE
    /\ oops' = (user_pid = Nobody \/ proc[user_pid] = "closed")
    /\ UNCHANGED <<port, packet, ready, handler, depth, user_pid, proc, faults>>

-----------------------------------------------------------------------------
(* mymouse_open, mymouse_release *)

OpenReset(p) ==
    /\ Goes(p, "closed", "opening")
    /\ ready' = 0
    /\ UNCHANGED <<depth, sched, user_pid, faults>>

OpenRemember(p) ==
    /\ Goes(p, "opening", "open")
    /\ user_pid' = p
    /\ UNCHANGED <<ready, depth, sched, faults>>

ReleaseReset(p) ==
    /\ Goes(p, "open", "release")
    /\ ready' = 0
    /\ UNCHANGED <<depth, sched, user_pid, faults>>

ReleaseTest(p) ==
    /\ Goes(p, "release", IF user_pid = Nobody THEN "closed" ELSE "kill")
    /\ UNCHANGED <<ready, depth, sched, user_pid, faults>>

\* tasklet_kill waits until the tasklet has run.
KillTasklet(p) ==
    /\ ~sched
    /\ Goes(p, "kill", "forget")
    /\ UNCHANGED <<ready, depth, sched, user_pid, faults>>

ReleaseForget(p) ==
    /\ Goes(p, "forget", "closed")
    /\ user_pid' = Nobody
    /\ UNCHANGED <<ready, depth, sched, faults>>

-----------------------------------------------------------------------------
(* mymouse_read *)

ReadCall(p) ==
    /\ Goes(p, "open", "test")
    /\ UNCHANGED <<ready, depth, sched, user_pid, faults>>

\* while (!ready): with O_NDELAY the read returns
ReadTest(p) ==
    /\ \/ ready = 1 /\ Goes(p, "test", "disable")
       \/ ready = 0 /\ \E to \in {"wait", "open"} : Goes(p, "test", to)
    /\ UNCHANGED <<ready, depth, sched, user_pid, faults>>

\* wait_event_interruptible(my_wait, ready)
ReadWait(p) ==
    /\ Goes(p, "wait", IF ready = 1 THEN "woken" ELSE "sleep")
    /\ UNCHANGED <<ready, depth, sched, user_pid, faults>>

\* if (signal_pending(current)) return -ERESTARTSYS; SIGIO is a signal, too
ReadWoken(p) ==
    /\ \E to \in {"test", "open"} : Goes(p, "woken", to)
    /\ UNCHANGED <<ready, depth, sched, user_pid, faults>>

\* disable_irq counts, and waits for a handler in flight.
DisableIrq(p) ==
    /\ Goes(p, "disable", "synchronize")
    /\ depth' = depth + 1
    /\ UNCHANGED <<ready, sched, user_pid, faults>>

SynchronizeIrq(p) ==
    /\ handler = "idle"
    /\ Goes(p, "synchronize", "copy")
    /\ UNCHANGED <<ready, depth, sched, user_pid, faults>>

\* copy_to_user; a read that fails returns with the interrupt disabled.
Copy(p) ==
    /\ \/ Goes(p, "copy", "clear") /\ UNCHANGED faults
       \/ /\ faults < MaxFaults
          /\ Goes(p, "copy", "open")
          /\ faults' = faults + 1
    /\ UNCHANGED <<ready, depth, sched, user_pid>>

ClearReady(p) ==
    /\ Goes(p, "clear", "enable")
    /\ ready' = 0
    /\ UNCHANGED <<depth, sched, user_pid, faults>>

EnableIrq(p) ==
    /\ Goes(p, "enable", "open")
    /\ depth' = depth - 1
    /\ UNCHANGED <<ready, sched, user_pid, faults>>

-----------------------------------------------------------------------------
(* mymouse_poll, and the sleep of poll(); signals *)

PollCall(p) ==
    /\ Goes(p, "open", "poll")
    /\ UNCHANGED <<ready, depth, sched, user_pid, faults>>

PollMask(p) ==
    /\ Goes(p, "poll", IF ready = 1 THEN "open" ELSE "pollsleep")
    /\ UNCHANGED <<ready, depth, sched, user_pid, faults>>

Signal(p) ==
    /\ \/ Goes(p, "sleep", "woken")
       \/ Goes(p, "pollsleep", "open")
    /\ UNCHANGED <<ready, depth, sched, user_pid, faults>>

-----------------------------------------------------------------------------

my_interrupt ==
    \/ TakeByte \/ Return \/ Complete \/ WakeReaders
    \/ TestUser \/ ScheduleSignal
mymouse_open(p) == OpenReset(p) \/ OpenRemember(p)
mymouse_release(p) ==
    \/ ReleaseReset(p) \/ ReleaseTest(p) \/ KillTasklet(p) \/ ReleaseForget(p)
mymouse_read(p) ==
    \/ ReadTest(p) \/ ReadWait(p) \/ ReadWoken(p) \/ DisableIrq(p)
    \/ SynchronizeIrq(p) \/ Copy(p) \/ ClearReady(p) \/ EnableIrq(p)
Next ==
    \/ Arrive \/ Enter \/ my_interrupt \/ SendSignal
    \/ \E p \in Procs :
          \/ mymouse_open(p) \/ mymouse_release(p)
          \/ ReadCall(p) \/ mymouse_read(p)
          \/ PollCall(p) \/ PollMask(p) \/ Signal(p)

\* The port interrupts while it holds a byte and the line is enabled, a handler
\* that was entered returns, and a system call that was entered goes on.
\* Nobody has to open, read or close.
Fairness ==
    /\ WF_vars(fifo # <<>> /\ Enter)
    /\ WF_vars(my_interrupt)
    /\ \A p \in Procs : WF_vars(mymouse_read(p) \/ PollMask(p))

Spec == Init /\ [][Next]_vars /\ Fairness

-----------------------------------------------------------------------------
(* Properties *)

\* "This lets us resync with the mouse if we somehow get 'out of step'"
\* (l. 298-300): a byte that was lost costs at most one packet that is put
\* together from two.
Resync == garbled <= lost

\* "disable this irq while processing" (l. 211): from the return of disable_irq
\* to the clearing of ready nobody changes the packet, however many readers
\* disable and enable the interrupt around each other, and wherever the handler
\* was when they did.
PacketIsStill ==
    [][(\E p \in Procs : proc[p] \in {"copy", "clear"}) => bytes' = bytes]_vars

\* Whom the tasklet would signal still has the device open.
RemembersAnOpener == user_pid # Nobody => proc[user_pid] # "closed"

\* the readers between disable_irq and enable_irq
Disabling ==
    {p \in Procs : proc[p] \in {"synchronize", "copy", "clear", "enable"}}

\* The interrupt is disabled once for every reader that is between disable_irq
\* and enable_irq, and for every copy that failed: but for those, which the
\* code never takes back, the line comes back.
LineComesBack == depth = faults + Cardinality(Disabling)

\* What the mouse sent is taken from the port, whoever reads, unless a copy
\* failed.
BytesAreTaken == fifo # <<>> ~> fifo = <<>> \/ faults > 0 \/ oops

\* Nobody sleeps on a packet that is there, and stays.
ReadyIsNoticed ==
    \A p \in Procs :
        proc[p] \in {"sleep", "pollsleep"} /\ ready = 1
            ~> proc[p] \notin {"sleep", "pollsleep"} \/ ready = 0 \/ oops
=============================================================================
