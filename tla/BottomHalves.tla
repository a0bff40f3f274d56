---------------------------- MODULE BottomHalves ----------------------------
(***************************************************************************)
(* Top halves that only ask for work, and the bottom halves that do it:    *)
(* the drivers of chapters 8 and 20 that defer with a tasklet, a work item *)
(* or a thread that waits on a flag.  Each is a record of its parts, which *)
(* the actions interpret.                                                  *)
(*                                                                         *)
(* from    "line"   one interrupt line, lab_one_interrupt.h                *)
(*         "lines"  every line that can be shared, lab_all_interrupt.h     *)
(*         "file"   a write() in place of an interrupt                     *)
(* top     what the handler does, or the write                             *)
(* by      "tasklet", "work" or "thread", or "none": no bottom half        *)
(* bottom  what the deferred function does; a tasklet's ends in the "unlock" *)
(*         by which the softirq lets it go                                 *)
(* loop    the loop of the thread or tasklet: one run for a raised flag    *)
(*         ("flag"), catching up on nevents ("catchup"), charging a line   *)
(*         ("charge")                                                      *)
(* own     every interrupt allocates the item it queues                    *)
(* flush   the unload waits for what is queued                             *)
(*                                                                         *)
(* A line number or jiffies that a top half stores for its bottom half is  *)
(* the number of the store, and stored says which line made it.            *)
(***************************************************************************)
EXTENDS Integers, Sequences, FiniteSets

CONSTANTS
    Drivers,    \* the drivers under check, names of Driver
    NLines,     \* MAXIRQS; of a "file" driver, the processes that write
    Cpus,       \* CPUs that run bottom halves
    MaxIrq,     \* bound on the interrupts, or writes
    MaxAll      \* the same where there are many lines

ASSUME ConstantsAssumption ==
    /\ NLines \in Nat \ {0} /\ IsFiniteSet(Cpus)
    /\ MaxIrq \in Nat /\ MaxAll \in 0 .. MaxIrq

VARIABLES
    driver,     \* which driver is loaded
    module,     \* the module's life: see Phase
    irq,        \* the line get_irqs or freeup_irqs is at
    linked,     \* the lines whose interrupts reach the driver
    top,        \* the operation of .top each line is at, 0: none
    item,       \* what each top half queues: 0 the static one, or its own
    interrupts, \* interrupts[]; of a "line" driver, counter_th is the first
    local,      \* what a ++ that is not atomic has read
    bhs,        \* bhs[]
    counter_bh, \* counter_bh; of a "lines" driver, the sum of bhs[]
    nevents,    \* events not yet consumed (catchup)
    cond,       \* the thread's flag
    data,       \* what each item holds, as the number of a store; 0: nothing
    heap,       \* the items that are allocated
    pending,    \* the items that are queued
    runner,     \* the item each CPU runs and its place in .bottom, 0: none
    thread,     \* where the thread stands
    held,       \* the thread's int irq, as the number of a store
    stop,       \* kthread_should_stop()
    fired,      \* history: the lines of the interrupts, in order
    early,      \* history: how many of each line came before its reset
    stored,     \* history: the lines of the stores, in order
    seen        \* history: the stores that a bottom half has read

life == <<driver, module, irq, linked>>
tops == <<top, item, local>>
counters == <<interrupts, bhs, counter_bh, nevents>>
queue == <<heap, pending, runner>>
task == <<thread, held, stop>>
history == <<fired, early, stored, seen>>
vars == <<life, tops, counters, cond, data, queue, task, history>>

Lines == 1 .. NLines
Items == 0 .. MaxIrq

-----------------------------------------------------------------------------
(* The drivers *)

lab2_one_tasklet ==
    [from |-> "line", top |-> <<"count", "stamp", "schedule">>,
     by |-> "tasklet", bottom |-> <<"count", "print", "unlock">>,
     loop |-> "none", own |-> FALSE, flush |-> FALSE]

lab2_one_workqueue ==
    [lab2_one_tasklet EXCEPT !.by = "work", !.bottom = <<"count", "print">>]

lab2_one_thread ==
    [lab2_one_tasklet EXCEPT
        !.top = <<"count", "stamp", "raise", "wake">>,
        !.by = "thread", !.bottom = <<>>, !.loop = "flag"]

lab3_one_thread_improved ==
    [lab2_one_thread EXCEPT
        !.top = <<"event", "count", "raise", "stamp", "wake">>,
        !.loop = "catchup"]

\* the function, not a thread, catches up on nevents
lab3_one_tasklet_improved ==
    [lab2_one_tasklet EXCEPT
        !.top = <<"count", "event", "stamp", "schedule">>,
        !.bottom = <<"events?", "count", "print", "dec", "unlock">>,
        !.loop = "catchup"]

lab3_one_tasklet_dynamic ==
    [lab2_one_tasklet EXCEPT
        !.top = <<"alloc", "stamp", "count", "schedule">>,
        !.bottom = <<"count", "print", "free", "unlock">>, !.own = TRUE]

lab3_one_workqueue_dynamic ==
    [lab3_one_tasklet_dynamic EXCEPT
        !.by = "work", !.bottom = <<"count", "print", "free">>]

\* 20_LAB3_tasklet_dynamic: the function is given 0 in place of the tasklet
Nirq_dynamic ==
    [lab3_one_tasklet_dynamic EXCEPT
        !.top = <<"alloc", "count", "schedule">>,
        !.bottom = <<"count", "free null", "unlock">>]

lab4_all_tasklet ==
    [lab2_one_tasklet EXCEPT
        !.from = "lines", !.top = <<"stamp", "count", "schedule">>,
        !.bottom = <<"charge", "unlock">>]

lab4_all_workqueue ==
    [lab4_all_tasklet EXCEPT !.by = "work", !.bottom = <<"charge">>]

lab4_all_thread ==
    [lab2_one_thread EXCEPT
        !.from = "lines", !.top = <<"stamp", "raise", "count", "wake">>,
        !.loop = "charge"]

lab5_all_tasklet_dynamic ==
    [lab3_one_tasklet_dynamic EXCEPT
        !.from = "lines", !.bottom = <<"charge", "free", "unlock">>]

lab5_all_workqueue_dynamic ==
    [lab5_all_tasklet_dynamic EXCEPT
        !.by = "work", !.bottom = <<"charge", "free">>]

\* s_08: interrupts[irq]++ on an int
lab2_interrupt ==
    [lab4_all_tasklet EXCEPT
        !.top = <<"read", "write">>, !.by = "none", !.bottom = <<>>]

\* s_20: the data is changed after the request
lab1_tasklet ==
    [lab2_one_tasklet EXCEPT
        !.from = "file", !.top = <<"schedule", "stamp">>,
        !.bottom = <<"print", "unlock">>]

lab1_workqueue_shared ==
    [lab1_tasklet EXCEPT !.by = "work", !.bottom = <<"print">>]

lab1_workqueue_private == [lab1_workqueue_shared EXCEPT !.flush = TRUE]

lab1_workqueue_newapi == lab1_workqueue_private

\* 20_LAB1_tasklets, 20_LAB1_wq
tasklet == [lab1_tasklet EXCEPT !.top = <<"stamp", "schedule">>]

workqueue ==
    [lab1_workqueue_shared EXCEPT !.top = <<"stamp", "schedule">>]

Driver ==
    [lab2_one_tasklet |-> lab2_one_tasklet,
     lab2_one_workqueue |-> lab2_one_workqueue,
     lab2_one_thread |-> lab2_one_thread,
     lab3_one_thread_improved |-> lab3_one_thread_improved,
     lab3_one_tasklet_improved |-> lab3_one_tasklet_improved,
     lab3_one_tasklet_dynamic |-> lab3_one_tasklet_dynamic,
     lab3_one_workqueue_dynamic |-> lab3_one_workqueue_dynamic,
     Nirq_dynamic |-> Nirq_dynamic,
     lab4_all_tasklet |-> lab4_all_tasklet,
     lab4_all_workqueue |-> lab4_all_workqueue,
     lab4_all_thread |-> lab4_all_thread,
     lab5_all_tasklet_dynamic |-> lab5_all_tasklet_dynamic,
     lab5_all_workqueue_dynamic |-> lab5_all_workqueue_dynamic,
     lab2_interrupt |-> lab2_interrupt,
     lab1_tasklet |-> lab1_tasklet,
     lab1_workqueue_shared |-> lab1_workqueue_shared,
     lab1_workqueue_private |-> lab1_workqueue_private,
     lab1_workqueue_newapi |-> lab1_workqueue_newapi,
     tasklet |-> tasklet,
     workqueue |-> workqueue]

ASSUME DriversAssumption == Drivers \subseteq DOMAIN Driver

d == Driver[driver]

-----------------------------------------------------------------------------

Phase == {"out", "starting", "loading", "reset", "in", "stopping", "leaving",
          "unlinking", "waiting", "freed", "failed", "oops"}

TypeOK ==
    /\ driver \in Drivers
    /\ module \in Phase
    /\ irq \in Lines
    /\ linked \subseteq Lines
    /\ top \in [Lines -> 0 .. Len(d.top)]
    /\ item \in [Lines -> Items]
    /\ interrupts \in [Lines -> -1 .. MaxIrq]
    /\ local \in [Lines -> -1 .. MaxIrq]
    /\ bhs \in [Lines -> 0 .. MaxIrq]
    /\ counter_bh \in 0 .. MaxIrq
    /\ nevents \in 0 .. MaxIrq
    /\ cond \in {0, 1}
    /\ data \in [Items -> 0 .. MaxIrq]
    /\ heap \subseteq Items
    /\ pending \subseteq Items
    /\ runner \in [Cpus -> Items \X (0 .. Len(d.bottom))]
    /\ thread \in {"none", "errptr", "read", "clear", "wait", "sleep", "cond?",
                   "print", "stop?", "events?", "inc", "dec", "while",
                   "exited"}
    /\ held \in 0 .. MaxIrq
    /\ stop \in BOOLEAN
    /\ fired \in Seq(Lines) /\ Len(fired) <= MaxIrq
    /\ early \in [Lines -> 0 .. MaxIrq]
    /\ stored \in Seq(Lines) /\ Len(stored) <= MaxIrq
    /\ seen \subseteq 1 .. MaxIrq

Init ==
    /\ driver \in Drivers
    /\ module = "out" /\ irq = 1 /\ linked = {}
    /\ top = [l \in Lines |-> 0]
    /\ item = [l \in Lines |-> 0]
    /\ local = [l \in Lines |-> 0]
    /\ interrupts = [l \in Lines |-> 0]
    /\ bhs = [l \in Lines |-> 0]
    /\ counter_bh = 0 /\ nevents = 0
    /\ cond = 1                     \* raised before the thread exists
    /\ data = [i \in Items |-> 0]
    /\ heap = {0} /\ pending = {}
    /\ runner = [c \in Cpus |-> <<0, 0>>]
    /\ thread = "none" /\ held = 0 /\ stop = FALSE
    /\ fired = <<>> /\ early = [l \in Lines |-> 0]
    /\ stored = <<>> /\ seen = {}

TextPresent == module \notin {"freed", "failed", "oops"}
Busy(c) == runner[c][2] # 0
Alive == thread \notin {"none", "errptr", "exited"}
Woken == IF thread = "sleep" THEN "wait" ELSE thread
Fired(l) == Cardinality({i \in DOMAIN fired : fired[i] = l})

\* what was never stored reads as the first line, irq 0
LineOf(store) == IF store = 0 THEN 1 ELSE stored[store]

FirstOf(loop) == IF loop = "charge" THEN "read" ELSE "clear"

\* The loops over the lines of get_irqs and freeup_irqs
LoopFrom(next, done) ==
    /\ module' = IF irq = NLines \/ d.from = "line" THEN done ELSE next
    /\ irq' = IF irq = NLines \/ d.from = "line" THEN 1 ELSE irq + 1

AtTop(l, op) == TextPresent /\ top[l] # 0 /\ d.top[top[l]] = op

\* The top half of l does op and goes to the next.
Does(l, op) ==
    /\ AtTop(l, op)
    /\ top' = [top EXCEPT ![l] = (@ + 1) % (Len(d.top) + 1)]
    /\ UNCHANGED <<life, item, bhs, counter_bh, runner, held, stop, fired,
                   early, seen>>

\* The bottom half on c does op and goes to the next.
Runs(c, op) ==
    /\ TextPresent
    /\ Busy(c) /\ d.bottom[runner[c][2]] = op
    /\ runner' = [runner EXCEPT ![c][2] = (@ + 1) % (Len(d.bottom) + 1)]
    /\ UNCHANGED <<life, tops, interrupts, nevents, cond, data, pending, task,
                   fired, early, stored>>

\* The bottom half on c does op, which decides where it goes.
Goes(c, op, to) ==
    /\ TextPresent
    /\ Busy(c) /\ d.bottom[runner[c][2]] = op
    /\ runner' = [runner EXCEPT ![c][2] = to]
    /\ UNCHANGED <<life, tops, interrupts, bhs, counter_bh, cond, data, heap,
                   pending, task, history>>

\* The thread stands at pc and goes on.
At(pc) ==
    /\ TextPresent
    /\ thread = pc
    /\ UNCHANGED <<life, tops, interrupts, data, queue, stop, fired, early,
                   stored>>

-----------------------------------------------------------------------------
(* Mutated forms of the actions below, only ever used to test properties. *)

ResetForgotten ==
    /\ module = "reset"
    /\ early' = [early EXCEPT ![irq] = Fired(irq)]
    /\ LoopFrom("loading", "in")
    /\ UNCHANGED <<driver, linked, tops, counters, cond, data, queue, task,
                   fired, stored, seen>>

\* an interrupt counted only when no other waits for the bottom half
CountUnlessPending(l) ==
    /\ Does(l, "count")
    /\ interrupts' = [interrupts EXCEPT ![l] = IF pending = {} THEN @ + 1 ELSE @]
    /\ UNCHANGED <<local, nevents, cond, data, heap, pending, thread, stored>>

\* the function not queued while it runs
ScheduleUnlessRunning(l) ==
    /\ Does(l, "schedule")
    /\ pending' = IF \E c \in Cpus : Busy(c) THEN pending
                                             ELSE pending \cup {item[l]}
    /\ UNCHANGED <<local, interrupts, nevents, cond, data, heap, thread,
                   stored>>

WakeForgotten(l) ==
    /\ Does(l, "wake")
    /\ UNCHANGED <<local, interrupts, nevents, cond, data, heap, pending,
                   thread, stored>>

\* the pending bit left set while the function runs
PendingKept(c, i) ==
    /\ TextPresent
    /\ i \in pending
    /\ ~Busy(c)
    /\ runner' = [runner EXCEPT ![c] = <<i, 1>>]
    /\ UNCHANGED <<life, tops, counters, cond, data, heap, pending, task,
                   history>>

FreeForgotten(c) ==
    /\ Runs(c, "free")
    /\ UNCHANGED <<bhs, counter_bh, heap, seen>>

EventsTestDropped ==
    /\ At("events?")
    /\ thread' = "inc"
    /\ UNCHANGED <<bhs, counter_bh, nevents, cond, held, seen>>

-----------------------------------------------------------------------------
(* Load and unload *)

\* kthread_run answers a failure with an ERR_PTR, which the drivers' test for
\* NULL lets pass.
RunThread ==
    /\ d.by = "thread" /\ module = "out"
    /\ module' = "starting"
    /\ thread' \in {FirstOf(d.loop), "errptr"}
    /\ UNCHANGED <<driver, irq, linked, tops, counters, cond, data, queue,
                   held, stop, history>>

\* request_irq, or misc_register; a failure leaves the thread.  The drivers of
\* all lines go on to get_irqs.
Register ==
    /\ module = IF d.by = "thread" THEN "starting" ELSE "out"
    /\ \/ module' = "failed" /\ UNCHANGED linked
       \/ /\ module' = IF d.from = "lines" THEN "loading" ELSE "in"
          /\ linked' = IF d.from = "line" THEN {1}
                       ELSE IF d.from = "lines" THEN {} ELSE Lines
    /\ UNCHANGED <<driver, irq, tops, counters, cond, data, queue, task,
                   history>>

\* The counter is a flag until the line is taken.
RequestLine ==
    /\ module = "loading"
    /\ interrupts' = [interrupts EXCEPT ![irq] = -1]
    /\ bhs' = [bhs EXCEPT ![irq] = 0]
    /\ \/ linked' = linked \cup {irq} /\ module' = "reset" /\ UNCHANGED irq
       \/ UNCHANGED linked /\ LoopFrom("loading", "in")
    /\ UNCHANGED <<driver, tops, counter_bh, nevents, cond, data, queue, task,
                   history>>

\* ... and is set to 0 when interrupts may already have been counted.
ResetCounter ==
    /\ module = "reset"
    /\ interrupts' = [interrupts EXCEPT ![irq] = 0]
    /\ early' = [early EXCEPT ![irq] = Fired(irq)]
    /\ LoopFrom("loading", "in")
    /\ UNCHANGED <<driver, linked, tops, bhs, counter_bh, nevents, cond, data,
                   queue, task, fired, stored, seen>>

\* kthread_stop asks, wakes, and waits in JoinThread; on an ERR_PTR it oopses.
StopThread ==
    /\ module = "in" /\ d.by = "thread"
    /\ IF thread = "errptr"
         THEN module' = "oops" /\ UNCHANGED <<thread, stop>>
         ELSE module' = "stopping" /\ stop' = TRUE /\ thread' = Woken
    /\ UNCHANGED <<driver, irq, linked, tops, counters, cond, data, queue,
                   held, history>>

JoinThread ==
    /\ module = "stopping" /\ thread = "exited"
    /\ module' = "leaving"
    /\ UNCHANGED <<driver, irq, linked, tops, counters, cond, data, queue,
                   task, history>>

Leaving == module = "leaving" \/ (module = "in" /\ d.by # "thread")

\* synchronize_irq waits for a handler in flight and stops no new one; a line
\* whose counter still is the flag was not taken.
SynchronizeIrq ==
    /\ Leaving /\ d.from # "file"
    /\ IF d.from = "lines" /\ interrupts[irq] < 0
         THEN LoopFrom("leaving", "freed")
         ELSE top[irq] = 0 /\ module' = "unlinking" /\ UNCHANGED irq
    /\ UNCHANGED <<driver, linked, tops, counters, cond, data, queue, task,
                   history>>

\* free_irq unlinks the handler and waits for the one in flight.
UnlinkIrq ==
    /\ module = "unlinking"
    /\ module' = "waiting"
    /\ linked' = linked \ {irq}
    /\ UNCHANGED <<driver, irq, tops, counters, cond, data, queue, task,
                   history>>

FreeIrq ==
    /\ module = "waiting" /\ top[irq] = 0
    /\ LoopFrom("leaving", "freed")
    /\ UNCHANGED <<driver, linked, tops, counters, cond, data, queue, task,
                   history>>

\* destroy_workqueue where there is one, and misc_deregister; an open file
\* holds the module, so no write is in flight.
Deregister ==
    /\ module = "in" /\ d.from = "file"
    /\ \A l \in Lines : top[l] = 0
    /\ d.flush => pending = {} /\ \A c \in Cpus : ~Busy(c)
    /\ module' = "freed"
    /\ linked' = {}
    /\ UNCHANGED <<driver, irq, tops, counters, cond, data, queue, task,
                   history>>

\* What is queued, running, asleep or still linked goes on in freed text.
FreedTextRuns ==
    /\ \/ module \in {"freed", "failed"} /\ Alive
       \/ /\ module = "freed"
          /\ pending # {} \/ linked # {} \/ \E c \in Cpus : Busy(c)
    /\ module' = "oops"
    /\ UNCHANGED <<driver, irq, linked, tops, counters, cond, data, queue,
                   task, history>>

my_init == RunThread \/ Register \/ RequestLine \/ ResetCounter
my_exit ==
    \/ StopThread \/ JoinThread
    \/ SynchronizeIrq \/ UnlinkIrq \/ FreeIrq \/ Deregister

-----------------------------------------------------------------------------
(* my_interrupt, isr_top; mycdrv_write, mydev_write *)

\* handle_IRQ_event, one handler of a line at a time; or a write is called.
Enter(l) ==
    /\ TextPresent
    /\ l \in linked /\ top[l] = 0
    /\ Len(fired) < IF d.from = "lines" THEN MaxAll ELSE MaxIrq
    /\ top' = [top EXCEPT ![l] = 1]
    /\ fired' = Append(fired, l)
    /\ item' = [item EXCEPT ![l] = IF d.own THEN Len(fired') ELSE 0]
    /\ UNCHANGED <<life, local, counters, cond, data, queue, task, early,
                   stored, seen>>

\* kmalloc(GFP_ATOMIC); a null pointer is written through (AllocFails).
TopAlloc(l) ==
    /\ Does(l, "alloc")
    /\ heap' = heap \cup {item[l]}
    /\ UNCHANGED <<local, interrupts, nevents, cond, data, pending, thread,
                   stored>>

AllocFails(l) ==
    /\ AtTop(l, "alloc")
    /\ module' = "oops"
    /\ UNCHANGED <<driver, irq, linked, tops, counters, cond, data, queue,
                   task, history>>

TopStamp(l) ==
    /\ Does(l, "stamp")
    /\ stored' = Append(stored, l)
    /\ data' = [data EXCEPT ![item[l]] = Len(stored')]
    /\ UNCHANGED <<local, interrupts, nevents, cond, heap, pending, thread>>

TopEvent(l) ==
    /\ Does(l, "event")
    /\ nevents' = nevents + 1
    /\ UNCHANGED <<local, interrupts, cond, data, heap, pending, thread,
                   stored>>

TopCount(l) ==
    /\ Does(l, "count")
    /\ interrupts' = [interrupts EXCEPT ![l] = @ + 1]
    /\ UNCHANGED <<local, nevents, cond, data, heap, pending, thread, stored>>

TopRead(l) ==
    /\ Does(l, "read")
    /\ local' = [local EXCEPT ![l] = interrupts[l]]
    /\ UNCHANGED <<interrupts, nevents, cond, data, heap, pending, thread,
                   stored>>

TopWrite(l) ==
    /\ Does(l, "write")
    /\ interrupts' = [interrupts EXCEPT ![l] = local[l] + 1]
    /\ UNCHANGED <<local, nevents, cond, data, heap, pending, thread, stored>>

\* tasklet_schedule, schedule_work, queue_work
TopSchedule(l) ==
    /\ Does(l, "schedule")
    /\ pending' = pending \cup {item[l]}
    /\ UNCHANGED <<local, interrupts, nevents, cond, data, heap, thread,
                   stored>>

TopRaise(l) ==
    /\ Does(l, "raise")
    /\ cond' = 1
    /\ UNCHANGED <<local, interrupts, nevents, data, heap, pending, thread,
                   stored>>

\* wake_up_interruptible
TopWake(l) ==
    /\ Does(l, "wake")
    /\ thread' = Woken
    /\ UNCHANGED <<local, interrupts, nevents, cond, data, heap, pending,
                   stored>>

-----------------------------------------------------------------------------
(* t_fun, w_fun, isr_bottom, tasklet_func, wq_func *)

\* The pending bit is cleared before the function is called.  A tasklet never
\* runs against itself; a work item of this kernel may run on two CPUs.
BottomRun(c, i) ==
    /\ TextPresent
    /\ i \in pending
    /\ ~Busy(c)
    /\ d.by = "tasklet" => \A e \in Cpus : Busy(e) => runner[e][1] # i
    /\ pending' = pending \ {i}
    /\ runner' = [runner EXCEPT ![c] = <<i, 1>>]
    /\ UNCHANGED <<life, tops, counters, cond, data, heap, task, history>>

BottomCount(c) ==
    /\ Runs(c, "count")
    /\ counter_bh' = counter_bh + 1
    /\ UNCHANGED <<bhs, heap, seen>>

\* atomic_inc(&bhs[data->irq])
BottomCharge(c) ==
    /\ Runs(c, "charge")
    /\ bhs' = [bhs EXCEPT ![LineOf(data[runner[c][1]])] = @ + 1]
    /\ counter_bh' = counter_bh + 1
    /\ seen' = seen \cup ({data[runner[c][1]]} \ {0})
    /\ UNCHANGED heap

BottomPrint(c) ==
    /\ Runs(c, "print")
    /\ seen' = seen \cup ({data[runner[c][1]]} \ {0})
    /\ UNCHANGED <<bhs, counter_bh, heap>>

BottomFree(c) ==
    /\ Runs(c, "free")
    /\ heap' = heap \ {runner[c][1]}
    /\ UNCHANGED <<bhs, counter_bh, seen>>

\* catchup: an interrupt that was answered with an earlier one ends at once
BottomTest(c) ==
    /\ Goes(c, "events?", IF nevents <= 0 THEN Len(d.bottom) ELSE 2)
    /\ UNCHANGED nevents

\* atomic_dec_and_test(&nevents)
BottomDec(c) ==
    /\ Goes(c, "dec", IF nevents = 1 THEN Len(d.bottom) ELSE 2)
    /\ nevents' = nevents - 1

\* kfree(NULL); the softirq lets the tasklet go
BottomOther(c) ==
    /\ Runs(c, "free null") \/ Runs(c, "unlock")
    /\ UNCHANGED <<bhs, counter_bh, heap, seen>>

-----------------------------------------------------------------------------
(* thr_fun *)

\* charge: int irq = data->irq
ThreadRead ==
    /\ At("read")
    /\ held' = data[0]
    /\ seen' = seen \cup ({data[0]} \ {0})
    /\ thread' = "clear"
    /\ UNCHANGED <<bhs, counter_bh, nevents, cond>>

ThreadClear ==
    /\ At("clear")
    /\ cond' = 0
    /\ thread' = "wait"
    /\ UNCHANGED <<bhs, counter_bh, nevents, held, seen>>

\* wait_event_interruptible(wq, kthread_should_stop() || cond), which queues
\* the thread before it looks
ThreadWait ==
    /\ At("wait")
    /\ thread' = IF ~(stop \/ cond # 0) THEN "sleep"
                 ELSE IF d.loop = "catchup" THEN "stop?" ELSE "cond?"
    /\ UNCHANGED <<bhs, counter_bh, nevents, cond, held, seen>>

\* if (atomic_read(&cond)) atomic_inc(...)
ThreadCount ==
    /\ At("cond?")
    /\ counter_bh' = counter_bh + cond
    /\ IF d.loop = "charge"
         THEN /\ bhs' = [bhs EXCEPT ![LineOf(held)] = @ + cond]
              /\ thread' = "while"
         ELSE thread' = "print" /\ UNCHANGED bhs
    /\ UNCHANGED <<nevents, cond, held, seen>>

ThreadPrint ==
    /\ At("print")
    /\ seen' = seen \cup ({data[0]} \ {0})
    /\ thread' = "while"
    /\ UNCHANGED <<bhs, counter_bh, nevents, cond, held>>

\* catchup
ThreadStopTest ==
    /\ At("stop?")
    /\ thread' = IF stop THEN "exited" ELSE "events?"
    /\ UNCHANGED <<bhs, counter_bh, nevents, cond, held, seen>>

ThreadEventsTest ==
    /\ At("events?")
    /\ thread' = IF nevents <= 0 THEN "while" ELSE "inc"
    /\ UNCHANGED <<bhs, counter_bh, nevents, cond, held, seen>>

\* counts and prints
ThreadInc ==
    /\ At("inc")
    /\ counter_bh' = counter_bh + 1
    /\ seen' = seen \cup ({data[0]} \ {0})
    /\ thread' = "dec"
    /\ UNCHANGED <<bhs, nevents, cond, held>>

ThreadDec ==
    /\ At("dec")
    /\ nevents' = nevents - 1
    /\ thread' = IF nevents' = 0 THEN "while" ELSE "inc"
    /\ UNCHANGED <<bhs, counter_bh, cond, held, seen>>

ThreadWhile ==
    /\ At("while")
    /\ thread' = IF stop THEN "exited" ELSE FirstOf(d.loop)
    /\ UNCHANGED <<bhs, counter_bh, nevents, cond, held, seen>>

-----------------------------------------------------------------------------

my_interrupt(l) ==
    \/ TopAlloc(l) \/ TopStamp(l) \/ TopEvent(l) \/ TopCount(l)
    \/ TopRead(l) \/ TopWrite(l)
    \/ TopSchedule(l) \/ TopRaise(l) \/ TopWake(l)
bottom(c) ==
    \/ BottomCount(c) \/ BottomCharge(c) \/ BottomPrint(c)
    \/ BottomFree(c) \/ BottomOther(c) \/ BottomTest(c) \/ BottomDec(c)
thr_fun ==
    \/ ThreadRead \/ ThreadClear \/ ThreadWait \/ ThreadCount \/ ThreadPrint
    \/ ThreadStopTest \/ ThreadEventsTest \/ ThreadInc \/ ThreadDec
    \/ ThreadWhile
Runnable ==
    \/ \E l \in Lines : my_interrupt(l)
    \/ \E c \in Cpus : bottom(c) \/ \E i \in Items : BottomRun(c, i)
    \/ thr_fun

Next ==
    \/ my_init \/ my_exit \/ FreedTextRuns
    \/ \E l \in Lines : Enter(l) \/ AllocFails(l)
    \/ Runnable

\* A machine that can run something of the driver's does not stop for ever.
\* That is less than the scheduler gives, and enough while interrupts are few.
Fairness == WF_vars(Runnable)

Spec == Init /\ [][Next]_vars /\ Fairness

-----------------------------------------------------------------------------
(* Properties *)

\* "are the bottom and top halves called an equal number of times?"
\* (lab2_one_tasklet.c:43-44): never more bottoms than tops, whatever is
\* merged, whichever line is charged, wherever the function runs, and not even
\* for the flag that is up before the first interrupt.  Where each interrupt
\* brings its own item no line is charged more than it fired.
NeverMoreBottoms ==
    /\ counter_bh <= Len(fired)
    /\ d.own => \A l \in Lines : bhs[l] <= Fired(l)

\* The counter of a line is the flag of whether it was taken, while interrupts
\* count in it: what freeup_irqs skips was refused, what it frees was taken,
\* and no line is left behind.
LinesGivenBack ==
    /\ d.from = "lines" /\ module = "in" =>
          \A l \in Lines : l \in linked <=> interrupts[l] >= 0
    /\ module = "freed" => linked = {}

\* An interrupt that came between request_irq and the reset of its counter is
\* forgotten, no other; and none is counted twice.
ForgottenOnlyAtLoad ==
    d.from = "lines" /\ module # "oops" =>
        \A l \in linked :
            top[l] = 0 /\ (module # "reset" \/ irq # l) =>
                interrupts[l] \in Fired(l) - early[l] .. Fired(l)

\* The function is given 0 to free, so every tasklet stays.
NothingFreed == {"Nirq_dynamic"}
\* The function frees the tasklet, which the softirq then unlocks.
FreedBeforeUnlock == {"lab3_one_tasklet_dynamic", "lab5_all_tasklet_dynamic"}

Held(i) ==
    \/ i \in pending
    \/ \E c \in Cpus : /\ Busy(c) /\ runner[c][1] = i
                       /\ driver \in FreedBeforeUnlock =>
                             d.bottom[runner[c][2]] # "unlock"
    \/ \E l \in Lines : top[l] > 1 /\ item[l] = i

\* Memory of an interrupt's own is allocated exactly as long as its top half,
\* the queue or its bottom half needs it: nothing is kept, freed twice, or
\* used when it is free.  The drivers of NothingFreed keep every tasklet, and
\* for those of FreedBeforeUnlock the softirq's own last access is left out.
OwnMemory ==
    d.own /\ TextPresent =>
        \A i \in Items \ {0} :
            /\ i \in heap /\ driver \notin NothingFreed => Held(i)
            /\ Held(i) => i \in heap

\* The data is stored after the bottom half was asked for.
StampsLate == {"lab1_tasklet", "lab1_workqueue_shared",
               "lab1_workqueue_private", "lab1_workqueue_newapi"}

Gone == module \in {"freed", "oops"}

\* The n-th store has been answered: by a bottom half that read it or, in the
\* same place, a later one; by one of its own where nevents is caught up on.
Answered(n) ==
    CASE d.loop = "catchup" -> counter_bh >= n
      [] d.own -> n \in seen
      [] OTHER -> \E m \in seen : m >= n

\* Merging loses bottom halves but never the last one: what a top half stored
\* is read by a bottom half, or what was stored later in the same place, unless
\* the module is unloaded first.  The tasklet that catches up loses none, also
\* when it ends its loop just before the next event.
EveryStampAnswered ==
    \A n \in 1 .. MaxIrq :
        d.by \in {"tasklet", "work"} /\ driver \notin StampsLate
                /\ Len(stored) >= n
            ~> Answered(n) \/ Gone

\* The interrupts that the thread was told of, and answered: events consumed,
\* or stores read.
Told == IF d.loop = "catchup" THEN interrupts[1] ELSE Len(stored)

\* What the thread drivers do give: an interrupt the thread slept on is
\* answered after the next one, unless the thread is stopped first.
NextInterruptAnswers ==
    \A n \in 0 .. MaxIrq - 1 :
        []( thread = "sleep" /\ Told = n =>
            [](Told > n => <>(Answered(n) \/ stop)) )

\* What the laboratories ask for: a thread "which gets woken up anytime data is
\* available" (lab2_one_thread.c:38-39), a bottom half that catches up,
\* "cleaning up the pending queue" (lab3_one_thread_improved.c:27-28).  An
\* interrupt that comes between the last look of a run and the lowering of the
\* flag is slept on.
EveryInterruptAnswered ==
    \A n \in 1 .. MaxIrq :
        Told >= n ~> \/ Answered(n)
                     \/ stop
                     \/ thread = "errptr"
                     \/ module \in {"failed", "oops"}
=============================================================================
