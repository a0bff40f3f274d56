# Verification of the driver laboratories

TLA+ models of the drivers in this repository: the laboratory answers in
`10_LAB1` .. `8_LAB2` and the reference solutions of the same course in
`SOLUTIONS/s_02` .. `s_35`, loadable modules for Linux 2.6.31. There is no one
program here. There are some 130 small ones, most of them variations on a
dozen protocols with the kernel: an interrupt and its bottom half, a reader and
a writer, a timer and its memory, an init function and its exit function, a
file and its position. The modules below model a protocol each, with the
drivers as its parameters, so that one run (and one proof) is about all the
drivers that follow it, and what tells them apart is in view.

## The system

| part | state it keeps | operations | hard because of |
|---|---|---|---|
| counting bottom halves (`20_LAB3_*_smart`, `20_LAB6`, s_20 `lab3_one_*_improved`, `lab6_one_threaded`) | `N_th`, `todo`, `done` (`counter_th`, `nevents`, `counter_bh`), a tasklet, a thread, a flag | interrupt handler, bottom half, load, unload | the two halves run on two CPUs with single atomic operations; sleeping and waking |
| merging bottom halves (s_20 `lab2_one_*`, and those started by a write: `lab1_*`, `20_LAB1_*`) | two counters, a time stamp or other data | the same | requests made while one is pending are merged; the data is the next one's, too |
| dynamic bottom halves (`*_dynamic`) | a tasklet or work, and its data, for each interrupt | the same | the function frees what it runs from |
| bottom halves of all interrupts (`lab_all_interrupt.h`, `lab4_all_*`, `lab5_all_*`, s_08 `lab2_interrupt`) | counters per line in the ramdisk | the same for every line, and a read of the counters | one bottom half for many lines; lines are requested and given back one by one while others fire, and a counter is the flag of its line |
| blocking reads (`19_LAB*`, s_19, s_20 `lab7_uio`) | a flag, completion, semaphore or event count; a wait queue | read, write, poll, signals | lost wake-ups, signals, exclusive sleepers |
| timers (`11_LAB*`, s_11) | timers in the wheel, a list or a count of them | write, expiry, unload | expiry on another CPU; memory freed by the function |
| memory devices (`4_LAB1`, `17_LAB1`, `18_LAB*`, `19_LAB*`, s_04, s_17, the chapters' headers) | memory, one position per open file | open, release, read, write, lseek, ioctl (mmap) | signed and unsigned widths; files shared by processes; memory shared by files |
| everything's life cycle | registrations, memory, deferred functions | init, its error paths, exit | failing in the middle; functions still queued or running at the end |
| mouse (s_21 `lab4_full_mouse_driver`) | a packet, a flag, a wait queue, whom to signal, how often the interrupt is disabled | open, read, poll, release, interrupt, tasklet | the packet is guarded by disabling the interrupt; bytes are lost meanwhile |
| proc entries, probes, debugfs, ports, DMA, net, USB, block, notifiers | their registrations and a little data | the callbacks they register | chiefly the life cycle; a remembered task |

The parts meet the kernel far more than each other. An interrupt line calls the
top half, the softirq or a worker or a thread calls the bottom half, the VFS
calls the file operations, the module loader calls init and exit. What they share
is memory: counters, flags, a list, a ramdisk. What each must get right:

* an event is handled once, none is invented, and none waits for ever;
* no sleeper sleeps on what is there, and a stopped thread stops;
* no timer, no memory and no function is used after it was freed;
* a failed load and an unload leave nothing, and take nothing that is not theirs;
* an interrupt line is taken, disabled, enabled and given back in pairs;
* no copy leaves the device, and a read that returns 0 is at its end.

The kernel itself is not in the repository. It is modelled from how the drivers
use it and is marked external in the map: one handler of a line at a time,
`tasklet_schedule` and work items with their pending bit, `wait_event` as
"queue, test, sleep", `kthread_stop`, `free_irq` and `del_timer_sync` waiting,
`misc_deregister` and `del_timer` not waiting, `disable_irq` that counts and waits,
the VFS that reads a position
before the call and stores it afterwards.

## The modules

| module | models | with |
|---|---|---|
| `EventCounter` | the promise of every counting bottom half: abstract | |
| `IrqLine` | an interrupt line and the life of a module on it | |
| `TaskletSmart` | `20_LAB3_tasklet_smart/Nirq.c` | `IrqLine`, refines `EventCounter` |
| `IrqThread` | a module with a line and a kernel thread | `IrqLine` |
| `KthreadSmart` | `20_LAB3_kthread_smart/Nirq.c` | `IrqThread`, refines `EventCounter` |
| `ThreadedIrq` | `20_LAB6/Nirq.c`, s_20 `lab6_one_threaded.c` | `IrqLine` |
| `BottomHalves` | twenty drivers of chapters 8 and 20 that defer: one line, all lines or a write; tasklet, work or thread; shared, catching up or dynamic | |
| `BlockingRead` | eleven drivers of chapter 19, and s_20 `lab7_uio.c` | |
| `Mouse` | s_21 `lab4_full_mouse_driver.c` | |
| `MultiTimer` | `11_LAB2/MKtimer.c`, s_11 `lab2_multitimer.c` | |
| `Lifecycle`, `Drivers`, `MCLifecycle` | init and exit of 106 drivers | |
| `Outlines` | a proof outline for each of them: what is known before every step | `Lifecycle` |
| `CharFile`, `CharDrivers`, `MCCharFile` | 27 memory devices | |
| `TaskletSmartProofs`, `ThreadProofs` (`KthreadSmart` and `ThreadedIrq`), `BottomHalvesProofs`, `BlockingReadProofs`, `MouseProofs`, `MultiTimerProofs`, `CharFileProofs`, `LifecycleProofs` | theorems | |

### How state and actions correspond to the code

**Chapter 20.** Variables have the names of the C variables. Each `atomic_t`
operation is an action, because the halves run on different CPUs; `top`,
`bottom`, `thread` say where each stands, by the operation it does next. An
action's comment or name gives its function: `TopTodo`, `TopCount`,
`TopSchedule` are the three statements of `isr_top`; `BottomCheck`, `BottomInc`,
`BottomDec` the test, the body and the loop condition of `isr_bottom`. Load and
unload are actions too, with the steps at which `synchronize_irq`, `free_irq` and
`kthread_stop` wait. `FreedTextRuns` is what happens when something still runs
then; the module goes to "oops" and no more is said about it. `MaxIrq` bounds
the interrupts. Logging and `mdelay` are left out: an action may take any time.

The drivers of `BottomHalves` are twenty records of eight parts, since they are
one design that the laboratories vary: `top` is the handler (or write) as a
sequence of operations in the order of the code, `bottom` the deferred function,
`from` says what calls the handler, `by` what defers, `loop` how a thread or
tasklet loops. An action is one operation: `TopCount` is `atomic_inc(&interrupts[irq])`
of every driver that has it, and the record says where. `module` walks through
`get_irqs` and `freeup_irqs` a line at a time. `fired`, `stored`, `seen` and `early`
are histories that the properties compare with the counters; `data` holds which
store it was, and with it the line or time stamp.

**Chapter 19.** The drivers differ in what the reader waits on, how, and what
the writer does in which order; each is a record of those parts, and the actions
interpret `d`, the record of the driver loaded. `reader[r]` and `writer[w]` say
where each process stands. Data is left out: a reader that was let through
returns. The writer of `lab7_uio` is its interrupt, and `Deal` and `Subtract` are
the two steps in which a read takes the events.

**The mouse.** `proc` says where each process stands in the system call it is
in, `handler` where the interrupt handler does, `depth` how often the interrupt
is disabled. Bytes are numbered in the order the mouse sends them, so that a
packet put together from two can be told (`garbled`), and every third has the
magic bit; the driver looks at the bit only. The port keeps `FifoSize` bytes
and loses what comes when it is full (`lost`).

**Chapter 11.** `heap` says what each timer's memory is (unused, live, freed, or
corrupt), `armed` is the wheel, `due` when a timer expires, `list` MKtimer's
list, `func` where each timer function stands. `Own` tells the solution, where
a timer frees itself, from the laboratory, where it frees the head of the list.
`Serial` is the set of variants that are run one thing at a time, as an
experimenter with one terminal would.

**Life cycle.** `Drivers` has one record per driver: the steps of its init
function with what each undoes on failure, the steps of its exit function, what
each of its entry points and deferred functions uses, and which of them start
which. `Lifecycle` interprets it: any request may be refused, any registered
function be entered, any deferred one run, between any two steps. A process in
an open file keeps the module loaded; one in a proc entry or debugfs file does
not. So one action of the model is one call of the code, in the order of the
code, and the 106 records are what is diffed against the source. A thread is a
request as well as a deferred function (`RunThread`, `StopThread`): `kthread_run`
is refused with an error code, which passes the drivers' test for null, so the
load goes on without a thread and `kthread_stop` follows the code as a pointer
(`Joined`, "oops"). Timers, tasklets and works are the driver's own data and
cannot be refused.

**Memory devices.** `CharDrivers` has one record per driver: how it cuts a count
at the end of the device, whether it seeks itself, whose the memory is, whether
it looks if it got any, whether a half-way copy counts, whether it moves the
position, and which of them an ioctl clears. A call is two actions, since other processes run during the copy:
`Begin` cuts (with the position that the kernel read before), `Return` says how
far the copy came and stores the position. The arithmetic is that of the 64-bit
build that is kept in the repository: `int maxbytes` against `size_t lbuf` is
an unsigned comparison (`Clamp`), `GLOBALMEM_SIZE - pos` wraps (`Shrink`), and
`testpos < ramdisk_size` is unsigned too (`OwnSeek`), so that a seek to before
the start lands at the end of the device and not at 0, and line 123 of
`lab3_seek.c` never does anything. No comment and no test of the repository says
where such a seek should land, so this is noted here and is no finding.

## The runs

| run | question | bounds |
|---|---|---|
| `tasklet_smart` | does the counting tasklet lose, double or strand an event? | 4 interrupts: one merged with a pending schedule while a third is in its top half and a fourth comes at unload |
| `kthread_smart` | does the counting thread sleep on an event or on a stop? | 3 interrupts: one handled, one that finds the thread in its loop, one after the stop; signals on |
| `bottom_halves` | never more bottom halves than top halves; is every line given back and every interrupt counted; is an interrupt's memory freed once; is the last data read, and a lost interrupt answered after the next? | 2 lines, 2 CPUs that may both run the work, 3 interrupts or writes: answered, slept on, answering for it, or one running while one is queued and one in its top half; 2 interrupts over all lines: one in flight while the other line is taken or given back |
| `flag_thread_lost` | is every interrupt answered, as the laboratory asks? **No.** | as above, the thread that catches up |
| `threaded_irq` | do the counters agree modulo their width, and does the queue drain? | 3 interrupts, 3-bit counters: a runaway loop goes once round, 8 events |
| `threaded_irq_overcount` | is nothing consumed that was not produced? **No.** | 2 interrupts |
| `blocking_read` | does anybody sleep on what is there, or pass before a write? | 2 readers, 2 writers, 4 reads, 3 writes, signals: a sleeper, a newcomer that takes its token, a wake-up during a reset; all twelve drivers |
| `mouse` | is the packet still while it is copied, does the driver get back in step, is the interrupt enabled again, does anybody sleep on a packet? | 2 processes, a port of 1 byte, 5 bytes begun anywhere in a packet, 1 failed copy: one whole packet and most of the next, with bytes lost in either; two reads that disable and enable around each other |
| `multi_timer` | is a timer freed twice or in use; does the unload wait? | 3 timers (head, middle, tail), 2 writers; the laboratory one at a time |
| `mk_timer_overlap` | the laboratory, with timers and writes that overlap: **freed in use.** | as above |
| `lifecycle` | for every driver: does anything run, stay or get freed that should not? | the whole catalogue; each registration and deferred function once at a time |
| `char_file` | does a copy leave the device or the memory; does a read stop early? | 2 files, 2 processes, 2 blocks of memory; device of 1 byte, calls for 1 or 2, positions to 5, int to 2: a call ends before, at and past the end, and `size - pos` exceeds an int |

Every counter is bounded in a guard or by the constants named above; no state
is cut off by a constraint. In `char_file` files, processes and blocks are
symmetric (they occur in no property but under a quantifier, and no liveness is
checked there). Calls for 0 bytes are left to the proof, which covers them.

`CHECK_DEADLOCK FALSE` is set where the system may stop: an unloaded module
does nothing more, and a reader that nobody writes to sleeps for ever. Type
invariants are checked where they bound something that could run away (a
packet, a count of timers, a position); elsewhere the properties bound the
counters. `lab1_workqueue_newapi` has the record of `lab1_workqueue_private` and
is left out of its run.

### What the runs found

Three runs show a disagreement between the code and what the code's own text
says; they are in `PROJECT.json` under findings, with the lines.

* `flag_thread_lost`: `lab3_one_thread_improved.c` is to "catch up", "cleaning
  up the pending queue", but lowers its flag (line 63) after its last look at
  the queue. `lab2_one_thread.c` loses interrupts at the same place (line 79).
  What holds instead is `NextInterruptAnswers` of `bottom_halves`: the next
  interrupt answers for it.
* `threaded_irq_overcount`: the threaded handler of `20_LAB6` can be run for an
  event that its previous run already consumed; `do .. while` then counts one
  that never happened and takes `todo` below zero, once round. What holds instead
  is `ConservationModulo`, and that the loop ends.
* `mk_timer_overlap`: `MKtimer.c` frees the head of the list for whichever timer
  expired, without the lock that its comments ask for.

Others became exceptions of properties, by name, so that the property still
says something about every other driver and breaks if one more joins them:

* `BlockingRead.SleepOn`: `lab1_excl.c` and `lab3_poll.c` wake before they raise
  the flag; `lab2_killable.c` wakes only interruptible sleepers, and its own are
  not. `lab1_semaphore.c` starts its semaphore as a mutex and lets one read
  through; `lab1_wait_event.c` and others go on after a signal as if woken.
* `BlockingRead.Overdrawn`: two reads of `lab7_uio.c` may subtract the same events
  (lines 76 and 78); the counter is then below what it should be by as much, and
  later interrupts wake nobody until it has come up again.
* `BottomHalves.NothingFreed` and `FreedBeforeUnlock`: `20_LAB3_tasklet_dynamic` gives
  its function 0 in place of the tasklet and frees nothing; the other dynamic
  tasklets free themselves, and the softirq then unlocks freed memory.
  `StampsLate`: the writes of `lab1_tasklet.c` and its works change the data after
  they queued its reader. `NeverMoreBottoms` counts per line only where each
  interrupt has data of its own: `lab4_all_*` charge whichever line came last.
  `ForgottenOnlyAtLoad`: what comes between `request_irq` and the reset of its
  counter (`lab_all_interrupt.h:89`, s_08 `lab2_interrupt.c:87`) is forgotten.
* `Mouse.faults`: a copy that fails leaves the interrupt disabled for good
  (line 217). A tasklet queued between `tasklet_kill` and the next line finds no
  process, and `send_sig` oopses (line 153); the model stops there.
* `MCLifecycle.Unstopped`: fifteen drivers leave a tasklet or a work queued when
  they go; `Ticking`: two leave a timer, and one does not wait for it;
  `NotTakenBack`: ten fail to load and leave a thread, an interrupt or a proc
  entry (the two `procfs.c` also when they are unloaded); `StillOpen`: an open
  debugfs file does not hold `lab4_debugfs`.
* `UseTooMuch`: bottom halves that use counters freed before them, the timer
  that is armed again over freed memory, and `20_LAB1_wq`, whose file exists
  before its work. `Leftovers`: what each driver leaks, resource by resource.
  `GiveUntaken`: what each driver gives back that it did not get, resource by
  resource: what it did not look at when it asked, the devices that `lab2_pci`'s
  loop itself puts, and, for the four drivers with a `kthread_run`, a thread that
  was refused. `GivesBackItsOwn` still holds of all else these drivers give back.
* Not properties, but seen: `lab2_priv`, `lab2_multitimer`, `MKtimer`, the dynamic
  tasklets and works, `lab2_proc`, `lab4_periodic_timers` and others use an
  allocation they did not look at. Lifecycle ends such a run in "oops"; CharFile
  has `lab2_priv`'s null pointer, which copies nothing.
* `CharFile.Watches`: `lab1_char` and `lab2_priv` never look at the end;
  `globalmem` of `18_LAB2` does not use the position; the drivers of the headers
  without an `.llseek` can be placed past the end by the kernel's own, where the
  clamp does not cut; `globalmem` of `17_LAB1` and `18_LAB3` then asks for a
  count that wrapped, which copies nothing. pread and pwrite get past the clamp
  of all. Under `memory = "shared"`: `s_17/lab1_cache.c` and `17_LAB1` replace
  the memory of all files at every open, so that one close frees what another
  file uses, and memory is lost and freed twice.

## Fairness

Only what must go on is fair, and weakly: a handler that was entered returns, a
raised softirq or a queued work is run, a thread that can run is scheduled, a
system call that was entered goes on, an unload that was begun goes on. The
scheduler of the kernel justifies each; nothing in the drivers disables
interrupts or preemption for longer than a handler. Nobody has to raise an
interrupt, send a signal, call read or write, or load or unload. `flag_thread_lost`
is a violation under this fairness: the thread sleeps, no interrupt is owed.

`BottomHalves` assumes less than that: a machine that can run something of the
driver's (`Runnable`) does not stop for ever. With few interrupts every handler,
function and thread gets its turn that way, and one condition in place of one
for each line, CPU and item keeps the run small. `Mouse` assumes that a port
which holds a byte interrupts while the line is enabled, that a handler returns,
and that each process that is in a read or a poll goes on; not that anybody
opens, reads or closes.

## What is proved

TLAPS checks forty theorems, for every value of the constants: every safety
property of the passing runs, and, of what `EveryStampAnswered`, `ReadyIsTaken`,
`ReadyIsNoticed` and `EveryTimerFreed` promise, the part that is about states:
whatever is owed is on its way, so that fair steps are all that is left for TLC
to check.

*From* `MaxIrq \in Nat` (`MaxIrqAssumption` and its like; `Signals` any Boolean):

* `TaskletSmartProofs`: `TypeCorrect`, `ConservationHolds`, `NoEventStranded`, and
  `Refinement`, that the driver implements `EventCounter!Safety`. The inductive
  invariant `IInv` adds to the properties that `todo` is positive whenever the
  loop is about to count (`NoUnderflow`: nothing makes the test of line 20 stale
  by line 28) and that a handler which will count was let in below the bound.
  Conservation alone bounds `todo`, not `done`.
* `ThreadProofs`, of `KthreadSmart`: `TypeCorrect`, `WakeupNeverLost`,
  `NothingRunsAfterUnload` and `Refinement`. `NoLostWakeup` is inductive by itself;
  the bounds need conservation, that the loop holds an event (`LoopHasEvent`), and
  that `kthread_run` is called once (`LifeOfThread`).

*From* `ConstantsAssumption` of `ThreadedIrq`, of which `Half` positive is the part
that matters (an `atomic_t` holds an even number of values, `2 * Half`; no power
of two is needed):

* `ThreadProofs`, of `ThreadedIrq`, which it takes as an instance: `CountersAgree`
  (`ConservationModulo`), `ThreadedTypeCorrect`, `ThreadedWakeupNeverLost` and
  `ThreadedNothingRunsAfterUnload`. A loop of this handler may run away, once round
  all values of `todo` and back; so the invariant (`Turns`) says that `todo` is
  what was counted less what was consumed, wrapped to the width, and is inductive
  because wrapping after each step is wrapping once (`WrapStep`). `Asked` says that
  while `todo` is not 0 the handler is under way, the thread is asked for or in its
  loop, or `free_irq` has stopped it.

*From* `ConstantsAssumption` and `DriversAssumption` of `BottomHalves` (at least one
line; the drivers are among the twenty):

* `BottomHalvesProofs`, in which each invariant builds on the one before:
  * `LinesTakenAreGivenBack`, from `IInv`. A counter is the flag of its line while
    handlers count in it, so the invariant has to say where a handler can be
    in flight (`InFlight`: on a line that was taken, or on the one `free_irq` waits
    for), and what is known of the lines before, at and after the one the loop of
    `get_irqs` or `freeup_irqs` is at (`Loops`). All that runs besides the loops
    only counts where a handler is in flight, and never to below zero (`Counts`).
  * `OnlyEarlyOnesForgotten`, from `CountsUp`: the counter and the handler that has
    yet to count (`Owed`) make up the interrupts of the line, less those that came
    before the reset. `lab2_interrupt` reads and writes its counter in two steps,
    and between them the value is in `local`; that nothing is lost there rests on
    the line not interrupting its own handler.
  * `OwnMemoryKept`, from `Apart` and `AsHeld`: each item is with one handler, in the
    queue, or in one function, and is the one that its interrupt brought. The order
    in which a driver's operations stand (`OwnOrder`: allocate before storing
    before scheduling, count before freeing, free last but for the unlocking) is
    what makes the memory live wherever it is used.
  * `BottomsNeverExceedTops`, from `Total`: the bottom halves counted, the handlers
    that have yet to ask (`Asking`) and what has been asked for and not counted
    (`Waiting`: events, a raised flag, items queued or begun) are together no more
    than the interrupts. For the drivers that catch up this needs that one run
    goes on at a time and on an event that is there (`Catching`). Per line it
    follows from `Charges`: what is charged to a line is no more than its
    interrupts whose item is nowhere any more, since each item carries the stamp
    of its own line (`Stamps`).
  * `LastStoreIsNeverLost`, of the drivers whose handler stores its data before it
    queues the function: what it stored was read, or lies in an item which is
    queued, which a function has begun and not read yet, or which the handler is
    about to queue; or, where all interrupts share one item, a later store does.
    Own items are never overwritten by another's store because they are `Apart`.
  * `EventIsNeverLost`, of the tasklet that catches up: each event was counted or
    waits (the conservation law behind `Total`, here an equation), and while one
    waits the tasklet is queued, in its loop, or about to be queued. That the loop
    ends just before the next event loses nothing, since that event's handler
    queues the tasklet after it counts.

*From* the assumptions of `BlockingRead` (`DriversAssumption`: the drivers are among
the twelve; finitely many readers and writers):

* `BlockingReadProofs`: `NoReadForNothing`. `Balance` is the conservation law of the
  counted drivers and inductive by itself once `Posted`, a cardinality, is shown
  to move by one with each operation of a writer; `NothingPosted` says that until
  a write has posted the flag is down and nobody is on the way out of the wait.
  `WakeupNeverLost` says that nobody sleeps on what is there: while a reader sleeps
  on a raised flag or on counted events a writer is between its store and its
  wake-up; nobody sleeps on a token of the semaphore; and for each token of the
  completion a reader is up to take it. It leaves out the three drivers of
  `SleepOn`, which do lose wake-ups, and it holds of `lab7_uio` as long as no reader
  took events that another had taken (`Overdrawn`): a hypothesis of the theorem,
  as it is an exception in `ReadyIsTaken`.

*From* `ConstantsAssumption` of `Mouse` (finitely many processes, a port of at least
one byte):

* `MouseProofs`: `TypeCorrect`, `ResyncHolds`, `OpenerIsRemembered`, `LineIsGivenBack`,
  `PacketStaysStill` and `NoticeIsNeverLost` (nobody sleeps on a packet but for a
  handler between `atomic_set` and its wake-up). `InOrder` says that the bytes in the packet and in the
  port rise in the order they were sent; `Slack` that a packet put together from
  two was paid for by a byte lost before its last one, which is what makes
  `Resync` inductive; `Quiet` that no handler is in flight while a read copies,
  which follows from `LineComesBack`: somebody who copies has disabled the line.

*From* `ConstantsAssumption` of `MultiTimer`:

* `MultiTimerProofs`, of the driver whose timers free themselves: `OwnIsFreedOnce`
  and `OwnUnloadWaits`; of both: `TypeCorrect`. `Held` says that each live
  timer is with exactly one of its writer, the wheel and its function, so that
  who frees it is the last to have it; `Count` that `ntimers` is the number of
  timers that are live or whose function has yet to count itself out, which also
  bounds it.
* *If `MKtimer` does one thing at a time* (`FALSE \in Serial`, as in the run
  `multi_timer`; without it `mk_timer_overlap` is the counterexample):
  `FreedOnce` and `NoTimerIsForgotten`, of both drivers. `SerialInv` says that the
  list is in the order of expiry and holds the live timers, each once; so the
  head, which the function frees whichever timer it runs for, is the timer
  that expired (`FuncFindsItself`).

*From* `CharFileAssumption` (the device fits an int and a position, a call asks
for no more than an int can hold; the catalogue is any set of well-formed records):

* `CharFileProofs`: `TypeCorrect`, with `Room`, that no call under way can take
  its position past the largest; `StaysInDevice`, from `DeviceInv`, whose
  `PositionsInDevice` says that files of the drivers with their own lseek never
  stand past the end, which is what lets an int cut (`ClampedCount`);
  `MemoryIsLive` and `NothingIsKept`, from `MemoryInv`, where `OwnMemory` says
  that open files have different blocks, that a call uses its file's, and that
  nothing else is allocated; `NothingMeansTheEnd`, since in the device no number
  but 0 is 0 in an int.

*From* `OutlineAssumption` of `Outlines`, for any catalogue of drivers that has sound
outlines which are enough:

* `LifecycleProofs`: `NoFunctionOutlivesTheModule`, `FunctionsFindWhatTheyUse`,
  `NothingElseIsLeft` and `GivesBackOnlyItsOwn`. An outline says of each place in a
  driver's init and exit functions and error paths which resources are surely
  held, which were at least asked for, which may be held, and which functions may
  run or be queued. It is sound if each step leads from what is known before it
  to what is known after it, a refusal included, and if nothing that the kernel
  may call or run meanwhile changes what is known (`Stable`). The invariant is that
  the driver is at a place of its outline and that what is known there holds;
  each of the four properties then follows from what the outline says at the
  place (`Suffices`). Both conditions are about a driver's record and no state:
  TLC evaluates them, in the assumption, for the 106 records and the outlines that
  `MCLifecycle` computes from them, before it explores anything. What the proof adds
  to the run is the reason: an exit function is right because of what is known at
  each of its steps, and a driver added to the catalogue needs an outline only.

TLC checked each property first, on the instances above.

Only model-checked:

* all liveness (`EveryEventHandled`, `UnloadFinishes`, `QueueDrains`,
  `EveryStampAnswered`, `NextInterruptAnswers`, `ReadyIsTaken`, `BytesAreTaken`,
  `ReadyIsNoticed`, `EveryTimerFreed`), which with fairness and ENABLED is out of
  the prover's reach.

No module declares a RECURSIVE operator; facts by induction over data are out of
the prover's reach and none is needed.

## What is not modelled

* Programs that do not compile (`4_LAB2`, `7_LAB1`, `8_LAB2`, `20_LAB2_tasklet`,
  `20_LAB2_wq`, `20_LAB7`, `23_LAB1`, `19_LAB1_rwsem`) or are empty (`17_LAB2`).
* `lab1_semaphore_rw.c`: its reader takes the semaphore for reading, does not
  sleep, and never gives it back, and its write gives back what it did not take.
  What a count below zero means is different in each implementation of the
  kernel's, so there is nothing to translate beyond the two calls.
* Demonstrations that print at load and keep no state (`3_LAB1`, `7_LAB2`, parts of
  s_03, s_07, s_08, s_17, s_21, s_25), and modules that only exercise the
  module loader (s_09, the first modules of s_12).
* Tasks remembered by the proc entries and the ioctl (`14_LAB4`, s_14
  `lab4_proc_sig_*`, s_13): a pointer kept without a reference is stale as soon as
  the process exits; a model would have that one step and no invariant to keep.
* A static timer that is set up again while it is pending (`11_LAB1`, s_11
  `lab1_timer`): what follows is the kernel's list, corrupted.
* `lab4_serial.c`'s decoding of packets into a position, and its read of x and y
  one after the other; the full driver is modelled.
* Page tables, mmap and asynchronous I/O (s_18, s_33), packets (24_LAB1, s_24, s_26),
  requests of the block layer (s_35), cpufreq and USB: the kernel calls, the
  driver copies or prints, and what can go wrong is in the life cycle.
* The `EXAMPLES`, the user-space test programs, the build and its artefacts.
* Of the drivers under "partly" in `PROJECT.json`, what its note says.

## Order of work

Most important first: the counting bottom halves and their proofs; threaded
interrupts; blocking reads; timers; the life cycle of everything; the memory
devices and their proofs; then all the other drivers that defer, as one module
with a catalogue (`BottomHalves`, which took in what had been two modules, for
threads that wait on a flag and for merging bottom halves), the mouse,
`lab7_uio`, the ioctl that clears a memory device, twelve more life cycles, and the
proofs of the four modules that had none, then those of `BottomHalves` and of the
life cycle. Proving the types of `MKtimer` had `list_del` read again: it takes the
timer that is first by then, not the one that was taken to be freed, and spoils
the head of an empty list.

The last proofs were the arithmetic of `ConservationModulo`, over a modulus that is
a constant of its own, the laboratory's timers one at a time, and the parts of
four liveness properties that are about states.

What would come next is small: the transmit queues of the network drivers and
the position of the serial mouse, each one callback against another.
