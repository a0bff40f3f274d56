------------------------------ MODULE Drivers ------------------------------
(***************************************************************************)
(* What each driver does when it is loaded and unloaded, as data: the      *)
(* resources its init function takes, in order, and what it undoes when    *)
(* taking one fails; what its exit function gives back, in order; what its *)
(* entry points and deferred functions use; and which of them start        *)
(* deferred functions.  Lifecycle interprets these records.                *)
(*                                                                         *)
(* Several resources of one kind, taken in a loop, are one resource here;  *)
(* so are a class and what is done with it that cannot fail.               *)
(*                                                                         *)
(* A resource is named for what it is: a block of memory, a device number, *)
(* a registration.  Registrations ("cdev", "misc", "irq", "proc", ...) and *)
(* deferred functions ("timer", "tasklet", "work", "thread") are the names *)
(* in uses: through them the kernel calls the driver.                      *)
(***************************************************************************)
EXTENDS Sequences

-----------------------------------------------------------------------------
(* Steps of an init or exit function *)

Step(act, r, undo) == [do |-> act, what |-> r, undo |-> undo]

\* r is given back
Put(r) == Step("put", r, <<>>)
Free(rs) == [i \in DOMAIN rs |-> Put(rs[i])]

\* r is asked for; when that fails, rs are freed and the load fails
Get(r, rs) == Step("get", r, Free(rs))

\* r is asked for, and nobody looks whether it came
Take(r) == Step("take", r, <<>>)

\* as Take, but the next line uses r
Need(r) == Step("need", r, <<>>)

\* r is used
Use(r) == Step("use", r, <<>>)

\* r is set up by the driver itself
Give(r) == Step("give", r, <<>>)

\* deferred function a, in the driver's own data, is set going
Start(a) == Step("start", a, <<>>)

\* a is taken off its queue and not waited for (del_timer), waited for if it
\* runs (del_timer_sync, hrtimer_cancel), or waited for queued
\* or running (destroy_workqueue)
Drop(a) == Step("drop", a, <<>>)
Stop(a) == Step("stop", a, <<>>)
Flush(a) == Step("flush", a, <<>>)

\* thread a is asked for and set going: what refuses it is not a null pointer,
\* which is all that the drivers look for; and it is told to stop and awaited
RunThread(a) == Step("run", a, <<>>)
StopThread(a) == Step("join", a, <<>>)

Driver(init, exit, uses, starts) ==
    [init |-> init, exit |-> exit, uses |-> uses, starts |-> starts]

-----------------------------------------------------------------------------
(* Character devices, chapters 4, 17, 18, 19 *)

\* 4_LAB1 and SOLUTIONS/s_02: nothing is looked at
sample_driver ==
    Driver(<<Take("ramdisk"), Take("region"), Need("my_cdev"), Take("cdev")>>,
           Free(<<"cdev", "my_cdev", "region", "ramdisk">>),
           [cdev |-> {"ramdisk"}], {})

lab1_chrdrv == sample_driver

\* the device number, the cdev, its memory, the registration: undone in full
lab1_char ==
    Driver(<<Get("region", <<>>), Get("my_cdev", <<"region">>),
             Take("ramdisk"),
             Get("cdev", <<"my_cdev", "region", "ramdisk">>)>>,
           Free(<<"cdev", "my_cdev", "region", "ramdisk">>),
           [cdev |-> {"ramdisk"}], {})

lab3_seek == lab1_char
lab4_dynamic == lab1_char

lab2_priv ==
    Driver(<<Get("region", <<>>), Get("my_cdev", <<"region">>),
             Get("cdev", <<"my_cdev", "region">>)>>,
           Free(<<"cdev", "my_cdev", "region">>),
           [cdev |-> {}], {})

lab5_dynamic_udev ==
    [lab1_char EXCEPT !.init = @ \o <<Take("class"), Take("device")>>,
                      !.exit = Free(<<"device", "class">>) \o @]

lab_char == lab5_dynamic_udev

lab6_misc ==
    Driver(<<Take("ramdisk"), Get("misc", <<>>)>>, Free(<<"misc", "ramdisk">>),
           [misc |-> {"ramdisk"}], {})

lab_miscdev ==
    [lab6_misc EXCEPT !.init = <<Take("ramdisk"), Get("misc", <<"ramdisk">>)>>]

\* Drivers whose init and exit are the header's: each has its chapter's copy
lab3_module1 == lab_miscdev
lab3_chrdrv == lab_miscdev
lab3_mmap == lab_miscdev
lab1_complete == lab_miscdev
lab1_aio == lab_miscdev

\* its ioctl has memory of its own, a static variable
lab1_ioctl_data == [lab_miscdev EXCEPT !.uses.misc = {}]

lab1_cache ==
    Driver(<<Get("cache", <<>>), Get("region", <<"cache">>),
             Get("my_cdev", <<"region", "cache">>),
             Get("cdev", <<"my_cdev", "region", "cache">>),
             Take("class"), Take("device")>>,
           Free(<<"device", "class", "cdev", "my_cdev", "region", "cache">>),
           [cdev |-> {"cache"}], {})

globalmem_cache ==
    Driver(<<Get("cache", <<>>), Get("region", <<>>),
             Get("devp", <<"region">>), Take("cdev")>>,
           Free(<<"cdev", "cache", "devp", "region">>),
           [cdev |-> {"devp", "cache"}], {})

\* 18_LAB2 and 18_LAB3: the pages of the devices are one resource
globalmem_pages ==
    Driver(<<Get("region", <<>>), Get("devp", <<"region">>),
             Take("ramdisk"), Take("cdev")>>,
           Free(<<"cdev", "region", "ramdisk", "devp">>),
           [cdev |-> {"devp", "ramdisk"}], {})

globalmem_mmap == globalmem_pages

\* 19_LAB1_complete
globalmem ==
    Driver(<<Get("region", <<>>), Get("devp", <<"region">>), Take("cdev")>>,
           Free(<<"cdev", "devp", "region">>), [cdev |-> {"devp"}], {})

globalmem_sem == globalmem
globalmem_wait == globalmem
globalmem_exwait == globalmem
globalmem_killable == globalmem

\* the pages of the channel's buffers are given back with it
lab4_relay ==
    Driver(<<Need("mychan")>>, Free(<<"mychan">>), <<>>, {})

-----------------------------------------------------------------------------
(* Interrupts, chapters 8, 12, 20 *)

Nirq == Driver(<<Get("irq", <<>>)>>, Free(<<"irq">>), [irq |-> {}], {})

lab1_interrupt == Nirq
lab3_unlock == Nirq
Nirq_threaded == Nirq

\* my_generic_init and my_generic_exit of lab_one_interrupt.h
lab_one_interrupt == Nirq

\* the counters lie in the ramdisk
lab2_interrupt ==
    Driver(lab_miscdev.init \o <<Use("ramdisk"), Take("irq")>>,
           Free(<<"irq">>) \o lab_miscdev.exit,
           [misc |-> {"ramdisk"}, irq |-> {"ramdisk"}], {})

\* tasklets and works of the one-interrupt drivers: nothing stops them
Deferring(driver, by, a) ==
    [driver EXCEPT !.uses = [e \in DOMAIN @ \union {a} |->
                                IF e = a THEN {} ELSE @[e]],
                   !.starts = @ \union {<<by, a>>}]

Nirq_tasklet_smart == Deferring(Nirq, "irq", "tasklet")
Nirq_tasklet_dynamic == Deferring(Nirq, "irq", "tasklet")
lab2_one_tasklet == Deferring(lab_one_interrupt, "irq", "tasklet")
lab3_one_tasklet_improved == Deferring(lab_one_interrupt, "irq", "tasklet")
lab3_one_tasklet_dynamic == Deferring(lab_one_interrupt, "irq", "tasklet")
lab3_one_workqueue_dynamic == Deferring(lab_one_interrupt, "irq", "work")

lab2_one_workqueue ==
    [Deferring(lab_one_interrupt, "irq", "work") EXCEPT
        !.init = <<Give("INIT_WORK")>> \o @,
        !.uses.irq = {"INIT_WORK"}]

\* the thread first, the interrupt after it; a thread runs until it is stopped
WithThread(driver) ==
    [Deferring(driver, "thread", "thread") EXCEPT
        !.init = <<RunThread("thread")>> \o @,
        !.exit = <<StopThread("thread")>> \o @]

Nirq_kthread_smart == WithThread(Nirq)
lab2_one_thread == WithThread(lab_one_interrupt)
lab3_one_thread_improved == WithThread(lab_one_interrupt)

\* lab_all_interrupt.h: interrupts and bhs lie in the ramdisk
lab_all_interrupt ==
    Driver(<<Take("ramdisk"), Get("misc", <<>>), Need("nevents"),
             Use("ramdisk"), Take("irq")>>,
           Free(<<"irq", "misc", "ramdisk", "nevents">>),
           [misc |-> {"ramdisk"}, irq |-> {"ramdisk"}], {})

\* a bottom half that counts in bhs
Counting(driver, a) == [driver EXCEPT !.uses[a] = {"ramdisk"}]

lab4_all_tasklet ==
    Counting(Deferring(lab_all_interrupt, "irq", "tasklet"), "tasklet")
lab5_all_tasklet_dynamic == lab4_all_tasklet
lab5_all_workqueue_dynamic ==
    Counting(Deferring(lab_all_interrupt, "irq", "work"), "work")
lab4_all_workqueue ==
    [Counting(Deferring(lab_all_interrupt, "irq", "work"), "work") EXCEPT
        !.init = <<Give("INIT_WORK")>> \o @,
        !.uses.irq = @ \union {"INIT_WORK"}]

\* the thread counts in bhs too, between a first interrupt and its own stop
lab4_all_thread == WithThread(lab_all_interrupt)

\* the thread function belongs to the interrupt: free_irq waits for it
lab6_all_threaded ==
    [lab_all_interrupt EXCEPT !.uses.irq = {"ramdisk", "nevents"}]

lab7_uio ==
    Driver(<<Get("irq", <<>>)>> \o lab_miscdev.init,
           Free(<<"irq">>) \o lab_miscdev.exit,
           [irq |-> {}, misc |-> {"ramdisk"}], {})

lab8_uio_api ==
    Driver(<<Need("dev"), Take("device"), Need("info"),
             Get("uio", <<"device", "dev", "info">>)>>,
           Free(<<"uio", "device", "info", "dev">>),
           [uio |-> {"info"}], {})

\* a misc device whose write defers work
lab1_tasklet == Deferring(lab_miscdev, "misc", "tasklet")

lab1_workqueue_shared ==
    [Deferring(lab_miscdev, "misc", "work") EXCEPT
        !.init = <<Give("INIT_WORK")>> \o @,
        !.uses.misc = {"ramdisk", "INIT_WORK"}]

lab1_workqueue_private ==
    [Deferring(lab_miscdev, "misc", "work") EXCEPT
        !.init = <<Take("my_workq"), Give("INIT_WORK")>> \o @,
        !.exit = <<Flush("work"), Put("my_workq")>> \o @,
        !.uses.misc = {"ramdisk", "INIT_WORK", "my_workq"}]

lab1_workqueue_newapi == lab1_workqueue_private

\* 20_LAB1_tasklets, 20_LAB1_wq, 11_LAB1: a misc device and no memory
mydev ==
    Driver(<<Get("misc", <<>>)>>, Free(<<"misc">>), [misc |-> {}], {})

mydev_tasklet == Deferring(mydev, "misc", "tasklet")

mydev_wq ==
    [Deferring(mydev, "misc", "work") EXCEPT
        !.init = @ \o <<Give("INIT_WORK")>>,
        !.uses.misc = {"INIT_WORK"}]

-----------------------------------------------------------------------------
(* Timers, chapter 11 *)

timers == Deferring(mydev, "misc", "timer")

\* timer_func arms itself again
PKtimers ==
    [timers EXCEPT !.starts = @ \union {<<"timer", "timer">>}]

lab1_timer ==
    [Deferring(lab_miscdev, "misc", "timer") EXCEPT
        !.exit = <<Stop("timer")>> \o @]

lab3_periodic_timer ==
    Driver(<<Start("timer")>>, <<Stop("timer")>>, [timer |-> {}],
           {<<"timer", "timer">>})

lab4_periodic_timers ==
    Driver(<<Need("data_a"), Need("data_b"), Start("timer_a"), Start("timer_b")>>,
           <<Stop("timer_a"), Stop("timer_b"), Put("data_a"), Put("data_b")>>,
           [timer_a |-> {"data_a"}, timer_b |-> {"data_b"}],
           {<<"timer_a", "timer_a">>, <<"timer_b", "timer_b">>})

lab4_periodic_timers_alt ==
    Driver(<<Need("data_array"), Start("timer_a"), Start("timer_b")>>,
           <<Drop("timer_a"), Drop("timer_b"), Put("data_array")>>,
           [timer_a |-> {"data_array"}, timer_b |-> {"data_array"}],
           {<<"timer_a", "timer_a">>, <<"timer_b", "timer_b">>})

\* hrtimer_cancel waits
lab5_hrtimer ==
    [lab4_periodic_timers_alt EXCEPT
        !.exit = <<Stop("timer_a"), Stop("timer_b"), Put("data_array")>>]

-----------------------------------------------------------------------------
(* Probes and debugfs, chapters 10 and 11 *)

kprobes == Driver(<<Get("kp", <<>>)>>, Free(<<"kp">>), [kp |-> {}], {})

lab1_kprobes == kprobes
jprobes == kprobes

lab2_jprobes == [kprobes EXCEPT !.init = <<Take("kp")>>]

lab3_probe_module ==
    Driver(<<Get("kp", <<>>), Take("jp")>>, Free(<<"jp", "kp">>),
           [kp |-> {}, jp |-> {}], {})

lab6_kprobes ==
    Driver(<<Get("kp_add_timer", <<>>),
             Get("kp_mod_timer", <<"kp_add_timer">>),
             Get("kp_del_timer", <<"kp_add_timer", "kp_mod_timer">>),
             Get("kp_del_timer_sync",
                 <<"kp_add_timer", "kp_mod_timer", "kp_del_timer">>)>>,
           Free(<<"kp_mod_timer", "kp_add_timer", "kp_del_timer",
                  "kp_del_timer_sync">>),
           [kp_add_timer |-> {}, kp_mod_timer |-> {}, kp_del_timer |-> {},
            kp_del_timer_sync |-> {}], {})

\* reading filen looks into parent
lab4_debugfs ==
    Driver(<<Take("var32"), Take("parent"), Take("filen")>>,
           Free(<<"filen", "parent", "var32">>),
           [var32 |-> {}, filen |-> {"parent"}], {})

-----------------------------------------------------------------------------
(* /proc, chapter 14 *)

lab2_proc == Driver(<<Get("proc", <<>>)>>, Free(<<"proc">>), [proc |-> {}], {})

lab5_seqfile == lab2_proc

\* 14_LAB5
seqfile == [lab2_proc EXCEPT !.init = <<Need("proc")>>]

lab3_proc_solA ==
    Driver(<<Get("dir", <<>>), Get("proc_1", <<"dir">>),
             Get("proc_2", <<"proc_1", "dir">>)>>,
           Free(<<"proc_1", "proc_2", "dir">>),
           [proc_1 |-> {}, proc_2 |-> {}], {})

lab3_proc_solB == lab3_proc_solA
lab4_proc_sig_solA == lab3_proc_solA
lab4_proc_sig_solB == lab3_proc_solA

proc_sig ==
    Driver(<<Get("proc_1", <<>>), Get("proc_2", <<>>)>>,
           Free(<<"proc_1", "proc_2">>), [proc_1 |-> {}, proc_2 |-> {}], {})

\* 14_LAB2: init returns no value, so whatever the caller finds decides
\* whether the module stays; exit removes another name than init made
procfs ==
    Driver(<<Get("proc", <<>>), Get("return value", <<>>)>>,
           Free(<<"return value">>), [proc |-> {}], {})

\* 14_LAB3: no value returned here either; once the directory is gone its
\* entry is not found
procfs_dir ==
    Driver(<<Need("dir"), Need("proc"), Get("return value", <<>>)>>,
           Free(<<"dir", "return value">>), [proc |-> {}], {})

-----------------------------------------------------------------------------
(* The others *)

\* s_07
lab1_list ==
    LET camels == <<"camel 1", "camel 2", "camel 3", "camel 4", "camel 5">>
    IN Driver([k \in DOMAIN camels |-> Get(camels[k], <<>>)], Free(camels),
              <<>>, {})

\* s_12: the lock of another module, held while this one is loaded
lab1_mutex2 == Driver(<<Get("my_mutex", <<>>)>>, Free(<<"my_mutex">>), <<>>, {})
lab1_mutex3 == lab1_mutex2
lab2_sem2 == Driver(<<Get("my_sem", <<>>)>>, Free(<<"my_sem">>), <<>>, {})
lab2_sem3 == lab2_sem2

lab1_firmware ==
    Driver(<<Take("device"), Get("fw", <<"device">>)>>,
           Free(<<"fw", "device">>), <<>>, {})

lab2_region == Driver(<<Get("ports", <<>>)>>, Free(<<"ports">>), <<>>, {})
lab2_resource == lab2_region

lab3_map ==
    Driver(<<Get("ports", <<>>), Need("mapped")>>, Free(<<"ports", "mapped">>),
           <<>>, {})

\* s_21: once the interrupt is there no failure takes it back
lab4_serial ==
    Driver(<<Get("irq", <<>>), Take("ports"), Get("region", <<>>),
             Get("my_cdev", <<"region">>), Take("cdev")>>,
           Free(<<"region", "ports", "irq">>),
           [irq |-> {}, cdev |-> {}], {})

\* the first cdev is added with device number 0, before a number is allocated
lab4_full_mouse_driver ==
    Driver(<<Get("irq", <<>>), Take("ports"),
             Get("my_cdev 0", <<"region">>), Take("cdev 0"),
             Get("region", <<>>), Get("my_cdev", <<"region">>),
             Get("cdev", <<"my_cdev", "region">>),
             Take("class"), Take("device")>>,
           Free(<<"device", "class", "region", "ports", "irq">>),
           [irq |-> {}, cdev |-> {}], {})

\* pci_get_device puts the device it goes on from, which the loop has put too
lab2_pci ==
    Driver(<<Give("pdev 1"), Put("pdev 1"),
             Give("pdev 2"), Put("pdev 1"), Put("pdev 2"), Put("pdev 2")>>,
           <<>>, <<>>, {})

\* three buffers, one after the other
lab1_dma ==
    Driver(<<Take("device"), Need("kbuf"), Put("kbuf"), Need("kbuf"),
             Put("kbuf"), Need("mypool"), Need("kbuf"), Put("kbuf"),
             Put("mypool"), Put("device")>>, <<>>, <<>>, {})

lab1_dma_PCI_API ==
    Driver(<<Need("kbuf"), Put("kbuf"), Need("kbuf"), Put("kbuf")>>, <<>>, <<>>,
           {})

lab1_network ==
    Driver(<<Need("dev"), Get("netdev", <<"dev">>)>>,
           Free(<<"netdev", "dev">>), [netdev |-> {"dev"}], {})

lab1_transmit == lab1_network
lab1_transmit_simple == lab1_network
lab2_receive == lab1_network

\* 24_LAB1
netdrv == [lab1_network EXCEPT !.init = <<Need("dev"), Get("netdev", <<>>)>>]

usbdev == Driver(<<Get("usb", <<>>)>>, Free(<<"usb">>), [usb |-> {}], {})
lab1_usb == usbdev

lab1_usb_notifier == [usbdev EXCEPT !.init = <<Give("usb")>>]

lab2_notifier ==
    Driver(<<Get("chain", <<>>)>>, Free(<<"chain">>), [chain |-> {}], {})

lab1_cpufreq ==
    Driver(<<Take("transition"), Take("policy")>>,
           Free(<<"transition", "policy">>),
           [transition |-> {}, policy |-> {}], {})

lab2_block ==
    Driver(<<Get("ramdisk", <<>>), Get("queue", <<"ramdisk">>),
             Get("blkdev", <<"ramdisk">>),
             Get("my_gd", <<"blkdev", "ramdisk">>), Give("disk")>>,
           Free(<<"disk", "my_gd", "blkdev", "queue", "ramdisk">>),
           [disk |-> {"ramdisk", "queue"}], {})
=============================================================================
