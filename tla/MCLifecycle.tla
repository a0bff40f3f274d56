---------------------------- MODULE MCLifecycle ----------------------------
(***************************************************************************)
(* All the drivers of the catalogue, and what is known of them: each list  *)
(* below names exactly the drivers, and where it names them the resources, *)
(* that TLC finds to break the property.                                   *)
(*                                                                         *)
(* The outlines are computed from the records, from the first step to the  *)
(* last; that they are sound and enough is what OutlineAssumption says.    *)
(***************************************************************************)
EXTENDS Integers, FiniteSets, Drivers, Outlines

AllDrivers ==
    [sample_driver |-> sample_driver, lab1_chrdrv |-> lab1_chrdrv,
     lab1_char |-> lab1_char,
     lab3_seek |-> lab3_seek, lab4_dynamic |-> lab4_dynamic,
     lab2_priv |-> lab2_priv, lab5_dynamic_udev |-> lab5_dynamic_udev,
     lab_char |-> lab_char, lab6_misc |-> lab6_misc,
     lab_miscdev |-> lab_miscdev, lab3_module1 |-> lab3_module1,
     lab3_chrdrv |-> lab3_chrdrv, lab1_ioctl_data |-> lab1_ioctl_data,
     lab3_mmap |-> lab3_mmap, lab1_complete |-> lab1_complete,
     lab1_aio |-> lab1_aio, lab1_cache |-> lab1_cache,
     globalmem_cache |-> globalmem_cache, globalmem_pages |-> globalmem_pages,
     globalmem_mmap |-> globalmem_mmap, globalmem |-> globalmem,
     globalmem_sem |-> globalmem_sem, globalmem_wait |-> globalmem_wait,
     globalmem_exwait |-> globalmem_exwait,
     globalmem_killable |-> globalmem_killable, lab4_relay |-> lab4_relay,
     Nirq |-> Nirq, lab1_interrupt |-> lab1_interrupt,
     lab3_unlock |-> lab3_unlock, Nirq_threaded |-> Nirq_threaded,
     lab_one_interrupt |-> lab_one_interrupt,
     lab2_interrupt |-> lab2_interrupt,
     Nirq_tasklet_smart |-> Nirq_tasklet_smart,
     Nirq_tasklet_dynamic |-> Nirq_tasklet_dynamic,
     lab2_one_tasklet |-> lab2_one_tasklet,
     lab3_one_tasklet_improved |-> lab3_one_tasklet_improved,
     lab3_one_tasklet_dynamic |-> lab3_one_tasklet_dynamic,
     lab3_one_workqueue_dynamic |-> lab3_one_workqueue_dynamic,
     lab2_one_workqueue |-> lab2_one_workqueue,
     Nirq_kthread_smart |-> Nirq_kthread_smart,
     lab2_one_thread |-> lab2_one_thread,
     lab3_one_thread_improved |-> lab3_one_thread_improved,
     lab_all_interrupt |-> lab_all_interrupt,
     lab4_all_tasklet |-> lab4_all_tasklet,
     lab5_all_tasklet_dynamic |-> lab5_all_tasklet_dynamic,
     lab5_all_workqueue_dynamic |-> lab5_all_workqueue_dynamic,
     lab4_all_workqueue |-> lab4_all_workqueue,
     lab4_all_thread |-> lab4_all_thread,
     lab6_all_threaded |-> lab6_all_threaded, lab7_uio |-> lab7_uio,
     lab8_uio_api |-> lab8_uio_api, lab1_tasklet |-> lab1_tasklet,
     lab1_workqueue_shared |-> lab1_workqueue_shared,
     lab1_workqueue_private |-> lab1_workqueue_private,
     lab1_workqueue_newapi |-> lab1_workqueue_newapi,
     mydev_tasklet |-> mydev_tasklet, mydev_wq |-> mydev_wq,
     timers |-> timers, PKtimers |-> PKtimers, lab1_timer |-> lab1_timer,
     lab3_periodic_timer |-> lab3_periodic_timer,
     lab4_periodic_timers |-> lab4_periodic_timers,
     lab4_periodic_timers_alt |-> lab4_periodic_timers_alt,
     lab5_hrtimer |-> lab5_hrtimer, kprobes |-> kprobes,
     lab1_kprobes |-> lab1_kprobes, jprobes |-> jprobes,
     lab2_jprobes |-> lab2_jprobes, lab3_probe_module |-> lab3_probe_module,
     lab6_kprobes |-> lab6_kprobes, lab4_debugfs |-> lab4_debugfs,
     lab2_proc |-> lab2_proc, lab5_seqfile |-> lab5_seqfile,
     seqfile |-> seqfile, lab3_proc_solA |-> lab3_proc_solA,
     lab3_proc_solB |-> lab3_proc_solB,
     lab4_proc_sig_solA |-> lab4_proc_sig_solA,
     lab4_proc_sig_solB |-> lab4_proc_sig_solB, proc_sig |-> proc_sig,
     procfs |-> procfs, procfs_dir |-> procfs_dir, lab1_list |-> lab1_list,
     lab1_mutex2 |-> lab1_mutex2, lab1_mutex3 |-> lab1_mutex3,
     lab2_sem2 |-> lab2_sem2, lab2_sem3 |-> lab2_sem3,
     lab2_pci |-> lab2_pci,
     lab1_firmware |-> lab1_firmware, lab2_region |-> lab2_region,
     lab2_resource |-> lab2_resource, lab3_map |-> lab3_map,
     lab4_serial |-> lab4_serial,
     lab4_full_mouse_driver |-> lab4_full_mouse_driver, lab1_dma |-> lab1_dma,
     lab1_dma_PCI_API |-> lab1_dma_PCI_API, lab1_network |-> lab1_network,
     lab1_transmit |-> lab1_transmit,
     lab1_transmit_simple |-> lab1_transmit_simple,
     lab2_receive |-> lab2_receive, netdrv |-> netdrv, usbdev |-> usbdev,
     lab1_usb |-> lab1_usb, lab1_usb_notifier |-> lab1_usb_notifier,
     lab2_notifier |-> lab2_notifier, lab1_cpufreq |-> lab1_cpufreq,
     lab2_block |-> lab2_block]

OpenFiles == {"cdev", "misc", "filen", "disk"}
DebugfsNumbers == {"var32"}
Works == {"INIT_WORK"}

\* kfree and free_pages take a null pointer, cdev_del a cdev never added;
\* the exit functions look before they free the others
NullIsFreed ==
    {"ramdisk", "nevents", "cdev", "irq", "filen", "parent", "var32"}

-----------------------------------------------------------------------------

\* Not stopped: tasklets and works
Unstopped ==
    {"Nirq_tasklet_smart", "Nirq_tasklet_dynamic", "lab1_tasklet",
     "lab2_one_tasklet", "lab3_one_tasklet_improved",
     "lab3_one_tasklet_dynamic", "lab4_all_tasklet",
     "lab5_all_tasklet_dynamic", "mydev_tasklet", "mydev_wq",
     "lab1_workqueue_shared", "lab2_one_workqueue",
     "lab3_one_workqueue_dynamic", "lab4_all_workqueue",
     "lab5_all_workqueue_dynamic"}

\* timers, of which _alt stops waiting too early
Ticking == {"timers", "PKtimers", "lab4_periodic_timers_alt"}

\* a thread, an interrupt or a proc entry is there before the init fails
NotTakenBack ==
    {"Nirq_kthread_smart", "lab2_one_thread", "lab3_one_thread_improved",
     "lab4_all_thread", "lab7_uio", "proc_sig", "lab4_serial",
     "lab4_full_mouse_driver", "procfs", "procfs_dir"}

\* a file of debugfs, open, does not hold the module
StillOpen == {"lab4_debugfs"}

LeaveCode == Unstopped \cup Ticking \cup NotTakenBack \cup StillOpen

\* deferred functions that outlive the memory; a file before its work
UseTooMuch ==
    {"lab4_all_tasklet", "lab4_all_workqueue", "lab5_all_tasklet_dynamic",
     "lab5_all_workqueue_dynamic", "lab4_periodic_timers_alt", "mydev_wq"}

Leftovers ==
    [globalmem_cache |-> {"cache"},
     lab1_list |-> {"camel 1", "camel 2", "camel 3", "camel 4"},
     lab1_workqueue_private |-> {"my_workq"},
     lab1_workqueue_newapi |-> {"my_workq"},
     lab2_block |-> {"queue"},
     lab_all_interrupt |-> {"ramdisk"}, lab4_all_tasklet |-> {"ramdisk"},
     lab5_all_tasklet_dynamic |-> {"ramdisk"},
     lab5_all_workqueue_dynamic |-> {"ramdisk"},
     lab4_all_workqueue |-> {"ramdisk"},
     Nirq_kthread_smart |-> {"thread"}, lab2_one_thread |-> {"thread"},
     lab3_one_thread_improved |-> {"thread"},
     lab4_all_thread |-> {"ramdisk", "thread"},
     lab6_all_threaded |-> {"ramdisk"}, lab6_misc |-> {"ramdisk"},
     lab7_uio |-> {"irq"}, netdrv |-> {"dev"},
     lab4_serial |-> {"irq", "ports", "my_cdev", "cdev"},
     lab4_full_mouse_driver |->
        {"irq", "ports", "my_cdev 0", "cdev 0", "my_cdev", "cdev"},
     proc_sig |-> {"proc_1"}, procfs |-> {"proc"},
     procfs_dir |-> {"dir", "proc"}]

\* device_register and friends not looked at, then undone; ports that were
\* busy, and a device number that was never asked for; a device put twice;
\* a thread that kthread_run refused with what is not a null pointer
GiveUntaken ==
    [sample_driver |-> {"region"}, lab1_chrdrv |-> {"region"},
     lab1_cache |-> {"class", "device"}, lab_char |-> {"class", "device"},
     lab5_dynamic_udev |-> {"class", "device"},
     lab8_uio_api |-> {"device"}, lab1_firmware |-> {"device"},
     lab1_dma |-> {"device"}, lab2_pci |-> {"pdev 1", "pdev 2"},
     lab1_cpufreq |-> {"policy", "transition"},
     lab1_workqueue_private |-> {"my_workq"},
     lab1_workqueue_newapi |-> {"my_workq"},
     lab2_jprobes |-> {"kp"}, lab3_probe_module |-> {"jp"},
     lab4_serial |-> {"ports"},
     lab4_full_mouse_driver |-> {"ports", "region", "class", "device"},
     Nirq_kthread_smart |-> {"thread"}, lab2_one_thread |-> {"thread"},
     lab3_one_thread_improved |-> {"thread"},
     lab4_all_thread |-> {"thread"}]

-----------------------------------------------------------------------------
(* The outlines *)

InAll(sets) == {r \in UNION sets : \A s \in sets : r \in s}

\* What is known where several ways meet
Meet(as) ==
    Facts(InAll({a.sure : a \in as}), InAll({a.asked : a \in as}),
          UNION {a.most : a \in as}, UNION {a.live : a \in as})

\* With all that may be called, and all that starts
Stabilised(d, phase_, a) ==
    LET n == Cardinality(DOMAIN d.uses)
        called == {e \in Called(d) \cap a.most : phase_ = "exit" => e \notin Files}
        grown[i \in 0 .. n] ==
            IF i = 0 THEN a.live \cup called
            ELSE LET f == grown[i - 1]
                 IN  f \cup {s[2] : s \in {t \in d.starts : t[1] \in f}}
    IN  [a EXCEPT !.live = grown[n]]

\* The places of a list of steps, each with what is known there
Along(d, phase_, steps, a) ==
    LET at[i \in 1 .. Len(steps) + 1] ==
            Stabilised(d, phase_,
                IF i = 1 THEN a ELSE Meet(After(d, at[i - 1], steps[i - 1])))
    IN  {<<<<phase_, SubSeq(steps, i, Len(steps))>>, at[i]>> : i \in DOMAIN at}

Ends(points) == {p[2] : p \in {q \in points : q[1][2] = <<>>}}
Fails(points) ==
    {p \in points : p[1][2] # <<>> /\ Head(p[1][2]).do = "get"}

OutlineOf(d) ==
    LET init == Along(d, "init", d.init, Facts({}, {}, {}, {}))
        in == Along(d, "in", <<>>, Meet(Ends(init)))
        back == UNION {Along(d, "back", Head(p[1][2]).undo, p[2]) :
                            p \in Fails(init)}
        exit == Along(d, "exit", d.exit, Closing(d, Meet(Ends(in))))
        end == Meet(Ends(back \cup exit))
        out == Along(d, "out", <<>>,
                     Facts({}, {}, end.most \ Initialised, end.live))
        points == init \cup in \cup back \cup exit \cup out
    IN  [place \in {p[1] : p \in points} |->
            Meet({p[2] : p \in {q \in points : q[1] = place}})]

AllOutlines == [n \in DOMAIN Catalogue |-> OutlineOf(Catalogue[n])]
=============================================================================
