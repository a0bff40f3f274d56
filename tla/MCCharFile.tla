----------------------------- MODULE MCCharFile -----------------------------
(***************************************************************************)
(* One driver of each kind of CharDrivers, two processes and two open      *)
(* files.  The device and the int are small enough for positions to lie    *)
(* further past the end than an int can tell.                              *)
(***************************************************************************)
EXTENDS CharDrivers, CharFile, TLC

Kinds ==
    [lab1_char |-> lab1_char, lab2_priv |-> lab2_priv,
     sample_driver |-> sample_driver, lab3_seek |-> lab3_seek,
     lab2_interrupt |-> lab2_interrupt, lab1_cache |-> lab1_cache,
     globalmem_cache |-> globalmem_cache, globalmem_mmap |-> globalmem_mmap,
     globalmem_pages |-> globalmem_pages, globalmem |-> globalmem]

\* All the other drivers are like one of these.
ASSUME EveryDriverIsOfAKind ==
    {lab1_chrdrv, lab4_dynamic, lab5_dynamic_udev, lab6_misc, lab5_with_header,
     lab6_misc_with_header, lab3_chrdrv, lab3_mmap, lab1_aio, lab3_module1,
     lab1_timer, lab1_wait_event, lab1_tasklet, globalmem_sem,
     globalmem_wait, globalmem_exwait, globalmem_killable}
        \subseteq {Kinds[k] : k \in DOMAIN Kinds}

Interchangeable ==
    Permutations(Files) \cup Permutations(Procs) \cup Permutations(Objects)
=============================================================================
