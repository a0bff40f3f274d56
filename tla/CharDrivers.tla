---------------------------- MODULE CharDrivers ----------------------------
(***************************************************************************)
(* How each character driver answers read, write, lseek, open and release, *)
(* as data that CharFile interprets.  Reading and writing do the same to   *)
(* the position and touch the same memory, so one record stands for both.  *)
(*                                                                         *)
(*   cut      how the count asked for is cut at the end of the device:     *)
(*            not at all ("none"), by refusing what would not fit          *)
(*            ("refuse"), with an int compared as unsigned ("clamp"), to   *)
(*            size - pos in unsigned arithmetic ("shrink"), or after a     *)
(*            look whether the position is in the device ("stop")          *)
(*   seek     the driver's "own" lseek, or the kernel's "default"          *)
(*   memory   "fixed" by init, one for "each" open, or one that every open *)
(*            replaces for all ("shared")                                  *)
(*   checked  whether open looks if it got its memory                      *)
(*   whole    whether a copy that stops half-way counts for nothing        *)
(*   moves    whether the file position is used and moved                  *)
(*   clears   whether an ioctl sets the whole device to zero               *)
(***************************************************************************)

\* a ramdisk copied to and from without a look at its size
lab1_char ==
    [cut |-> "none", seek |-> "default", memory |-> "fixed",
     checked |-> TRUE, whole |-> FALSE, moves |-> TRUE, clears |-> FALSE]

lab2_priv == [lab1_char EXCEPT !.memory = "each", !.checked = FALSE]

sample_driver == [lab1_char EXCEPT !.cut = "refuse"]
lab1_chrdrv == sample_driver

lab3_seek == [lab1_char EXCEPT !.cut = "clamp", !.seek = "own"]
lab4_dynamic == lab3_seek
lab5_dynamic_udev == lab3_seek
lab6_misc == lab3_seek

-----------------------------------------------------------------------------
(* Drivers with the read, write and lseek of the chapter's header *)

lab5_with_header == lab3_seek
lab6_misc_with_header == lab3_seek
lab3_chrdrv == lab3_seek
lab3_mmap == lab3_seek
lab1_aio == lab3_seek

\* with its read, or its read and write, and no lseek
lab2_interrupt == [lab3_seek EXCEPT !.seek = "default"]
lab3_module1 == lab2_interrupt
lab1_timer == lab2_interrupt
lab1_wait_event == lab2_interrupt
lab1_tasklet == lab2_interrupt

\* the header of chapter 17, and the driver that gives it the memory
lab_char == lab2_interrupt
lab1_cache == [lab_char EXCEPT !.memory = "shared"]

-----------------------------------------------------------------------------
(* globalmem *)

globalmem_mmap == [lab1_char EXCEPT !.cut = "shrink", !.clears = TRUE]
globalmem_cache == [globalmem_mmap EXCEPT !.memory = "shared"]
globalmem_pages == [lab1_char EXCEPT !.moves = FALSE]

globalmem ==
    [lab1_char EXCEPT !.cut = "stop", !.whole = TRUE, !.clears = TRUE]
globalmem_sem == globalmem
globalmem_wait == globalmem
globalmem_exwait == globalmem
globalmem_killable == globalmem
=============================================================================
