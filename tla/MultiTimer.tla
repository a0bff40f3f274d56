----------------------------- MODULE MultiTimer -----------------------------
(***************************************************************************)
(* Chapter 11: a write() that starts a timer of its own, whose function    *)
(* frees it.                                                               *)
(*   own = FALSE  11_LAB2/MKtimer.c: the timers are on a list, and the     *)
(*                function frees the head of the list, without a lock;     *)
(*   own = TRUE   SOLUTIONS/s_11/lab2_multitimer.c: the function frees     *)
(*                what it was given, and ntimers keeps the unload back.    *)
(*                                                                         *)
(* All timers run for the same time, so they expire in the order in which  *)
(* jiffies was read.  Writers may be preempted anywhere, and two timer     *)
(* functions may run at a time, on two CPUs.  list_add_tail and list_del   *)
(* are taken as atomic: what goes wrong here does not need a torn list.    *)
(***************************************************************************)
EXTENDS Integers, Sequences, SequencesExt, FiniteSets

CONSTANTS
    Timers,     \* the allocations there may be
    Writers,    \* processes that write
    ListHead,   \* MKtimer.head, not an allocation; where no timer is meant, too
    Own,        \* the drivers under check, values of own
    Serial      \* those that do one thing at a time: a write, a load, a timer

ASSUME ConstantsAssumption ==
    /\ Own \subseteq BOOLEAN /\ Serial \subseteq BOOLEAN
    /\ IsFiniteSet(Timers)
    /\ ListHead \notin Timers

VARIABLES
    own,        \* which driver is loaded
    module,     \* the module's life
    ntimers,    \* own: timers not yet finished
    list,       \* MKtimer.head
    heap,       \* what each allocation, or the head, stands for
    due,        \* timers in the order in which they expire
    armed,      \* timers in the wheel
    writer,     \* where each write stands, and with which timer
    func,       \* where each timer's function stands
    victim      \* what the function is going to free

vars == <<own, module, ntimers, list, heap, due, armed, writer, func, victim>>

TypeOK ==
    /\ own \in Own
    /\ module \in {"out", "registered", "in", "freed", "failed", "oops"}
    /\ ntimers \in 0 .. Cardinality(Timers)
    /\ list \in Seq(Timers) /\ due \in Seq(Timers)
    /\ heap \in [Timers \cup {ListHead} ->
                    {"unused", "live", "freed", "static", "corrupt"}]
    /\ armed \subseteq Timers
    /\ writer \in [Writers ->
                      {"idle", "add", "arm"} \X (Timers \cup {ListHead})]
    /\ func \in [Timers -> {"no", "take", "free", "dec", "print"}]
    /\ victim \in [Timers -> Timers \cup {ListHead}]

Init ==
    /\ own \in Own
    /\ module = "out"
    /\ ntimers = 0
    /\ list = <<>> /\ due = <<>> /\ armed = {}
    /\ heap = [n \in Timers \cup {ListHead} |->
                 IF n = ListHead THEN "static" ELSE "unused"]
    /\ writer = [w \in Writers |-> <<"idle", ListHead>>]
    /\ func = [t \in Timers |-> "no"]
    /\ victim = [t \in Timers |-> ListHead]

Idle(w) == writer[w][1] = "idle"
Running == {t \in Timers : func[t] # "no"}
TextPresent == module \notin {"freed", "failed", "oops"}

\* Something new may begin.
MayBegin ==
    own \notin Serial \/ /\ \A w \in Writers : Idle(w)
                         /\ Running = {} /\ module # "registered"

-----------------------------------------------------------------------------
(* Mutated forms of the actions below, only ever used to test properties. *)

\* the unload does not wait
ExitAtOnce ==
    /\ module = "in"
    /\ \A w \in Writers : Idle(w)
    /\ MayBegin
    /\ module' = "freed"
    /\ UNCHANGED <<own, ntimers, list, heap, due, armed, writer, func, victim>>

\* the function frees the timer most recently started
TakeTail(t) ==
    /\ TextPresent
    /\ func[t] = "take"
    /\ victim' = [victim EXCEPT ![t] = Last(due)]
    /\ func' = [func EXCEPT ![t] = "free"]
    /\ UNCHANGED <<own, module, ntimers, list, heap, due, armed, writer>>

\* a write that does not count its timer
CountForgotten(w, t) ==
    /\ module \in {"registered", "in"}
    /\ Idle(w)
    /\ MayBegin
    /\ heap[t] = "unused"
    /\ heap' = [heap EXCEPT ![t] = "live"]
    /\ due' = Append(due, t)
    /\ writer' = [writer EXCEPT ![w] = <<IF own THEN "arm" ELSE "add", t>>]
    /\ UNCHANGED <<own, module, ntimers, list, armed, func, victim>>

\* the timer set up and not started
ArmForgotten(w) ==
    /\ writer[w][1] = "arm"
    /\ writer' = [writer EXCEPT ![w] = <<"idle", ListHead>>]
    /\ UNCHANGED <<own, module, ntimers, list, heap, due, armed, func, victim>>

-----------------------------------------------------------------------------
(* Load and unload *)

\* MKtimer publishes the device before it initialises the list.
Register ==
    /\ module = "out"
    /\ module' \in {"failed", IF own THEN "in" ELSE "registered"}
    /\ UNCHANGED <<own, ntimers, list, heap, due, armed, writer, func, victim>>

InitList ==
    /\ module = "registered"
    /\ module' = "in"
    /\ list' = <<>>
    /\ UNCHANGED <<own, ntimers, heap, due, armed, writer, func, victim>>

\* An open file holds the module, so no write is in flight.
Exit ==
    /\ module = "in"
    /\ \A w \in Writers : Idle(w)
    /\ MayBegin
    /\ own => ntimers = 0
    /\ module' = "freed"
    /\ UNCHANGED <<own, ntimers, list, heap, due, armed, writer, func, victim>>

\* A timer that expires, or a function that runs, when its text is gone
FreedTextRuns ==
    /\ module = "freed"
    /\ armed # {} \/ Running # {}
    /\ module' = "oops"
    /\ UNCHANGED <<own, ntimers, list, heap, due, armed, writer, func, victim>>

-----------------------------------------------------------------------------
(* mycdrv_write, MKtimer_write *)

\* allocates, and reads jiffies
WriteCall(w, t) ==
    /\ module \in {"registered", "in"}
    /\ Idle(w)
    /\ MayBegin
    /\ heap[t] = "unused"
    /\ heap' = [heap EXCEPT ![t] = "live"]
    /\ due' = Append(due, t)
    /\ ntimers' = ntimers + (IF own THEN 1 ELSE 0)
    /\ writer' = [writer EXCEPT ![w] = <<IF own THEN "arm" ELSE "add", t>>]
    /\ UNCHANGED <<own, module, list, armed, func, victim>>

\* list_add_tail, on a head that may still be zeroes
WriteAdd(w) ==
    /\ TextPresent
    /\ writer[w][1] = "add"
    /\ IF module = "registered"
         THEN module' = "oops" /\ UNCHANGED list
         ELSE list' = Append(list, writer[w][2]) /\ UNCHANGED module
    /\ writer' = [writer EXCEPT ![w] = <<"arm", writer[w][2]>>]
    /\ UNCHANGED <<own, ntimers, heap, due, armed, func, victim>>

\* add_timer
WriteArm(w) ==
    /\ TextPresent
    /\ writer[w][1] = "arm"
    /\ armed' = armed \cup {writer[w][2]}
    /\ writer' = [writer EXCEPT ![w] = <<"idle", ListHead>>]
    /\ UNCHANGED <<own, module, ntimers, list, heap, due, func, victim>>

-----------------------------------------------------------------------------
(* my_timer_function, timer_func *)

\* __run_timers: those that expire first run first
Expire(t) ==
    /\ TextPresent
    /\ t \in armed
    /\ \A i, j \in DOMAIN due : due[i] \in armed /\ due[j] = t => j <= i
    /\ MayBegin
    /\ armed' = armed \ {t}
    /\ func' = [func EXCEPT ![t] = "take"]
    /\ UNCHANGED <<own, module, ntimers, list, heap, due, writer, victim>>

\* container_of(MKtimer.head.next), of an empty list the head itself; or the
\* argument of the function
FuncTake(t) ==
    /\ TextPresent
    /\ func[t] = "take"
    /\ victim' = [victim EXCEPT ![t] =
                    IF own THEN t
                    ELSE IF list = <<>> THEN ListHead ELSE list[1]]
    /\ func' = [func EXCEPT ![t] = "free"]
    /\ UNCHANGED <<own, module, ntimers, list, heap, due, armed, writer>>

kfree(n) ==
    [heap EXCEPT ![n] = IF heap[n] = "live" THEN "freed" ELSE "corrupt"]

\* list_del of the first on the list, which need not be the one that was taken,
\* and spoils the head when there is none; and kfree of the one taken
FuncFree(t) ==
    /\ TextPresent
    /\ func[t] = "free"
    /\ heap' = IF own \/ list # <<>> THEN kfree(victim[t])
               ELSE [kfree(victim[t]) EXCEPT ![ListHead] = "corrupt"]
    /\ list' = IF own \/ list = <<>> THEN list ELSE Tail(list)
    /\ func' = [func EXCEPT ![t] = IF own THEN "dec" ELSE "no"]
    /\ UNCHANGED <<own, module, ntimers, due, armed, writer, victim>>

FuncDec(t) ==
    /\ TextPresent
    /\ func[t] = "dec"
    /\ ntimers' = ntimers - 1
    /\ func' = [func EXCEPT ![t] = "print"]
    /\ UNCHANGED <<own, module, list, heap, due, armed, writer, victim>>

\* the message after the count, l. 60
FuncReturn(t) ==
    /\ TextPresent
    /\ func[t] = "print"
    /\ func' = [func EXCEPT ![t] = "no"]
    /\ UNCHANGED <<own, module, ntimers, list, heap, due, armed, writer, victim>>

-----------------------------------------------------------------------------

Write(w) == WriteAdd(w) \/ WriteArm(w)
Func(t) == FuncTake(t) \/ FuncFree(t) \/ FuncDec(t) \/ FuncReturn(t)
Next ==
    \/ Register \/ InitList \/ Exit \/ FreedTextRuns
    \/ \E w \in Writers : Write(w) \/ \E t \in Timers : WriteCall(w, t)
    \/ \E t \in Timers : Expire(t) \/ Func(t)

\* A system call that was entered goes on, a timer expires, a timer function
\* runs to its end.  Nobody has to write, to load or to unload.
Fairness ==
    /\ \A w \in Writers : WF_vars(Write(w))
    /\ \A t \in Timers : WF_vars(Expire(t)) /\ WF_vars(Func(t))

Spec == Init /\ [][Next]_vars /\ Fairness

-----------------------------------------------------------------------------
(* Properties *)

\* No timer is freed twice, and none while it is on the list, in the wheel or
\* still being set up: "Fix the solution so multiple timers work properly"
\* (lab2_multitimer.c:28).  MKtimer.c frees the head of the list for whatever
\* timer expired, which is that timer only while the list is in the order of
\* expiry and one function runs at a time.
NoUseAfterFree ==
    /\ \A n \in Timers \cup {ListHead} : heap[n] # "corrupt"
    /\ \A t \in Timers :
          heap[t] = "freed" => /\ t \notin armed
                               /\ \A i \in DOMAIN list : list[i] # t
                               /\ \A w \in Writers : writer[w][2] # t

\* ntimers "is here to avoid unloading while there are still timers to unload"
\* (lab2_multitimer.c:41): every timer has been freed by then, and no write
\* that has counted itself is overtaken by the loop of my_exit.  Only the last
\* line of a function, after its count, may still be running.
UnloadWaits ==
    own /\ module = "freed" =>
        /\ armed = {}
        /\ \A t \in Timers : heap[t] # "live" /\ func[t] \in {"no", "print"}

\* Every timer started is freed, by its own function or another's, unless the
\* module is gone first.
EveryTimerFreed ==
    \A t \in Timers :
        heap[t] = "live" ~> heap[t] # "live" \/ module \in {"freed", "oops"}
=============================================================================
