----------------------------- MODULE Lifecycle -----------------------------
(***************************************************************************)
(* Loading and unloading a driver, one resource at a time, while the       *)
(* kernel calls whatever the driver has registered and runs whatever it    *)
(* has deferred.  Anything the driver asks for may be refused.  A driver   *)
(* is a record of the catalogue (see Drivers); the actions interpret it.   *)
(*                                                                         *)
(* The kernel as the drivers rely on it: an open file keeps its module     *)
(* loaded, and free_irq, unregister_kprobe, remove_proc_entry and the like *)
(* return when no call is under way any more.  misc_deregister, cdev_del   *)
(* and debugfs_remove do not wait.                                         *)
(***************************************************************************)
EXTENDS Sequences

CONSTANTS
    Catalogue,      \* the drivers: a function from names to records
    Files,          \* registrations by which processes hold the module
    Unpinned,       \* registrations by which they enter without holding it
    Initialised,    \* what is set up in the driver's own data: nothing to free
    FreeUntaken,    \* what is checked before, or is no harm, to give back
    LeavesCode,     \* drivers whose functions may be called after the unload
    UsesTooMuch,    \* drivers that use what is freed, or not yet made
    Leaks,          \* what each driver may leave behind
    GivesUntaken    \* what each driver may give back that it did not get

ASSUME CatalogueAssumption ==
    /\ \A n \in DOMAIN Catalogue :
          Catalogue[n].starts \subseteq
              (DOMAIN Catalogue[n].uses) \X (DOMAIN Catalogue[n].uses)
    /\ LeavesCode \cup UsesTooMuch \cup DOMAIN GivesUntaken \cup DOMAIN Leaks
          \subseteq DOMAIN Catalogue

VARIABLES
    driver,     \* the driver being loaded and unloaded
    phase,      \* "out", in "init", going "back" from it, "in", in "exit";
                \* "oops" after a use of a null pointer
    todo,       \* steps that the init or exit function has left
    held,       \* resources taken
    denied,     \* resources refused without anybody looking
    inside,     \* entry points entered and deferred functions running
    pending,    \* deferred functions queued
    left        \* resources still held when the driver was gone

resources == <<held, denied, left>>
kernel == <<inside, pending>>
vars == <<driver, phase, todo, resources, kernel>>

me == Catalogue[driver]

\* the deferred functions of driver d, and those the kernel calls
Deferred(d) ==
    {s[2] : s \in d.starts} \cup
    {d.init[i].what :
        i \in {j \in DOMAIN d.init : d.init[j].do \in {"start", "run"}}}
Called(d) == DOMAIN d.uses \ Deferred(d)

Activities == Deferred(me)
Entries == Called(me)

\* Functions that processes are in when no one waits for them to leave.
Waits(r) == r \notin Files \cup Unpinned

-----------------------------------------------------------------------------

TypeOK ==
    /\ driver \in DOMAIN Catalogue
    /\ phase \in {"out", "init", "back", "in", "exit", "oops"}
    /\ \A i \in DOMAIN todo :
          todo[i].do \in {"get", "take", "need", "use", "give", "put",
                          "start", "stop", "flush", "drop", "run", "join"}
    /\ held \cap denied = {}
    /\ inside \subseteq DOMAIN me.uses
    /\ pending \subseteq Activities
    /\ phase \in {"in", "out"} => todo = <<>>

Init ==
    /\ driver \in DOMAIN Catalogue
    /\ phase = "out" /\ todo = <<>>
    /\ held = {} /\ denied = {} /\ left = {}
    /\ inside = {} /\ pending = {}

\* The next step of the init or exit function does one of acts, with r.
Does(acts, r) ==
    /\ todo # <<>>
    /\ Head(todo).do \in acts
    /\ r = Head(todo).what
    /\ UNCHANGED driver

Goes == todo' = Tail(todo) /\ UNCHANGED phase

-----------------------------------------------------------------------------
(* Mutated forms, only ever used to test properties. *)

\* no .owner in the file_operations: an open file does not hold the module
UnloadWhileOpen ==
    /\ phase = "in"
    /\ phase' = "exit" /\ todo' = me.exit
    /\ UNCHANGED <<driver, resources, kernel>>

\* goto a label too late: the first of what is to be undone is not
LabelTooLate == IF Head(todo).undo = <<>> THEN <<>> ELSE Tail(Head(todo).undo)

\* goto a label too early: what was refused is given back as well
LabelTooEarly ==
    <<[do |-> "put", what |-> Head(todo).what]>> \o Head(todo).undo

\* del_timer in place of del_timer_sync: what is running is not waited for
StoppedUnwaited(a) ==
    /\ Does({"drop", "stop", "flush"}, a)
    /\ Goes
    /\ pending' = pending \ {a}
    /\ UNCHANGED <<resources, inside>>

-----------------------------------------------------------------------------
(* The module's init and exit functions *)

\* sys_init_module; a machine with leftovers in it is not used again
Load ==
    /\ phase = "out" /\ left \cup inside \cup pending = {}
    /\ phase' = "init" /\ todo' = me.init
    /\ UNCHANGED <<driver, resources, kernel>>

\* sys_delete_module
Unload ==
    /\ phase = "in" /\ inside \cap Files = {}
    /\ phase' = "exit" /\ todo' = me.exit
    /\ UNCHANGED <<driver, resources, kernel>>

\* where the init function goes when the next request is refused
Label == Head(todo).undo

Granted(r) ==
    /\ Does({"get", "take", "need", "give"}, r)
    /\ Goes
    /\ held' = held \cup {r}
    /\ UNCHANGED <<denied, left, kernel>>

Refused(r) ==
    /\ \/ Does({"get"}, r) /\ phase' = "back" /\ todo' = Label
          /\ UNCHANGED denied
       \/ Does({"take", "run"}, r) /\ Goes /\ denied' = denied \cup {r}
       \/ Does({"need"}, r) /\ phase' = "oops" /\ UNCHANGED <<todo, denied>>
    /\ UNCHANGED <<held, left, kernel>>

Used(r) ==
    /\ Does({"use"}, r)
    /\ IF r \in denied THEN phase' = "oops" /\ UNCHANGED todo ELSE Goes
    /\ UNCHANGED <<resources, kernel>>

\* Unlinked and waited for in one: nobody enters in between.
GivenBack(r) ==
    /\ Does({"put"}, r)
    /\ r \in inside => ~Waits(r)
    /\ Goes
    /\ held' = held \ {r}
    /\ UNCHANGED <<denied, left, kernel>>

\* A thread is requested, and is there until it is waited for; a timer, which
\* the driver has in its own data, cannot be refused.
Started(a) ==
    /\ \/ Does({"start"}, a) /\ UNCHANGED held
       \/ Does({"run"}, a) /\ held' = held \cup {a}
    /\ Goes
    /\ pending' = pending \cup {a}
    /\ UNCHANGED <<denied, left, inside>>

Stopped(a) ==
    /\ \/ Does({"drop"}, a)
       \/ Does({"stop"}, a) /\ a \notin inside
       \/ Does({"flush"}, a) /\ a \notin inside \cup pending
    /\ Goes
    /\ pending' = pending \ {a}
    /\ UNCHANGED <<resources, inside>>

\* kthread_stop, which follows the error code of a refused thread as a pointer
Joined(a) ==
    /\ Does({"join"}, a)
    /\ \/ a \in denied /\ phase' = "oops" /\ UNCHANGED <<todo, held, pending>>
       \/ a \notin denied \cup inside /\ Goes
          /\ held' = held \ {a} /\ pending' = pending \ {a}
    /\ UNCHANGED <<denied, left, inside>>

\* The init function returns 0, or an error, or the exit function returns.
Return ==
    /\ phase \in {"init", "back", "exit"} /\ todo = <<>>
    /\ \/ phase = "init" /\ phase' = "in" /\ UNCHANGED resources
       \/ phase \in {"back", "exit"} /\ phase' = "out"
          /\ left' = held \ Initialised /\ held' = {} /\ denied' = {}
    /\ UNCHANGED <<driver, todo, kernel>>

-----------------------------------------------------------------------------
(* The kernel *)

\* A module on its way out is not opened any more: try_module_get fails.
Enter(e) ==
    /\ e \in Entries \cap (held \cup left)
    /\ e \notin inside
    /\ phase = "exit" => e \notin Files
    /\ phase' = IF me.uses[e] \cap denied = {} THEN phase ELSE "oops"
    /\ inside' = inside \cup {e}
    /\ UNCHANGED <<driver, todo, resources, pending>>

Defer(e, a) ==
    /\ e \in inside /\ <<e, a>> \in me.starts
    /\ pending' = pending \cup {a}
    /\ UNCHANGED <<driver, phase, todo, resources, inside>>

Run(a) ==
    /\ a \in pending \ inside
    /\ pending' = pending \ {a}
    /\ inside' = inside \cup {a}
    /\ UNCHANGED <<driver, phase, todo, resources>>

Leave(f) ==
    /\ f \in inside
    /\ inside' = inside \ {f}
    /\ UNCHANGED <<driver, phase, todo, resources, pending>>

ModuleStep ==
    \/ \E r \in {Head(todo).what : i \in DOMAIN todo} :
          \/ Granted(r) \/ Refused(r) \/ Used(r) \/ GivenBack(r)
          \/ Started(r) \/ Stopped(r) \/ Joined(r)
    \/ Return

Next ==
    /\ phase # "oops"
    /\ \/ Load \/ Unload \/ ModuleStep
       \/ \E f \in DOMAIN me.uses :
             \/ Enter(f) \/ Run(f) \/ Leave(f)
             \/ \E a \in Activities : Defer(f, a)

Spec == Init /\ [][Next]_vars

-----------------------------------------------------------------------------
(* Properties *)

(* When a driver is out, none of its functions is running, queued, or still *)
(* registered with the kernel, whatever the load failed on and whatever was *)
(* under way when it was unloaded.  That rests on the order of the exit     *)
(* function and on what every error path of init undoes.                    *)
NoFreedTextRuns ==
    phase = "out" /\ driver \notin LeavesCode =>
        inside \cup pending \cup (left \cap Entries) = {}

(* No function runs that uses memory, or a work, that is not there yet or   *)
(* not any more, from the first registration in init to the last in exit.   *)
UsesWhatIsThere ==
    phase # "out" /\ driver \notin UsesTooMuch =>
        \A f \in inside : me.uses[f] \subseteq held \cup denied

(* After a failed load or an unload nothing is left but what the driver is  *)
(* known to leave.                                                          *)
NothingElseLeft ==
    left \subseteq (IF driver \in DOMAIN Leaks THEN Leaks[driver] ELSE {})

\* What driver n may give back that is not held
Excused(n) == IF n \in DOMAIN GivesUntaken THEN GivesUntaken[n] ELSE {}

(* What is given back is held: no second release on an error path, and no   *)
(* release of what was refused, which may belong to another driver or, for  *)
(* a thread, be an error code taken for a pointer.  A driver that breaks it *)
(* for one resource must keep to it for its others.                         *)
GivesBackItsOwn ==
    todo # <<>> /\ Head(todo).do \in {"put", "join"} =>
        Head(todo).what \in
            held \cup (denied \cap FreeUntaken) \cup Excused(driver)
=============================================================================
