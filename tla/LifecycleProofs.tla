-------------------------- MODULE LifecycleProofs --------------------------
(***************************************************************************)
(* A driver whose outline is sound is, at every place, as its outline      *)
(* says, however its steps, the kernel's calls and the deferred functions  *)
(* interleave, and whatever is refused; so an outline that is enough gives *)
(* the four properties of Lifecycle, for any catalogue.                    *)
(***************************************************************************)
EXTENDS Outlines, TLAPS

outline == Outline[driver]
place == <<phase, todo>>
known == outline[place]

\* What a says holds now.
Holds(a) ==
    /\ a.sure \subseteq held /\ a.asked \subseteq held \cup denied
    /\ held \subseteq a.most
    /\ inside \cup pending \subseteq a.live

Shapes ==
    /\ driver \in DOMAIN Catalogue
    /\ phase \in {"out", "init", "back", "in", "exit", "oops"}
    /\ phase \in {"in", "out"} => todo = <<>>
    /\ inside \subseteq DOMAIN me.uses
    /\ pending \subseteq Activities

\* The driver is at a place of its outline, and what is known there holds.
Outlined ==
    /\ phase # "oops" => place \in DOMAIN outline
    /\ phase \notin {"out", "oops"} => left = {} /\ Holds(known)
    /\ phase = "out" => /\ held = {} /\ denied = {}
                        /\ left \subseteq known.most
                        /\ inside \cup pending \subseteq known.live

\* What was so before an oops is so after it.
Oopsed == phase = "oops" =>
    UsesWhatIsThere /\ NothingElseLeft /\ GivesBackItsOwn

IInv == Shapes /\ Outlined /\ Oopsed

-----------------------------------------------------------------------------

LEMMA DriverSound ==
    ASSUME driver \in DOMAIN Catalogue
    PROVE  /\ Begins(me, outline)
           /\ \A p \in DOMAIN outline : /\ Stable(me, p[1], outline[p])
                                        /\ StepsOn(me, outline, p)
                                        /\ Returns(me, outline, p)
           /\ Suffices(driver)
BY OutlineAssumption DEF Sound, me, outline

LEMMA SameDriver ==
    ASSUME UNCHANGED driver
    PROVE  me' = me /\ outline' = outline /\ Activities' = Activities
           /\ Entries' = Entries
BY DEF me, outline, Activities, Entries

-----------------------------------------------------------------------------
(* What an outline gives *)

LEMMA IInvNoFreedTextRuns ==
    ASSUME IInv
    PROVE  NoFreedTextRuns
<1> SUFFICES ASSUME phase = "out", driver \notin LeavesCode
             PROVE  inside \cup pending \cup (left \cap Entries) = {}
  BY DEF NoFreedTextRuns
<1>1. place = <<"out", <<>>>> /\ EndsQuiet(driver)
  BY DriverSound DEF IInv, Shapes, place, Suffices
<1> QED
  BY <1>1 DEF IInv, Outlined, known, EndsQuiet, outline, Entries, me

LEMMA LiveUses ==
    ASSUME IInv, phase \notin {"out", "oops"}, driver \notin UsesTooMuch,
           NEW f \in known.live \cap DOMAIN me.uses
    PROVE  me.uses[f] \subseteq held \cup denied
<1>1. place \in DOMAIN outline /\ known.asked \subseteq held \cup denied
  BY DEF IInv, Outlined, Holds
<1>2. UsesWhatItAskedFor(driver) /\ place[1] # "out"
  BY DriverSound DEF IInv, Shapes, Suffices, place
<1>3. me.uses[f] \subseteq known.asked
  BY <1>1, <1>2 DEF UsesWhatItAskedFor, known, me, outline
<1> QED
  BY <1>1, <1>3

LEMMA IInvUsesWhatIsThere ==
    ASSUME IInv
    PROVE  UsesWhatIsThere
<1>1. CASE phase = "oops"
  BY <1>1 DEF IInv, Oopsed
<1>2. CASE phase # "oops"
  BY <1>2, LiveUses DEF IInv, Outlined, Shapes, Holds, UsesWhatIsThere
<1> QED
  BY <1>1, <1>2

LEMMA IInvNothingElseLeft ==
    ASSUME IInv
    PROVE  NothingElseLeft
<1>1. CASE phase = "oops"
  BY <1>1 DEF IInv, Oopsed
<1>2. CASE phase = "out"
  <2>1. place = <<"out", <<>>>> /\ EndsEmpty(driver)
    BY <1>2, DriverSound DEF IInv, Shapes, place, Suffices
  <2> QED
    BY <1>2, <2>1 DEF IInv, Outlined, known, EndsEmpty, outline,
                      NothingElseLeft
<1>3. CASE phase \notin {"oops", "out"}
  BY <1>3 DEF IInv, Outlined, NothingElseLeft
<1> QED
  BY <1>1, <1>2, <1>3

LEMMA IInvGivesBackItsOwn ==
    ASSUME IInv
    PROVE  GivesBackItsOwn
<1>1. CASE phase = "oops"
  BY <1>1 DEF IInv, Oopsed
<1>2. CASE phase # "oops"
  <2> SUFFICES ASSUME todo # <<>>, Head(todo).do \in {"put", "join"}
               PROVE  Head(todo).what \in
                          held \cup (denied \cap FreeUntaken) \cup Excused(driver)
    BY DEF GivesBackItsOwn
  <2>1. place \in DOMAIN outline /\ Holds(known)
    BY <1>2 DEF IInv, Outlined, Shapes
  <2>2. PutsItsOwn(driver) /\ place[2] = todo
    BY DriverSound DEF IInv, Shapes, Suffices, place
  <2>3. Head(todo).what \in known.sure \cup (known.asked \cap FreeUntaken)
                               \cup Excused(driver)
    BY <2>1, <2>2 DEF PutsItsOwn, known, outline
  <2> QED
    BY <2>1, <2>3 DEF Holds
<1> QED
  BY <1>1, <1>2

-----------------------------------------------------------------------------
(* The steps of the module *)

\* What a says holds after this step.
HoldsNext(a) ==
    /\ a.sure \subseteq held' /\ a.asked \subseteq held' \cup denied'
    /\ held' \subseteq a.most
    /\ inside' \cup pending' \subseteq a.live

\* The steps between two places in the same function
Between ==
    /\ UNCHANGED <<driver, left>>
    /\ phase \notin {"out", "oops"}
    /\ inside' \subseteq DOMAIN me.uses
    /\ pending' \subseteq Activities

LEMMA Arrives ==
    ASSUME IInv, Between, NEW a,
           phase' \in {"init", "back", "in", "exit"},
           phase' = "in" => todo' = <<>>,
           Reaches(outline, <<phase', todo'>>, a), HoldsNext(a)
    PROVE  IInv'
<1>1. /\ driver \in DOMAIN Catalogue /\ me' = me /\ outline' = outline
      /\ Activities' = Activities /\ driver' = driver
      /\ left' = {}
  BY SameDriver DEF IInv, Shapes, Outlined, Between
<1>2. Shapes'
  BY <1>1 DEF Shapes, Between
<1>3. place' \in DOMAIN outline' /\ known' = outline[<<phase', todo'>>]
  BY <1>1 DEF Reaches, place, known
<1>4. Holds(known)'
  BY <1>1, <1>3 DEF Reaches, Gives, HoldsNext, Holds
<1>5. Outlined' /\ Oopsed'
  BY <1>1, <1>3, <1>4 DEF Outlined, Oopsed
<1> QED
  BY <1>2, <1>5 DEF IInv

\* A step that is not refused
LEMMA GoesOn ==
    ASSUME IInv, Between, todo # <<>>, phase' = phase, todo' = Tail(todo),
           NEW b, b \in After(me, known, Head(todo)), HoldsNext(b)
    PROVE  IInv'
<1>1. place \in DOMAIN outline /\ place[1] = phase /\ place[2] = todo
  BY DEF IInv, Outlined, Between, place
<1>2. StepsOn(me, outline, place)
  BY <1>1, DriverSound DEF IInv, Shapes
<1>3. Reaches(outline, <<phase', todo'>>, b)
  BY <1>1, <1>2 DEF StepsOn, known
<1>4. phase' \in {"init", "back", "in", "exit"} /\ phase' # "in"
  BY DEF IInv, Shapes, Between
<1>5. phase' = "in" => todo' = <<>>
  BY <1>4
<1>6. Reaches(outline, <<phase', todo'>>, b) /\ HoldsNext(b) => IInv'
  BY <1>4, <1>5, Arrives
<1> QED
  BY <1>3, <1>6

LEMMA AtPlace ==
    ASSUME IInv, todo # <<>>, phase # "oops"
    PROVE  phase \notin {"out", "in", "oops"} /\ left = {} /\ Holds(known)
BY DEF IInv, Shapes, Outlined

LEMMA GrantedIInv ==
    ASSUME IInv, phase # "oops", NEW r, Granted(r)
    PROVE  IInv'
<1>1. /\ UNCHANGED <<driver, left, inside, pending>> /\ todo # <<>>
      /\ Head(todo).do \in {"get", "take", "need", "give"}
      /\ Head(todo).what = r
      /\ held' = held \cup {r} /\ denied' = denied
      /\ phase' = phase /\ todo' = Tail(todo)
  BY DEF Granted, Does, Goes, kernel
<1>2. Between /\ Holds(known)
  BY <1>1, AtPlace DEF Between, IInv, Shapes
<1>3. Having(known, r) \in After(me, known, Head(todo))
  BY <1>1 DEF After
<1>4. HoldsNext(Having(known, r))
  BY <1>1, <1>2 DEF HoldsNext, Holds, Having, Facts
<1> QED
  BY <1>1, <1>2, <1>3, <1>4, GoesOn

\* An oops without anything else: what held then holds.
LEMMA OopsIInv ==
    ASSUME IInv, phase # "out", phase' = "oops",
           UNCHANGED <<driver, todo, held, denied, left, inside, pending>>
    PROVE  IInv'
<1>1. UsesWhatIsThere /\ NothingElseLeft /\ GivesBackItsOwn
  BY IInvUsesWhatIsThere, IInvNothingElseLeft, IInvGivesBackItsOwn
<1>2. me' = me /\ Activities' = Activities
  BY SameDriver
<1>3. Shapes'
  BY <1>2 DEF IInv, Shapes
<1>4. (UsesWhatIsThere /\ NothingElseLeft /\ GivesBackItsOwn)'
  BY <1>1, <1>2 DEF UsesWhatIsThere, NothingElseLeft, GivesBackItsOwn,
                         Excused
<1> QED
  BY <1>3, <1>4 DEF IInv, Outlined, Oopsed

LEMMA RefusedIInv ==
    ASSUME IInv, phase # "oops", NEW r, Refused(r)
    PROVE  IInv'
<1>1. /\ UNCHANGED <<driver, held, left, inside, pending>> /\ todo # <<>>
      /\ Head(todo).what = r
  BY DEF Refused, Label, Does, kernel
<1>2. Between /\ Holds(known) /\ place \in DOMAIN outline
      /\ place = <<phase, todo>> /\ phase # "out"
  BY <1>1, AtPlace DEF Between, IInv, Shapes, Outlined, place
<1>3. CASE /\ Head(todo).do = "get" /\ phase' = "back"
           /\ todo' = Head(todo).undo /\ denied' = denied
  <2>1. StepsOn(me, outline, place)
    BY <1>2, DriverSound DEF IInv, Shapes
  <2>2. Reaches(outline, <<phase', todo'>>, known)
    BY <1>1, <1>2, <1>3, <2>1 DEF StepsOn, known
  <2>3. HoldsNext(known)
    BY <1>1, <1>2, <1>3 DEF Holds, HoldsNext
  <2> QED
    BY <1>2, <1>3, <2>2, <2>3, Arrives
<1>4. CASE /\ Head(todo).do \in {"take", "run"} /\ Goes /\ denied' = denied \cup {r}
  <2>1. Asking(known, r) \in After(me, known, Head(todo))
    BY <1>1, <1>4 DEF After
  <2>2. HoldsNext(Asking(known, r))
    BY <1>1, <1>2, <1>4 DEF HoldsNext, Holds, Asking, Facts
  <2> QED
    BY <1>1, <1>2, <1>4, <2>1, <2>2, GoesOn DEF Goes
<1>5. CASE phase' = "oops" /\ UNCHANGED <<todo, denied>>
  BY <1>1, <1>2, <1>5, OopsIInv
<1> QED
  BY <1>3, <1>4, <1>5 DEF Refused, Label, Does

LEMMA UsedIInv ==
    ASSUME IInv, phase # "oops", NEW r, Used(r)
    PROVE  IInv'
<1>1. /\ UNCHANGED <<driver, held, denied, left, inside, pending>>
      /\ todo # <<>> /\ Head(todo).do = "use"
  BY DEF Used, Does, resources, kernel
<1>2. Between /\ Holds(known) /\ phase # "out"
  BY <1>1, AtPlace DEF Between, IInv, Shapes
<1>3. CASE phase' = "oops" /\ UNCHANGED todo
  BY <1>1, <1>2, <1>3, OopsIInv
<1>4. CASE Goes
  <2>1. known \in After(me, known, Head(todo))
    BY <1>1 DEF After
  <2>2. HoldsNext(known)
    BY <1>1, <1>2 DEF Holds, HoldsNext
  <2> QED
    BY <1>1, <1>2, <1>4, <2>1, <2>2, GoesOn DEF Goes
<1> QED
  BY <1>3, <1>4 DEF Used

LEMMA GivenBackIInv ==
    ASSUME IInv, phase # "oops", NEW r, GivenBack(r)
    PROVE  IInv'
<1>1. /\ UNCHANGED <<driver, denied, left, inside, pending>> /\ todo # <<>>
      /\ Head(todo).do = "put" /\ Head(todo).what = r
      /\ r \in inside => ~Waits(r)
      /\ held' = held \ {r}
      /\ phase' = phase /\ todo' = Tail(todo)
  BY DEF GivenBack, Does, Goes, kernel
<1>2. Between /\ Holds(known)
  BY <1>1, AtPlace DEF Between, IInv, Shapes
<1>3. Without(me, known, r) \in After(me, known, Head(todo))
  BY <1>1 DEF After
<1>4. ASSUME Waits(r), r \notin Deferred(me)
      PROVE  r \notin inside \cup pending
  BY <1>1, <1>4 DEF IInv, Shapes, Activities
<1>5. HoldsNext(Without(me, known, r))
  BY <1>1, <1>2, <1>4 DEF HoldsNext, Holds, Without, Facts
<1> QED
  BY <1>1, <1>2, <1>3, <1>5, GoesOn

LEMMA StartedIInv ==
    ASSUME IInv, phase # "oops", NEW a, Started(a)
    PROVE  IInv'
<1>1. /\ UNCHANGED <<driver, denied, left, inside>> /\ todo # <<>>
      /\ Head(todo).do \in {"start", "run"} /\ Head(todo).what = a
      /\ Head(todo).do = "start" => held' = held
      /\ Head(todo).do = "run" => held' = held \cup {a}
      /\ pending' = pending \cup {a}
      /\ phase' = phase /\ todo' = Tail(todo)
  BY DEF Started, Does, Goes
<1>2. /\ phase \notin {"out", "oops"} /\ Holds(known) /\ a \in Activities
  <2>1. /\ phase \notin {"out", "oops"} /\ Holds(known)
        /\ place \in DOMAIN outline /\ place[2] = todo
    BY <1>1, AtPlace DEF IInv, Outlined, place
  <2>2. StepsOn(me, outline, place)
    BY <2>1, DriverSound DEF IInv, Shapes
  <2> QED
    BY <1>1, <2>1, <2>2 DEF StepsOn, Activities
<1>3. Between
  BY <1>1, <1>2 DEF Between, IInv, Shapes
<1>4. CASE Head(todo).do = "start"
  <2>1. Starting(known, a) \in After(me, known, Head(todo))
    BY <1>1, <1>4 DEF After
  <2>2. HoldsNext(Starting(known, a))
    BY <1>1, <1>2, <1>4 DEF HoldsNext, Holds, Starting, Facts
  <2> QED
    BY <1>1, <1>3, <2>1, <2>2, GoesOn
<1>5. CASE Head(todo).do = "run"
  <2>1. Starting(Having(known, a), a) \in After(me, known, Head(todo))
    BY <1>1, <1>5 DEF After
  <2>2. HoldsNext(Starting(Having(known, a), a))
    BY <1>1, <1>2, <1>5 DEF HoldsNext, Holds, Starting, Having, Facts
  <2> QED
    BY <1>1, <1>3, <2>1, <2>2, GoesOn
<1> QED
  BY <1>1, <1>4, <1>5

LEMMA StoppedIInv ==
    ASSUME IInv, phase # "oops", NEW a, Stopped(a)
    PROVE  IInv'
<1>1. /\ UNCHANGED <<driver, held, denied, left, inside>> /\ todo # <<>>
      /\ Head(todo).what = a
      /\ \/ Head(todo).do = "drop"
         \/ Head(todo).do \in {"stop", "flush"} /\ a \notin inside
      /\ pending' = pending \ {a}
      /\ phase' = phase /\ todo' = Tail(todo)
  BY DEF Stopped, Does, Goes, resources
<1>2. Between /\ Holds(known)
  BY <1>1, AtPlace DEF Between, IInv, Shapes
<1>3. CASE Head(todo).do = "drop"
  <2>1. known \in After(me, known, Head(todo))
    BY <1>3 DEF After
  <2>2. HoldsNext(known)
    BY <1>1, <1>2 DEF HoldsNext, Holds
  <2> QED
    BY <1>1, <1>2, <2>1, <2>2, GoesOn
<1>4. CASE Head(todo).do \in {"stop", "flush"} /\ a \notin inside
  <2>1. Stopping(known, a) \in After(me, known, Head(todo))
    BY <1>1, <1>4 DEF After
  <2>2. HoldsNext(Stopping(known, a))
    BY <1>1, <1>2, <1>4 DEF HoldsNext, Holds, Stopping, Facts
  <2> QED
    BY <1>1, <1>2, <2>1, <2>2, GoesOn
<1> QED
  BY <1>1, <1>3, <1>4

LEMMA JoinedIInv ==
    ASSUME IInv, phase # "oops", NEW a, Joined(a)
    PROVE  IInv'
<1>1. /\ UNCHANGED <<driver, denied, left, inside>> /\ todo # <<>>
      /\ Head(todo).do = "join" /\ Head(todo).what = a
  BY DEF Joined, Does
<1>2. phase \notin {"out", "oops"} /\ Holds(known)
  BY <1>1, AtPlace
<1>3. CASE phase' = "oops" /\ UNCHANGED <<todo, held, pending>>
  BY <1>1, <1>2, <1>3, OopsIInv
<1>4. CASE /\ a \notin denied \cup inside /\ Goes
           /\ held' = held \ {a} /\ pending' = pending \ {a}
  <2>1. Stopping(Without(me, known, a), a) \in After(me, known, Head(todo))
    BY <1>1 DEF After
  <2>2. Between
    BY <1>1, <1>2, <1>4 DEF Between, IInv, Shapes
  <2>3. HoldsNext(Stopping(Without(me, known, a), a))
    BY <1>1, <1>2, <1>4 DEF HoldsNext, Holds, Stopping, Without, Facts
  <2> QED
    BY <1>1, <1>4, <2>1, <2>2, <2>3, GoesOn DEF Goes
<1> QED
  BY <1>3, <1>4 DEF Joined

LEMMA ReturnIInv ==
    ASSUME IInv, Return
    PROVE  IInv'
<1>1. /\ UNCHANGED <<driver, todo, inside, pending>> /\ todo = <<>>
      /\ phase \in {"init", "back", "exit"}
      /\ place = <<phase, <<>>>> /\ place[1] = phase /\ place[2] = <<>>
  BY DEF Return, kernel, place
<1>2. /\ Holds(known) /\ place \in DOMAIN outline
      /\ driver \in DOMAIN Catalogue
  BY <1>1 DEF IInv, Shapes, Outlined
<1>3. Returns(me, outline, place)
  BY <1>2, DriverSound
<1>4. CASE phase = "init" /\ phase' = "in" /\ UNCHANGED resources
  <2>1. Reaches(outline, <<phase', todo'>>, known) /\ left' = left
    BY <1>1, <1>3, <1>4 DEF Returns, known, resources
  <2>2. HoldsNext(known) /\ Between
    BY <1>1, <1>2, <1>4 DEF HoldsNext, Holds, resources, Between, IInv, Shapes
  <2> QED
    BY <1>1, <1>4, <2>1, <2>2, Arrives
<1>5. CASE /\ phase \in {"back", "exit"} /\ phase' = "out"
           /\ left' = held \ Initialised /\ held' = {} /\ denied' = {}
  <2>1. /\ <<"out", <<>>>> \in DOMAIN outline
        /\ known.most \ Initialised \subseteq outline[<<"out", <<>>>>].most
        /\ known.live \subseteq outline[<<"out", <<>>>>].live
    BY <1>1, <1>3, <1>5 DEF Returns, known
  <2>2. /\ me' = me /\ outline' = outline /\ Activities' = Activities
        /\ place' = <<"out", <<>>>>
        /\ known' = outline[<<"out", <<>>>>]
    BY <1>1, <1>5, SameDriver DEF place, known
  <2>3. Shapes'
    BY <1>1, <1>2, <1>5, <2>2 DEF Shapes, IInv
  <2>4. Outlined' /\ Oopsed'
    BY <1>1, <1>2, <1>5, <2>1, <2>2 DEF Outlined, Oopsed, Holds
  <2> QED
    BY <2>3, <2>4 DEF IInv
<1> QED
  BY <1>4, <1>5 DEF Return

LEMMA LoadIInv ==
    ASSUME IInv, Load
    PROVE  IInv'
<1>1. /\ UNCHANGED <<driver, held, denied, left, inside, pending>>
      /\ held = {} /\ denied = {} /\ left = {} /\ inside = {} /\ pending = {}
      /\ phase' = "init" /\ todo' = me.init
      /\ driver \in DOMAIN Catalogue
  BY DEF Load, resources, kernel, IInv, Outlined, Shapes
<1>2. /\ me' = me /\ outline' = outline
      /\ place' = <<"init", me.init>> /\ known' = outline[<<"init", me.init>>]
  BY <1>1, SameDriver DEF place, known
<1>3. Begins(me, outline)
  BY <1>1, DriverSound
<1>4. Shapes'
  BY <1>1 DEF Shapes
<1>5. Outlined' /\ Oopsed'
  BY <1>1, <1>2, <1>3 DEF Outlined, Oopsed, Holds, Begins
<1> QED
  BY <1>4, <1>5 DEF IInv

LEMMA UnloadIInv ==
    ASSUME IInv, Unload
    PROVE  IInv'
<1>1. /\ UNCHANGED <<driver, held, denied, left, inside, pending>>
      /\ phase = "in" /\ todo = <<>> /\ inside \cap Files = {}
      /\ phase' = "exit" /\ todo' = me.exit
  BY DEF Unload, resources, kernel, IInv, Shapes
<1>2. /\ Between /\ Holds(known) /\ place \in DOMAIN outline
      /\ driver \in DOMAIN Catalogue /\ place[1] = "in" /\ place[2] = <<>>
  BY <1>1 DEF Between, IInv, Shapes, Outlined, place
<1>3. Returns(me, outline, place)
  BY <1>2, DriverSound
<1>4. Reaches(outline, <<phase', todo'>>, Closing(me, known))
  BY <1>1, <1>2, <1>3 DEF Returns, known
<1>5. pending \subseteq Deferred(me)
  BY DEF IInv, Shapes, Activities
<1>6. HoldsNext(Closing(me, known))
  BY <1>1, <1>2, <1>5 DEF HoldsNext, Holds, Closing, Facts
<1> QED
  BY <1>1, <1>2, <1>4, <1>6, Arrives

-----------------------------------------------------------------------------
(* The steps of the kernel *)

LEMMA Stays ==
    ASSUME IInv, phase # "oops",
           UNCHANGED <<driver, phase, todo, held, denied, left>>,
           inside' \subseteq DOMAIN me.uses, pending' \subseteq Activities,
           inside' \cup pending' \subseteq known.live
    PROVE  IInv'
<1>1. /\ me' = me /\ outline' = outline /\ Activities' = Activities
      /\ place' = place /\ known' = known
  BY SameDriver DEF place, known
<1>2. Shapes'
  BY <1>1 DEF IInv, Shapes
<1>3. Outlined' /\ Oopsed'
  BY <1>1 DEF IInv, Outlined, Oopsed, Holds
<1> QED
  BY <1>2, <1>3 DEF IInv

LEMMA Alive ==
    ASSUME IInv, phase # "oops"
    PROVE  inside \cup pending \subseteq known.live
BY DEF IInv, Outlined, Shapes, Holds

LEMMA KnownStable ==
    ASSUME IInv, phase # "oops"
    PROVE  Stable(me, phase, known)
<1>1. place \in DOMAIN outline /\ driver \in DOMAIN Catalogue /\ place[1] = phase
  BY DEF IInv, Outlined, Shapes, place
<1> QED
  BY <1>1, DriverSound DEF known

LEMMA EnterIInv ==
    ASSUME IInv, phase # "oops", NEW e, Enter(e)
    PROVE  IInv'
<1>1. /\ UNCHANGED <<driver, todo, held, denied, left, pending>>
      /\ e \in Called(me) /\ e \in held \cup left
      /\ phase = "exit" => e \notin Files
      /\ inside' = inside \cup {e}
      /\ phase' = IF me.uses[e] \cap denied = {} THEN phase ELSE "oops"
  BY DEF Enter, Entries, resources
<1>2. e \in known.most
  BY <1>1 DEF IInv, Outlined, Shapes, Holds
<1>3. e \in known.live /\ e \in DOMAIN me.uses
  BY <1>1, <1>2, KnownStable DEF Stable, Called
<1>4. /\ inside' \subseteq DOMAIN me.uses /\ pending' \subseteq Activities
      /\ inside' \cup pending' \subseteq known.live
  BY <1>1, <1>3, Alive DEF IInv, Shapes
<1>5. CASE phase' = phase
  BY <1>1, <1>4, <1>5, Stays
<1>6. CASE phase' = "oops" /\ phase' # phase
  <2>1. phase \notin {"out", "oops"}
    BY <1>1, <1>6 DEF IInv, Outlined
  <2>2. me' = me /\ Activities' = Activities
    BY <1>1, SameDriver
  <2>3. Shapes'
    BY <1>1, <1>4, <1>6, <2>2 DEF IInv, Shapes
  <2>4. UsesWhatIsThere'
    <3> SUFFICES ASSUME driver \notin UsesTooMuch, NEW f \in inside'
                 PROVE  me.uses[f] \subseteq held \cup denied
      BY <1>1, <2>2 DEF UsesWhatIsThere
    <3> QED
      BY <1>4, <2>1, LiveUses
  <2>5. (NothingElseLeft /\ GivesBackItsOwn)'
    BY <1>1, IInvNothingElseLeft, IInvGivesBackItsOwn
       DEF NothingElseLeft, GivesBackItsOwn, Excused
  <2> QED
    BY <1>6, <2>3, <2>4, <2>5 DEF IInv, Outlined, Oopsed
<1> QED
  BY <1>1, <1>5, <1>6

LEMMA KernelIInv ==
    ASSUME IInv, phase # "oops", NEW f \in DOMAIN me.uses,
           Run(f) \/ Leave(f) \/ \E a \in Activities : Defer(f, a)
    PROVE  IInv'
<1>1. UNCHANGED <<driver, phase, todo, held, denied, left>>
  BY DEF Run, Leave, Defer, resources
<1>2. /\ inside' \subseteq DOMAIN me.uses /\ pending' \subseteq Activities
  BY DEF Run, Leave, Defer, IInv, Shapes
<1>3. inside' \cup pending' \subseteq known.live
  <2>1. CASE Run(f) \/ Leave(f)
    BY <2>1, Alive DEF Run, Leave
  <2>2. ASSUME NEW a \in Activities, Defer(f, a)
        PROVE  inside' \cup pending' \subseteq known.live
    <3>1. f \in known.live /\ <<f, a>> \in me.starts
      BY <2>2, Alive DEF Defer
    <3>2. a \in known.live
      <4>1. <<f, a>>[1] = f /\ <<f, a>>[2] = a
        OBVIOUS
      <4> QED
        BY <3>1, <4>1, KnownStable DEF Stable
    <3> QED
      BY <2>2, <3>2, Alive DEF Defer
  <2> QED
    BY <2>1, <2>2
<1> QED
  BY <1>1, <1>2, <1>3, Stays

-----------------------------------------------------------------------------

LEMMA InitIInv ==
    ASSUME Init
    PROVE  IInv
<1>1. /\ driver \in DOMAIN Catalogue
      /\ place = <<"out", <<>>>>
  BY DEF Init, place
<1>2. place \in DOMAIN outline
  BY <1>1, DriverSound DEF Begins
<1> QED
  BY <1>1, <1>2 DEF Init, IInv, Shapes, Outlined, Oopsed

LEMMA StepIInv ==
    ASSUME IInv, [Next]_vars
    PROVE  IInv'
<1>1. ASSUME phase # "oops", ModuleStep PROVE IInv'
  BY <1>1, GrantedIInv, RefusedIInv, UsedIInv, GivenBackIInv, StartedIInv,
     StoppedIInv, JoinedIInv, ReturnIInv DEF ModuleStep
<1>2. ASSUME phase # "oops", NEW f \in DOMAIN me.uses,
             \/ Enter(f) \/ Run(f) \/ Leave(f)
             \/ \E a \in Activities : Defer(f, a)
      PROVE  IInv'
  BY <1>2, EnterIInv, KernelIInv
<1>3. CASE UNCHANGED vars
  <2>1. UNCHANGED <<driver, phase, todo, held, denied, left, inside, pending>>
    BY <1>3 DEF vars, resources, kernel
  <2>2. me' = me /\ outline' = outline /\ Activities' = Activities
        /\ place' = place /\ known' = known
    BY <2>1, SameDriver DEF place, known
  <2> QED
    BY <2>1, <2>2 DEF IInv, Shapes, Outlined, Oopsed, Holds, UsesWhatIsThere,
                      NothingElseLeft, GivesBackItsOwn, Excused
<1> QED
  BY <1>1, <1>2, <1>3, LoadIInv, UnloadIInv DEF Next

LEMMA OutlineHolds == Spec => []IInv
BY InitIInv, StepIInv, PTL DEF Spec

\* However its load failed and whatever ran when it was unloaded, a driver that
\* is out has nothing running, queued or registered, unless it is one of
\* LeavesCode.
THEOREM NoFunctionOutlivesTheModule == Spec => []NoFreedTextRuns
BY OutlineHolds, IInvNoFreedTextRuns, PTL

\* No function of a driver runs before what it uses is made or after it is
\* given back, unless the driver is one of UsesTooMuch.
THEOREM FunctionsFindWhatTheyUse == Spec => []UsesWhatIsThere
BY OutlineHolds, IInvUsesWhatIsThere, PTL

\* No error path and no exit function forgets more than Leaks says.
THEOREM NothingElseIsLeft == Spec => []NothingElseLeft
BY OutlineHolds, IInvNothingElseLeft, PTL

\* No error path and no exit function gives back what is not held, a thread
\* that was refused included, except what GivesUntaken says of that driver.
THEOREM GivesBackOnlyItsOwn == Spec => []GivesBackItsOwn
BY OutlineHolds, IInvGivesBackItsOwn, PTL
=============================================================================
