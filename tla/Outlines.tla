------------------------------ MODULE Outlines ------------------------------
(***************************************************************************)
(* A proof outline for every driver of the catalogue: what is known before *)
(* each step of its init and exit functions and of its error paths, while  *)
(* the kernel may call and run anything in between.                        *)
(*                                                                         *)
(* A place is a pair <<phase, todo>>.  What is known there is a record:    *)
(*                                                                         *)
(* sure    resources that are held                                         *)
(* asked   resources that are held, or were refused without anybody        *)
(*         looking                                                         *)
(* most    nothing else is held; when the driver is out, nothing else left *)
(* live    no other function is running or queued                          *)
(*                                                                         *)
(* Whether an outline is right is a question about the driver's record     *)
(* alone (Sound), and so is whether it is enough for the properties of     *)
(* Lifecycle (Suffices).  Both are decided without exploring a state.      *)
(***************************************************************************)
EXTENDS Lifecycle

CONSTANT Outline    \* of each driver, what is known at its places

\* What a says is all that b says.
Gives(a, b) ==
    /\ b.sure \subseteq a.sure /\ b.asked \subseteq a.asked
    /\ a.most \subseteq b.most /\ a.live \subseteq b.live

-----------------------------------------------------------------------------
(* What is known after a step of which a is known before it *)

Facts(sure, asked, most, live) ==
    [sure |-> sure, asked |-> asked, most |-> most, live |-> live]

Having(a, r) ==
    Facts(a.sure \cup {r}, a.asked \cup {r}, a.most \cup {r}, a.live)

Asking(a, r) == Facts(a.sure, a.asked \cup {r}, a.most, a.live)

\* Who gives back a registration that waits is called through it no more.
Without(d, a, r) ==
    Facts(a.sure \ {r}, a.asked \ {r}, a.most \ {r},
          IF Waits(r) /\ r \notin Deferred(d) THEN a.live \ {r} ELSE a.live)

Starting(a, f) == Facts(a.sure, a.asked, a.most, a.live \cup {f})
Stopping(a, f) == Facts(a.sure, a.asked, a.most, a.live \ {f})

\* Unload waits for the open files, and no more are opened.
Closing(d, a) ==
    Facts(a.sure, a.asked, a.most, a.live \ (Files \ Deferred(d)))

\* What is known where the step s of driver d leads to, of which there may be
\* two when a request is refused.
After(d, a, s) ==
    CASE s.do \in {"get", "need", "give"} -> {Having(a, s.what)}
      [] s.do = "take" -> {Having(a, s.what), Asking(a, s.what)}
      [] s.do = "put" -> {Without(d, a, s.what)}
      [] s.do = "start" -> {Starting(a, s.what)}
      [] s.do = "run" -> {Starting(Having(a, s.what), s.what),
                          Asking(a, s.what)}
      [] s.do = "join" -> {Stopping(Without(d, a, s.what), s.what)}
      [] s.do \in {"stop", "flush"} -> {Stopping(a, s.what)}
      [] OTHER -> {a}

-----------------------------------------------------------------------------
(* Outlines that are right *)

\* What the kernel does changes nothing that is known: functions that can be
\* called or queued are live.
Stable(d, phase_, a) ==
    /\ \A e \in Called(d) \cap a.most :
          (phase_ = "exit" => e \notin Files) => e \in a.live
    /\ \A s \in d.starts : s[1] \in a.live => s[2] \in a.live

\* What outline o says at a place is given by a.
Reaches(o, place, a) == place \in DOMAIN o /\ Gives(a, o[place])

\* Every way on from the place is right.
StepsOn(d, o, place) ==
    LET ph == place[1]
        t == place[2]
        a == o[place]
    IN  t # <<>> =>
            /\ \A b \in After(d, a, Head(t)) : Reaches(o, <<ph, Tail(t)>>, b)
            /\ Head(t).do = "get" =>
                  Reaches(o, <<"back", Head(t).undo>>, a)
            /\ Head(t).do \in {"start", "run"} => Head(t).what \in Deferred(d)

Returns(d, o, place) ==
    LET a == o[place]
        out == <<"out", <<>>>>
    IN  place[2] = <<>> =>
            /\ place[1] = "init" => Reaches(o, <<"in", <<>>>>, a)
            /\ place[1] = "in" =>
                  Reaches(o, <<"exit", d.exit>>, Closing(d, a))
            /\ place[1] \in {"back", "exit"} =>
                  /\ out \in DOMAIN o
                  /\ a.most \ Initialised \subseteq o[out].most
                  /\ a.live \subseteq o[out].live

Begins(d, o) ==
    LET place == <<"init", d.init>>
    IN  /\ <<"out", <<>>>> \in DOMAIN o
        /\ place \in DOMAIN o
        /\ o[place].sure = {} /\ o[place].asked = {}

Sound(n) ==
    LET d == Catalogue[n]
        o == Outline[n]
    IN  /\ Begins(d, o)
        /\ \A place \in DOMAIN o :
              /\ Stable(d, place[1], o[place])
              /\ StepsOn(d, o, place)
              /\ Returns(d, o, place)

-----------------------------------------------------------------------------
(* Outlines that are enough, each for one property of Lifecycle *)

EndsQuiet(n) ==
    LET end == Outline[n][<<"out", <<>>>>]
    IN  end.live = {} /\ end.most \cap Called(Catalogue[n]) = {}

EndsEmpty(n) ==
    Outline[n][<<"out", <<>>>>].most
        \subseteq (IF n \in DOMAIN Leaks THEN Leaks[n] ELSE {})

UsesWhatItAskedFor(n) ==
    \A place \in DOMAIN Outline[n] :
        LET a == Outline[n][place]
        IN  place[1] # "out" =>
                \A f \in a.live \cap DOMAIN Catalogue[n].uses :
                    Catalogue[n].uses[f] \subseteq a.asked

PutsItsOwn(n) ==
    \A place \in DOMAIN Outline[n] :
        LET a == Outline[n][place]
            s == Head(place[2])
        IN  place[2] # <<>> /\ s.do \in {"put", "join"} =>
                s.what \in a.sure \cup (a.asked \cap FreeUntaken) \cup Excused(n)

Suffices(n) ==
    /\ n \notin LeavesCode => EndsQuiet(n)
    /\ n \notin UsesTooMuch => UsesWhatItAskedFor(n)
    /\ PutsItsOwn(n)
    /\ EndsEmpty(n)

ASSUME OutlineAssumption ==
    /\ DOMAIN Catalogue \subseteq DOMAIN Outline
    /\ \A n \in DOMAIN Catalogue : Sound(n) /\ Suffices(n)
=============================================================================
