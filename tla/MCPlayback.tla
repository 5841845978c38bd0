----------------------------- MODULE MCPlayback -----------------------------
(* Instances of Playback small enough to check. *)
EXTENDS Playback, TLC

OneHead == {"dim", "pan", "follow"}
Dim == {"dim"}
Pan == {"pan"}
AtHome == [s \in OneHead |-> IF s = "pan" THEN 2 ELSE 0]

C(says, only, fadeIn, delay, trigger) ==
    [says |-> says, only |-> only, fadeIn |-> fadeIn, fadeOut |-> 2, delay |-> delay,
     trigger |-> trigger, after |-> 1]

\* A list with a cue-only look, a follow and a value no other cue names; a chase
\* that takes a head off its tracker; a playback whose list did not load
Main == [loop |-> FALSE, cues |->
    << C([dim |-> 4], {}, 3, 1, "go"),
       C([dim |-> 1, pan |-> 4], {"pan"}, 2, 1, "follow"),
       C([dim |-> 3], {}, 0, 0, "go") >>]
Chase == [loop |-> TRUE, cues |->
    << C([follow |-> 4, dim |-> 2], {"dim"}, 1, 0, "time"),
       C([pan |-> 0], {}, 2, 0, "time") >>]
ThreeLists == (1 :> Main) @@ (2 :> Chase) @@ (3 :> NoList)
TwoLevels == {0, 2, 4}
TwoSpeeds == {0, 1}
Played == (1 :> {"go", "goto", "active", "flash", "XFade", "Fade"})
       @@ (2 :> {"go", "active", "speed", "tap", "level"}) @@ (3 :> {"active", "flash"})
AtTheDesk == {"masters", "programmer", "rebuild"}
==============================================================================
