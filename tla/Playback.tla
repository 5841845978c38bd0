------------------------------ MODULE Playback ------------------------------
(***************************************************************************)
(* The tick's own work (prism-engine): cue lists played against the tick    *)
(* index (cue.rs, player.rs), the sources they drive and the merge over     *)
(* them (playback.rs, merge.rs), the programmer and the masters over that   *)
(* (programmer.rs, master.rs), and the commands that reach them (body.rs).  *)
(*                                                                         *)
(* A level is 0..Full, the rate 1:1 is Unity; the code's 65535 and          *)
(* SPEED_UNITY are instances.  Time is whole ticks, of which a slow tick     *)
(* skips some.  The clock of a transition is capped above every time in the  *)
(* lists, where nothing depends on it any more.                             *)
(***************************************************************************)
EXTENDS Integers, FiniteSets, Sequences, SequencesExt, FiniteSetsExt

CONSTANTS
    Lists,      \* the cue list of each playback, or NoList; see Cue below
    Slots,      \* slots of the merge plan
    Htp,        \* the intensities among them
    Home,       \* [slot -> the value it falls back to]
    Aim, Lead,  \* pan and tilt slots of a head, and its follow slot
    Members,    \* the slots of the one group there is a master of
    Full, Unity,
    Kinds,      \* [playback -> the commands a behaviour gives it]
    DeskKinds,  \* the commands for the desk a behaviour gives
    Levels,     \* the levels and fader positions commands carry
    Speeds,     \* the rates commands carry
    MaxMissed,  \* bound: tick slots a slow tick skips
    TapWindow,  \* TAP_WINDOW
    MaxClock,   \* bound: ticks a transition is measured for
    MaxCommands \* bound: commands in a behaviour

NoList == [loop |-> FALSE, cues |-> <<>>]
NoCue == 0
None == -1
Playbacks == 1 .. Len(Lists)
Level == 0 .. Full

\* A cue: [says |-> slots to values, only |-> the slots it takes back again,
\*   fadeIn, fadeOut, delay, trigger |-> "go"/"follow"/"time", after]
IsCue(c) == /\ DOMAIN c.says \subseteq Slots /\ \A s \in DOMAIN c.says : c.says[s] \in Level
            /\ {c.delay, c.fadeIn, c.fadeOut, c.after} \subseteq Nat
            /\ \A time \in {c.fadeIn, c.fadeOut, c.after} : c.delay + time < MaxClock
Cue(p, i) == Lists[p].cues[i]
Count(p) == Len(Lists[p].cues)
IsLoaded(p) == Lists[p] # NoList

ASSUME PlaybackAssumption ==
    /\ Len(Lists) \in Nat /\ Htp \subseteq Slots /\ Members \subseteq Htp
    /\ \A p \in Playbacks : Count(p) \in Nat /\ \A i \in 1 .. Count(p) : IsCue(Cue(p, i))
    /\ Full \in Nat \ {0} /\ Unity \in Nat \ {0}
    /\ Home \in [Slots -> Level] /\ Levels \subseteq Level /\ Speeds \subseteq Nat
    /\ MaxMissed \in Nat /\ TapWindow \in Nat /\ MaxClock \in Nat

VARIABLES
    player,     \* CuePlayer, for each playback
    layer,      \* PlaybackSource, for each playback
    stamp,      \* next_activation
    programmer, \* ProgrammerLayer: the values held, the slots held in order
    masters,    \* MasterLayer
    stage,      \* the values of the last frame
    commands    \* how many commands there have been

vars == <<player, layer, stamp, programmer, masters, stage, commands>>
------------------------------------------------------------------------------
(* cue.rs: what a list compiles to. *)

\* Where a fade has got to
Interpolate(from, to, elapsed, duration) ==
    IF elapsed >= duration THEN to
    ELSE IF to >= from THEN from + ((to - from) * elapsed) \div duration
    ELSE from - ((from - to) * elapsed) \div duration

\* CueTrack::enter: what a cue hands on, and what is held while it plays, given
\* what was handed to it.  A cue that places a head lets go of its follow.
Entered(cue, held) ==
    LET places == {s \in Aim : s \in DOMAIN cue.says}
        lets == places # {} /\ Lead \in Slots /\ Lead \notin DOMAIN cue.says /\ held[Lead] > 0
        says == [s \in DOMAIN cue.says \cup (IF lets THEN {Lead} ELSE {}) |->
                   IF s \in DOMAIN cue.says THEN cue.says[s] ELSE 0]
        only == cue.only \cup (IF lets /\ places \subseteq cue.only THEN {Lead} ELSE {})
        tracked == [s \in Slots |-> IF s \in DOMAIN says \ only THEN says[s] ELSE held[s]]
    IN [tracked |-> tracked,
        visible |-> [s \in Slots |-> IF s \in DOMAIN says THEN says[s] ELSE tracked[s]]]

\* The same down the list
Unheld == [s \in Slots |-> None]
Walk(p) ==
    LET walk[i \in 0 .. Count(p)] ==
        IF i = 0 THEN [tracked |-> Unheld, visible |-> Unheld]
        ELSE Entered(Cue(p, i), walk[i - 1].tracked)
    IN walk

\* The tracking table: what is held at each cue
Table == [p \in Playbacks |-> LET walk == Walk(p) IN
    [s \in Slots |-> [i \in 1 .. Count(p) |-> walk[i].visible[s]]]]

\* A Go comes round at either end; a chain of follows only if the list loops
Step(p, current, direction) ==
    IF Count(p) = 0 THEN NoCue
    ELSE IF direction = "next" THEN IF current \in 1 .. Count(p) - 1 THEN current + 1 ELSE 1
    ELSE IF current > 1 THEN current - 1 ELSE Count(p)
FollowStep(p, current) ==
    IF current < Count(p) THEN current + 1 ELSE IF Lists[p].loop THEN 1 ELSE NoCue
\* the delay is not waited for
TransitionTicksFade(p, i) == Cue(p, i).fadeIn

TransitionTicks(p, i) == Cue(p, i).delay + Cue(p, i).fadeIn
------------------------------------------------------------------------------
(* player.rs: the entries of one player. *)

NoEntry == [live |-> FALSE, from |-> 0, to |-> 0, value |-> 0, duration |-> 0,
            releasing |-> FALSE]

\* a transition begins where the one before it was going
FadeOnwards(e, to, duration, releasing) ==
    [e EXCEPT !.from = e.to, !.to = to, !.duration = duration, !.releasing = releasing]

\* A transition of an entry from where it is
Fade(e, to, duration, releasing) ==
    [e EXCEPT !.from = e.value, !.to = to, !.duration = duration, !.releasing = releasing]

\* a slot the cue does not name keeps what the playback happens to hold
BeginNamed(p, entries, i) == [s \in Slots |->
    LET e == entries[s]
        at == IF e.live THEN e ELSE [e EXCEPT !.live = TRUE, !.value = Home[s]]
    IN IF s \in DOMAIN Cue(p, i).says
       THEN Fade(at, Cue(p, i).says[s], Cue(p, i).fadeIn, FALSE) ELSE e]

\* begin: every slot heads for what the list holds at the cue
Begin(p, entries, i) == [s \in Slots |->
    LET e == entries[s]
        to == Table[p][s][i]
        at == IF e.live THEN e ELSE [e EXCEPT !.live = TRUE, !.value = Home[s]]
        fade == Cue(p, i).fadeIn
    IN IF to # None THEN Fade(at, to, fade, FALSE)
       ELSE IF e.live THEN Fade(e, IF s \in Htp THEN Home[s] ELSE e.value, fade, TRUE)
       ELSE e]

\* hold: where it stands
Hold(entries) == [s \in Slots |->
    IF entries[s].live THEN Fade(entries[s], entries[s].value, 0, FALSE) ELSE entries[s]]

\* release and fade_out: intensities home, the rest where it is
Release(p, entries, outgoing) == [s \in Slots |->
    IF entries[s].live
    THEN Fade(entries[s], IF s \in Htp THEN Home[s] ELSE entries[s].value,
              Cue(p, outgoing).fadeOut, FALSE)
    ELSE entries[s]]

\* A fader at rest
Rest(mode, position) == [mode |-> mode, position |-> position, stroke |-> "none",
                         origin |-> 0, target |-> 0, fromCue |-> NoCue]
NoStroke(x) == [x EXCEPT !.manual = Rest(@.mode, @.position)]

\* A cue entered on a command: the transition is on the clock
Enter(p, x, i) ==
    [NoStroke(x) EXCEPT !.entries = Begin(p, @, i), !.delay = Cue(p, i).delay,
                        !.current = i, !.restart = TRUE]
------------------------------------------------------------------------------
(* player.rs: the operations of one player x of playback p. *)

GoTo(p, x, direction) ==
    LET next == Step(p, x.current, direction) IN
    IF next = NoCue THEN x ELSE Enter(p, x, next)
Goto(p, x, i) == IF i \in 1 .. Count(p) THEN Enter(p, x, i) ELSE x
On(p, x) == IF x.current # NoCue THEN x ELSE GoTo(p, x, "next")
Off(p, x) ==
    IF x.current = NoCue THEN x
    ELSE [x EXCEPT !.entries = Release(p, @, x.current), !.current = NoCue,
                   !.delay = 0, !.restart = TRUE]
FlashOn(p, x) ==
    IF x.current # NoCue THEN x
    ELSE LET on == On(p, x) IN [on EXCEPT !.flashed = on.current # NoCue]
FlashOff(p, x) == IF x.flashed THEN Off(p, [x EXCEPT !.flashed = FALSE]) ELSE x

\* Stroke::progress: travel towards the target only
Travelled(m) == IF m.target > m.origin THEN Max({m.position - m.origin, 0})
                ELSE Max({m.origin - m.position, 0})
Progress(m) ==
    LET span == IF m.target > m.origin THEN m.target - m.origin ELSE m.origin - m.target IN
    IF m.stroke = "done" \/ span = 0 THEN Full
    ELSE Min({Full, (Travelled(m) * Full) \div span})

\* Manual::arm, and what the new stroke asks of the player
Armed(x, origin) ==
    LET m == x.manual
        target == IF m.position > origin THEN Full ELSE 0
    IN IF m.position = origin THEN NoStroke(x)
       ELSE [x EXCEPT !.manual = [m EXCEPT
               !.stroke = IF m.position = target THEN "done" ELSE "armed",
               !.origin = origin, !.target = target, !.fromCue = x.current]]
Stroke(p, x) ==
    LET next == Step(p, x.current, "next") IN
    IF x.manual.stroke = "none" \/ ~IsLoaded(p) THEN x
    ELSE IF x.manual.mode = "XFade" \/ x.manual.target = 0
    THEN IF next = NoCue THEN NoStroke(x)
         ELSE [x EXCEPT !.entries = Begin(p, @, next), !.delay = Cue(p, next).delay,
                        !.current = next]
    ELSE IF x.current = NoCue THEN NoStroke(x)
    ELSE [x EXCEPT !.entries = Release(p, @, x.current), !.delay = 0]
Abandon(p, x) ==
    LET back == x.manual.fromCue
        y == [NoStroke(x) EXCEPT !.current = back]
    IN IF back = NoCue THEN y
       ELSE [y EXCEPT !.entries = Begin(p, @, back), !.delay = Cue(p, back).delay]

\* set_crossfade, and Manual::moved
SetCrossfade(p, x, mode, position) ==
    LET m == x.manual
        y == [x EXCEPT !.manual.position = position]
        rest == Rest(mode, position)
        back == IF m.target > m.origin THEN position <= m.origin ELSE position >= m.origin
    IN IF m.mode = "off" THEN [x EXCEPT !.manual = rest]
       ELSE IF m.mode # mode THEN [x EXCEPT !.manual = rest, !.entries = Hold(@)]
       ELSE IF m.stroke = "none" THEN Stroke(p, Armed(y, m.position))
       ELSE IF m.stroke = "done"
       THEN IF position = m.target THEN y ELSE Stroke(p, Armed(NoStroke(y), m.target))
       ELSE IF Progress(y.manual) = Full THEN [y EXCEPT !.manual.stroke = "done"]
       ELSE IF back THEN Abandon(p, y)
       ELSE y
------------------------------------------------------------------------------
(* player.rs: CuePlayer::advance, by a number of tick slots. *)

\* resolve_tap: the running cue should take as long as the taps are apart
Tapped(p, x, slots) ==
    LET interval == IF x.since = None THEN None ELSE Min({x.since + slots, TapWindow + 1})
        base == IF x.current = NoCue THEN 0 ELSE TransitionTicks(p, x.current)
    IN IF ~x.tap THEN [x EXCEPT !.since = interval]
       ELSE [x EXCEPT !.tap = FALSE, !.since = 0,
               !.speed = IF interval \in 1 .. TapWindow /\ base > 0
                         THEN (base * Unity) \div interval ELSE @]

\* The player's own clock, at its own rate
Clocked(x, slots) ==
    LET scaled == x.speed * slots + x.frac
        clock == Min({MaxClock, x.clock + scaled \div Unity})
    IN IF x.restart THEN [x EXCEPT !.clock = 0, !.frac = 0, !.restart = FALSE]
       ELSE [x EXCEPT !.clock = clock, !.frac = IF clock = MaxClock THEN 0 ELSE scaled % Unity]

OnFader(x) == x.current # NoCue /\ x.manual.stroke # "none"

\* Where a held entry has got to; one that was let go leaves when it arrives
Moved(x, e) ==
    LET value == IF OnFader(x) THEN Interpolate(e.from, e.to, Progress(x.manual), Full)
                 ELSE IF x.clock < x.delay THEN e.from
                 ELSE Interpolate(e.from, e.to, x.clock - x.delay, e.duration)
        arrived == IF OnFader(x) THEN Progress(x.manual) = Full
                   ELSE x.clock >= x.delay + e.duration
    IN IF ~e.live THEN e
       ELSE IF e.releasing /\ arrived THEN [e EXCEPT !.value = value, !.live = FALSE, !.releasing = FALSE]
       ELSE [e EXCEPT !.value = value]

Triggers(p, current, next, elapsed) ==
    CASE Cue(p, next).trigger = "follow" -> elapsed >= TransitionTicks(p, current)
      [] Cue(p, next).trigger = "time" -> elapsed >= Cue(p, next).after
      [] OTHER -> FALSE

\* Follow and Time, at most once a tick, and not while a fader holds the cue
Followed(p, x) ==
    LET next == IF x.current = NoCue THEN NoCue ELSE FollowStep(p, x.current) IN
    IF ~OnFader(x) /\ next # NoCue /\ Triggers(p, x.current, next, x.clock)
    THEN [x EXCEPT !.entries = Begin(p, @, next), !.delay = Cue(p, next).delay,
                   !.current = next, !.clock = 0, !.frac = 0]
    ELSE x

\* A release that has run its course drops everything at once
Dropped(x) ==
    IF /\ x.current = NoCue
       /\ \A s \in Slots : x.entries[s].live => x.clock >= x.delay + x.entries[s].duration
    THEN [x EXCEPT !.entries = [s \in Slots |-> [@[s] EXCEPT !.live = FALSE]]]
    ELSE x

\* a list without a cue is out of the merge at once
WantedCue(x) == x.current # NoCue

Wanted(x) == x.current # NoCue \/ \E s \in Slots : x.entries[s].live
Advance(p, x, slots) ==
    LET passed == IF x.ticked THEN slots ELSE 0
        timed == Clocked([Tapped(p, x, passed) EXCEPT !.ticked = TRUE], passed)
        moved == [timed EXCEPT !.entries = [s \in Slots |-> Moved(timed, @[s])]]
        done == Dropped(Followed(p, moved))
    IN [done EXCEPT !.active = Wanted(done)]
------------------------------------------------------------------------------
(* playback.rs, programmer.rs, master.rs: from the sources to the stage. *)

ApplyMaster(value, master) == (value * master) \div Full
EffectiveMaster(p) == IF layer[p].flash # None THEN layer[p].flash ELSE layer[p].master
Mastered(p, s) == ApplyMaster(layer[p].values[s], EffectiveMaster(p))
Offers(p, s) == layer[p].stamp # None /\ layer[p].values[s] # None
\* the number decides before the age
LaterNumber(p, q) == p > q

Later(p, q) == \/ layer[p].stamp > layer[q].stamp
               \/ layer[p].stamp = layer[q].stamp /\ p > q

\* PlaybackLayer::resolve: whose a slot is when the first n sources are through,
\* the one so far kept unless the next one beats it; 0 is nobody's
Beats(p, q, s) == IF s \in Htp THEN Mastered(p, s) > Mastered(q, s) ELSE Later(p, q)
Winners(s) ==
    LET winner[n \in 0 .. Len(Lists)] ==
        IF n = 0 THEN 0
        ELSE IF Offers(n, s) /\ (winner[n - 1] = 0 \/ Beats(n, winner[n - 1], s)) THEN n
        ELSE winner[n - 1]
    IN winner
Resolve(s) ==
    LET winner == Winners(s)[Len(Lists)] IN
    IF winner = 0 THEN Home[s]
    ELSE IF s \in Htp THEN Mastered(winner, s) ELSE layer[winner].values[s]

\* merge_playbacks: what a set of sources merges to
MergePlaybacks(s) ==
    LET sources == {p \in Playbacks : Offers(p, s)} IN
    IF sources = {} THEN Home[s]
    ELSE IF s \in Htp THEN Max({Mastered(p, s) : p \in sources})
    ELSE layer[CHOOSE p \in sources : \A q \in sources : layer[q].stamp <= layer[p].stamp].values[s]

\* ProgrammerLayer::set and clear: a list without holes beside the values
Held(slot, value) ==
    [programmer EXCEPT !.values[slot] = value,
       !.touched = IF programmer.values[slot] = None THEN Append(@, slot) ELSE @,
       !.position[slot] = IF programmer.values[slot] = None
                          THEN Len(programmer.touched) + 1 ELSE @]
Cleared(slot) ==
    LET hole == programmer.position[slot]
        moved == Last(programmer.touched)
    IN [programmer EXCEPT !.values[slot] = None,
          !.touched = Front([@ EXCEPT ![hole] = moved]),
          !.position[moved] = hole]
NoProgrammer == [values |-> [s \in Slots |-> None], touched |-> <<>>,
                 position |-> [s \in Slots |-> 0]]

\* MasterLayer::apply: the group, then the grand master, on intensities alone
UnderMasters(s, value) ==
    LET grouped == IF s \in Members THEN ApplyMaster(value, masters.group) ELSE value IN
    IF s \in Htp THEN ApplyMaster(grouped, IF masters.blackout THEN 0 ELSE masters.grand)
    ELSE value

\* MergeBody::resolve
Resolved == [s \in Slots |-> UnderMasters(s,
    IF \E i \in DOMAIN programmer.touched : programmer.touched[i] = s
    THEN programmer.values[s] ELSE Resolve(s))]
------------------------------------------------------------------------------
(* body.rs: a fresh body, the commands of the tick, and the tick. *)

NewPlayer(speed) ==
    [entries |-> [s \in Slots |-> NoEntry], current |-> NoCue, clock |-> 0, frac |-> 0,
     speed |-> speed, delay |-> 0, restart |-> FALSE, ticked |-> FALSE, tap |-> FALSE,
     since |-> None, manual |-> Rest("off", 0), flashed |-> FALSE, active |-> FALSE]
NewSource(master) ==
    [stamp |-> None, master |-> master, flash |-> None, values |-> [s \in Slots |-> None]]

Init ==
    /\ player = [p \in Playbacks |-> NewPlayer(Unity)]
    /\ layer = [p \in Playbacks |-> NewSource(Full)]
    /\ stamp = 0
    /\ programmer = NoProgrammer
    /\ masters = [grand |-> Full, blackout |-> FALSE, group |-> Full]
    /\ stage = Home
    /\ commands = 0

Commanded == commands < MaxCommands /\ commands' = commands + 1
Given(p, kind) == kind \in Kinds[p] /\ Commanded
GivenDesk(kind) == kind \in DeskKinds /\ Commanded
Play(p, x) == player' = [player EXCEPT ![p] = x]

Go(p) ==
    /\ Given(p, "go")
    /\ \E direction \in {"next", "prev"} : Play(p, GoTo(p, player[p], direction))
    /\ UNCHANGED <<layer, stamp, programmer, masters, stage>>

GotoCue(p) ==
    /\ Given(p, "goto")
    /\ \E i \in 1 .. Count(p) : Play(p, Goto(p, player[p], i))
    /\ UNCHANGED <<layer, stamp, programmer, masters, stage>>

\* PlaybackLayer::activate and deactivate, of a source no cue list drives
Activate(p) ==
    IF layer[p].stamp # None THEN UNCHANGED <<layer, stamp>>
    ELSE /\ layer' = [layer EXCEPT ![p].stamp = stamp]
         /\ stamp' = stamp + 1
Deactivate(p) == layer' = [layer EXCEPT ![p].stamp = None] /\ UNCHANGED stamp

SetExecutorActive(p, on) ==
    /\ Given(p, "active")
    /\ IF IsLoaded(p)
       THEN /\ Play(p, IF on THEN On(p, player[p]) ELSE Off(p, player[p]))
            /\ UNCHANGED <<layer, stamp>>
       ELSE (IF on THEN Activate(p) ELSE Deactivate(p)) /\ UNCHANGED player
    /\ UNCHANGED <<programmer, masters, stage>>

\* a layer over the master, and a start that the release takes back
SetExecutorFlash(p, on) ==
    LET held == [layer EXCEPT ![p].flash = IF on THEN Full ELSE None]
        starts == on /\ layer[p].stamp = None
        ends == ~on /\ player[p].flashed
    IN
    /\ Given(p, "flash")
    /\ IF IsLoaded(p)
       THEN /\ Play(p, IF on THEN FlashOn(p, player[p]) ELSE FlashOff(p, player[p]))
            /\ layer' = held /\ UNCHANGED stamp
       ELSE /\ layer' = IF starts THEN [held EXCEPT ![p].stamp = stamp]
                        ELSE IF ends THEN [held EXCEPT ![p].stamp = None] ELSE held
            /\ stamp' = IF starts THEN stamp + 1 ELSE stamp
            /\ Play(p, [player[p] EXCEPT !.flashed = (@ \/ starts) /\ ~ends])
    /\ UNCHANGED <<programmer, masters, stage>>

SetExecutorSpeed(p) ==
    /\ Given(p, "speed")
    /\ \E speed \in Speeds : Play(p, [player[p] EXCEPT !.speed = speed])
    /\ UNCHANGED <<layer, stamp, programmer, masters, stage>>

TapExecutorSpeed(p) ==
    /\ Given(p, "tap")
    /\ Play(p, [player[p] EXCEPT !.tap = TRUE])
    /\ UNCHANGED <<layer, stamp, programmer, masters, stage>>

SetExecutorCrossfade(p) ==
    /\ Commanded
    /\ \E mode \in {"XFade", "Fade"}, position \in Levels :
         mode \in Kinds[p] /\ Play(p, SetCrossfade(p, player[p], mode, position))
    /\ UNCHANGED <<layer, stamp, programmer, masters, stage>>

SetExecutorLevel(p) ==
    /\ Given(p, "level")
    /\ \E level \in Levels : layer' = [layer EXCEPT ![p].master = level]
    /\ UNCHANGED <<player, stamp, programmer, masters, stage>>

SetMasters ==
    /\ GivenDesk("masters")
    /\ \/ \E level \in Levels, which \in {"grand", "group"} :
            masters' = [masters EXCEPT ![which] = level]
       \/ \E on \in BOOLEAN : masters' = [masters EXCEPT !.blackout = on]
    /\ UNCHANGED <<player, layer, stamp, programmer, stage>>

SetProgrammerValue ==
    /\ GivenDesk("programmer")
    /\ \E slot \in Slots, value \in Levels : programmer' = Held(slot, value)
    /\ UNCHANGED <<player, layer, stamp, masters, stage>>

ClearProgrammerValue ==
    /\ GivenDesk("programmer")
    /\ \E slot \in ToSet(programmer.touched) : programmer' = Cleared(slot)
    /\ UNCHANGED <<player, layer, stamp, masters, stage>>

ClearProgrammer ==
    /\ GivenDesk("programmer")
    /\ programmer' = [programmer EXCEPT !.touched = <<>>, !.values = [s \in Slots |-> None]]
    /\ UNCHANGED <<player, layer, stamp, masters, stage>>

\* build_body: every list stopped, at the master and the rate the show has.  A
\* tap was never written there, and what is undone or loaded may bring any rate.
\* The programmer and the masters are put on again.
Rebuild ==
    /\ GivenDesk("rebuild")
    /\ \E rate \in [Playbacks -> Speeds \cup {Unity}] :
         /\ \A p \in Playbacks : "speed" \in Kinds[p] \/ rate[p] = Unity
         /\ player' = [p \in Playbacks |-> NewPlayer(rate[p])]
    /\ layer' = [p \in Playbacks |-> NewSource(layer[p].master)]
    /\ stamp' = 0
    /\ UNCHANGED <<programmer, masters, stage>>

\* CueLayer::advance, then the merge: the lists that start are stamped in order
Tick ==
    /\ \E missed \in 0 .. MaxMissed :
         player' = [p \in Playbacks |->
             IF IsLoaded(p) THEN Advance(p, player[p], missed + 1) ELSE player[p]]
    /\ LET starts == {p \in Playbacks : player'[p].active /\ ~player[p].active} IN
       /\ layer' = [p \in Playbacks |->
            IF ~IsLoaded(p) THEN layer[p]
            ELSE [layer[p] EXCEPT
                    !.stamp = IF p \in starts THEN stamp + Cardinality({q \in starts : q < p})
                              ELSE IF player'[p].active THEN @ ELSE None,
                    !.values = [s \in Slots |-> IF player'[p].entries[s].live
                                                THEN player'[p].entries[s].value ELSE None]]]
       /\ stamp' = stamp + Cardinality(starts)
    /\ UNCHANGED <<programmer, masters, commands>>
    /\ stage' = Resolved'

Command ==
    \/ \E p \in Playbacks :
         \/ Go(p) \/ GotoCue(p) \/ SetExecutorCrossfade(p)
         \/ SetExecutorSpeed(p) \/ TapExecutorSpeed(p) \/ SetExecutorLevel(p)
         \/ \E on \in BOOLEAN : SetExecutorActive(p, on) \/ SetExecutorFlash(p, on)
    \/ SetMasters
    \/ SetProgrammerValue \/ ClearProgrammerValue \/ ClearProgrammer
    \/ Rebuild

Next == Command \/ Tick

Spec == Init /\ [][Next]_vars
------------------------------------------------------------------------------
(* Properties. *)

TypeOK ==
    /\ \A p \in Playbacks :
         /\ player[p].current \in 0 .. Count(p)
         /\ player[p].clock \in 0 .. MaxClock /\ player[p].frac \in 0 .. Unity - 1
         /\ \A s \in Slots : LET e == player[p].entries[s] IN
              /\ {e.from, e.to, e.value} \subseteq Level
              /\ e.releasing => e.live
         /\ player[p].manual.position \in Level
         /\ player[p].manual.fromCue \in 0 .. Count(p)
         /\ layer[p].values \in [Slots -> Level \cup {None}]
         /\ layer[p].stamp \in -1 .. stamp - 1
    /\ stage \in [Slots -> Level]

\* The steps that are no command are ticks
Ticks == UNCHANGED commands

\* What the cue itself leaves a slot at: its own value, or that of the last cue
\* before it which handed one on.  No table, and no walk.
Says(p, s, i) ==
    LET named == {j \in 1 .. i : s \in DOMAIN Cue(p, j).says
                                 /\ (j = i \/ s \notin Cue(p, j).only)}
    IN IF named = {} THEN None ELSE Cue(p, Max(named)).says[s]

\* Whether the transition into the cue a playback stands on is over
Arrived(p) ==
    LET x == player[p] IN
    /\ x.current # NoCue
    /\ IF x.manual.mode = "off"
       THEN x.clock > Cue(p, x.current).delay + Cue(p, x.current).fadeIn
       ELSE x.manual.mode = "XFade" /\ x.manual.stroke = "done"

\* Whatever way a list was walked - Go, back, a jump, a follow, a fader, one
\* overtaking the other - the cue it has arrived at looks the same: it holds
\* what the list says it holds there and nothing else (S48).
ShowsItsCue(p) == Arrived(p)' => \A s \in Slots \ {Lead} :
    layer'[p].values[s] = Says(p, s, player'[p].current)
LookIsTheCue == [][Ticks => \A p \in Playbacks : ShowsItsCue(p)]_vars

\* No attribute jumps: however cues overtake each other, a tick moves a light by
\* no more than its fade moves in that time, and one leaves only where it was
\* heading.
Glides(p, s) ==
    LET x == player[p]
        e == x.entries[s]
        now == player'[p].entries[s]
        span == IF e.to > e.from THEN e.to - e.from ELSE e.from - e.to
        moved == IF now.value > e.value THEN now.value - e.value ELSE e.value - now.value
        ticks == IF x.restart THEN 0
                 ELSE (player'[p].speed * (MaxMissed + 1) + x.frac) \div Unity
    IN (e.live /\ x.manual.mode = "off" /\ (e.releasing => now.releasing)) =>
         /\ now.live => moved * e.duration <= span * ticks + e.duration
         /\ ~now.live => now.value = e.to
NothingJumps == [][Ticks => \A p \in Playbacks : \A s \in Slots : Glides(p, s)]_vars

\* A cue that follows waits for the one before it: nothing of that one is still
\* on its way when the next begins.
Waits(p) ==
    LET x == player[p] next == player'[p] IN
    (next.current # x.current /\ Cue(p, next.current).trigger = "follow") =>
        \A s \in Slots : x.entries[s].live /\ ~x.entries[s].releasing =>
            next.entries[s].value = x.entries[s].to
FollowWaits == [][Ticks => \A p \in Playbacks : Waits(p)]_vars

\* A list that is switched off goes dark and leaves the merge, whatever was done
\* to it before: every tick after the one that begins the release brings it
\* nearer to the end, unless its rate is nought, and no fader holds it up.
Darkens(p) ==
    LET x == player[p]
        next == player'[p]
        passed(y) == y.clock * Unity + y.frac
    IN (IsLoaded(p) /\ x.current = NoCue /\ x.active) =>
        \/ ~next.active /\ \A s \in Slots : layer'[p].values[s] = None
        \/ x.restart \/ next.speed = 0
        \/ passed(next) > passed(x) /\ x.clock < MaxClock
OffGoesDark == [][Ticks => \A p \in Playbacks : Darkens(p)]_vars

\* A list takes part in the merge exactly while it is on a cue or something of
\* it is still fading out.
TakesPart(p) == IsLoaded(p) =>
    /\ (layer'[p].stamp # None) =
         (player'[p].current # NoCue \/ \E s \in Slots : layer'[p].values[s] # None)
    /\ layer'[p].stamp # None /\ layer[p].stamp = None =>
         \A q \in Playbacks \ {p} : layer[q].stamp < layer'[p].stamp
InTheMerge == [][Ticks => \A p \in Playbacks : TakesPart(p)]_vars

\* The merge does not depend on the order of the sources, and the tie it breaks
\* by their numbers never comes up.
MergeIsOrderless == \A s \in Slots : Resolve(s) = MergePlaybacks(s)

\* The programmer's list names every slot it holds once, where it says it is.
ProgrammerIsASet ==
    /\ \A s \in Slots : programmer.values[s] # None <=>
           \E i \in DOMAIN programmer.touched : programmer.touched[i] = s
    /\ \A i \in DOMAIN programmer.touched : programmer.position[programmer.touched[i]] = i

\* The merge is of sets: of playbacks, in no order, and of the slots the
\* programmer holds (merge.rs, programmer.rs).
MergeIsExact == TypeOK /\ MergeIsOrderless /\ ProgrammerIsASet

\* What is switched off goes dark, and leaves the merge only then.
LeavesTheMerge == OffGoesDark /\ InTheMerge
==============================================================================
