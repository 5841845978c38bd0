------------------------------ MODULE Surface ------------------------------
(***************************************************************************)
(* The motor-fader desk: prism-surface's SurfaceController (what the desk  *)
(* was told, the rules of a touched fader, the paced queue, the question a *)
(* silent desk is asked), prismd's SurfaceLink (one poll: receive, apply,  *)
(* paint, send, follow the cable, tell the operator) and prism-midi's port *)
(* (opening, presence, a refused write, backoff), with the desk, its cable *)
(* and the operator's hands round them.                                    *)
(*                                                                         *)
(* A poll is one step of time.  Every instant the code keeps is the number *)
(* of polls still to go, and what a control shows is a member of Values.   *)
(***************************************************************************)
EXTENDS Integers, Sequences, SequencesExt, FiniteSets

CONSTANTS
  Controls,     \* the controls in the order of priority, a sequence
  Faders,       \* those of them that have a motor and feel a hand
  Values,       \* what a control can show
  Dark,         \* what a desk that was just switched on shows
  Unknown,      \* the controller does not know what the desk shows
  Frame, Gap, Resync, Silence, Probe,   \* SurfaceTiming, in polls
  FirstAttempt, Ceiling, Presence,      \* the port's, in polls
  QuickReplug,  \* whether a cable may be back before anyone noticed
  Elapsed,      \* bound: how long a link has run when it is rebuilt, in polls
  MaxFaults     \* bound: cables pulled, links rebuilt, desks gone silent

Control == Range(Controls)
Places == DOMAIN Controls
None == -1

ASSUME SurfaceAssumption ==
  /\ Controls \in Seq(Control) /\ Faders \subseteq Control /\ Dark \in Values
  /\ \A out \in {"nothing", "question"} : out \notin Control    \* what else a pump puts out
  /\ Unknown \notin Values
  /\ {Frame, Gap, Resync, Silence, Probe, FirstAttempt, Ceiling, Presence} \subseteq Nat \ {0}
  /\ FirstAttempt <= Ceiling
  /\ QuickReplug \in BOOLEAN /\ Elapsed \subseteq Nat /\ MaxFaults \in Nat

VARIABLES
  tick,      \* the interval the loop polls on, each tick another poll
  learning,  \* Core::learning
  link,      \* SurfaceLink with its SurfaceController
  port,      \* MidiSurfacePort
  desk,      \* the device, its cable and the operator
  asked,     \* history: questions asked since the desk was last heard
  named,     \* history: the press the key is held with was named, not obeyed
  orphan     \* history: a release went out whose press was named

vars == <<tick, learning, link, port, desk, asked, named, orphan>>

Health == {"Disconnected", "Connected", "Live", "Probing", "Unresponsive"}
Attached(l) == l.health # "Disconnected"
TypeOK ==
  /\ {tick, learning, named, orphan} \subseteq BOOLEAN
  /\ link \in [health : Health, desired : [Control -> Values],
               told : [Control -> Values \cup {Unknown}], touched : SUBSET Faders,
               resync : [Faders -> None .. Resync], frame : 0 .. Frame,
               gap : 0 .. Gap, queue : SUBSET Places,
               quiet : None .. Silence, probe : None .. Probe,
               swallow : BOOLEAN]
  /\ port \in [open : {"no", "good", "stale"}, next : Nat,
               backoff : 1 .. Ceiling, presence : Nat]
  /\ desk \in [plugged : BOOLEAN, mute : BOOLEAN, shows : [Control -> Values],
               hands : SUBSET Faders, key : BOOLEAN, answers : BOOLEAN,
               faults : 0 .. MaxFaults]
  /\ asked \in 0 .. 2

---------------------------------------------------------------------------
(* The controller's life.                                                  *)

\* Known::nothing, and nothing left to send.
Invalidate(l) == [l EXCEPT !.told = [c \in Control |-> Unknown], !.queue = {}]

\* SurfaceController::connected
Connect(l) ==
  Invalidate([l EXCEPT !.health = "Connected", !.quiet = None, !.probe = None,
                       !.frame = Frame, !.gap = 0])

\* SurfaceController::disconnected: a hand that was on a fader is taken off it.
Disconnect(l) ==
  Invalidate([l EXCEPT !.health = "Disconnected", !.quiet = None, !.probe = None,
                       !.touched = {}, !.resync = [f \in Faders |-> None]])

\* SurfaceLink::attach round SurfaceController::new; connected at once if the
\* port is there.
NewLink(there) ==
  LET new == [health |-> "Disconnected", desired |-> [c \in Control |-> Dark],
              told |-> [c \in Control |-> Unknown], touched |-> {},
              resync |-> [f \in Faders |-> None], frame |-> 0, gap |-> 0,
              queue |-> {}, quiet |-> None, probe |-> None, swallow |-> FALSE]
  IN  IF there THEN Connect(new) ELSE new

---------------------------------------------------------------------------
(* Inbound: SurfaceController::push and heard.                             *)

Heard(l) ==
  IF Attached(l) THEN [l EXCEPT !.quiet = 0, !.probe = None, !.health = "Live"]
                 ELSE l

\* A hand lands or leaves: what the desk shows there is forgotten, and after it
\* has left the fader waits.
PushTouch(l, f, on) ==
  [l EXCEPT !.touched = IF on THEN @ \cup {f} ELSE @ \ {f},
            !.told[f] = Unknown,
            !.resync[f] = IF on THEN None ELSE Resync]

Push(l, m) ==
  CASE m.kind = "nothing" -> l
    [] m.kind \in {"touch", "release"} -> Heard(PushTouch(l, m.at, m.kind = "touch"))
    [] OTHER -> Heard(l)

---------------------------------------------------------------------------
(* Outbound: SurfaceController::pump.                                      *)

FaderReadyNeverAgain(l, f) == f \notin l.touched /\ l.resync[f] = None

\* fader_ready
FaderReady(l, f) == f \notin l.touched /\ l.resync[f] \in {None, 0}

\* The seven dirty questions: not known, or not what the desk was told.
Dirty(l, c) == l.told[c] # l.desired[c]

\* rebuild: the difference between the two pictures.  The queue is made anew for
\* each frame and worked off from the front: it is the places that are left.
Rebuild(l) ==
  [l EXCEPT !.frame = Frame,
            !.queue = {i \in Places : LET c == Controls[i] IN
                         Dirty(l, c) /\ (c \in Faders => FaderReady(l, c))}]
Foremost(queue) == CHOOSE i \in queue : \A j \in queue : i <= j

\* check_silence
CheckSilence(l) ==
  IF l.health = "Probing" /\ l.probe = 0
  THEN [l EXCEPT !.health = "Unresponsive", !.probe = None] ELSE l

ProbeDueAgain(l) ==
  /\ l.health \in {"Live", "Unresponsive"} /\ l.queue = {} /\ l.gap = 0
  /\ l.quiet >= Silence

\* probe_due
ProbeDue(l) ==
  /\ l.health = "Live" /\ l.queue = {} /\ l.gap = 0
  /\ l.quiet >= Silence

\* emit: the value is read when it is sent, and the shadow moves up to it.
Emit(l, i) ==
  LET c == Controls[i] IN
  [l EXCEPT !.told[c] = l.desired[c], !.gap = Gap, !.queue = @ \ {i},
            !.resync = IF c \in Faders THEN [@ EXCEPT ![c] = None] ELSE @]

\* What one pump puts out and what it leaves behind; with a gap longer than
\* nothing a second message never follows in the same pump.
Pump(l) ==
  LET s == CheckSilence(l)
      q == IF ProbeDue(s)
           THEN [s EXCEPT !.health = "Probing", !.probe = Probe, !.gap = Gap] ELSE s
      r == IF q.frame = 0 THEN Rebuild(q) ELSE q
  IN  IF ~ Attached(l) THEN [out |-> "nothing", link |-> l]
      ELSE IF ProbeDue(s) THEN [out |-> "question", link |-> r]
      ELSE IF r.gap = 0 /\ r.queue # {}
           THEN LET i == Foremost(r.queue) IN [out |-> Controls[i], link |-> Emit(r, i)]
           ELSE [out |-> "nothing", link |-> r]

---------------------------------------------------------------------------
(* The link's other steps.                                                 *)

\* SurfaceLink::apply and learn, for a key's two edges and a moved fader.
\* While learn is armed an event that names a control disarms it, and while a
\* release is to be eaten nothing else is obeyed either.
Obeyed(l, m) == ~ learning /\ ~ l.swallow /\ m.kind \in {"press", "up", "move"}
Named(l, m) == learning /\ m.kind \in {"press", "move"}
SwallowNothing(l, m) == l

Swallow(l, m) ==
  [l EXCEPT !.swallow = IF Named(l, m) /\ m.kind = "press" THEN TRUE
                        ELSE @ /\ m.kind # "up"]
\* The setters, set_fader to set_segment_text: what is wanted, and no more.
Set(l, c, v) == [l EXCEPT !.desired[c] = v]

\* SurfaceLink::paint: the pictures the show may put up by now.  A paint need
\* not be due and the show need not have moved; a fader without a reading is left
\* alone; an obeyed move is a command that may be what moved it.
Paint(l) ==
  {l} \cup {Set(l, c, v) : c \in Control, v \in Values}

---------------------------------------------------------------------------
(* The port: MidiSurfacePort.                                              *)

\* write: a refused write closes the port.
Write(p, out) ==
  IF out # "nothing" /\ p.open = "stale" THEN [p EXCEPT !.open = "no"] ELSE p

\* try_open
TryOpen(p, listed) ==
  IF listed
  THEN [open |-> "good", next |-> p.next, backoff |-> FirstAttempt, presence |-> Presence]
  ELSE [p EXCEPT !.open = "no", !.next = p.backoff,
                 !.backoff = IF 2 * p.backoff < Ceiling THEN 2 * p.backoff ELSE Ceiling]

\* refresh with still_listed: an open port is looked for now and then, a closed
\* one is tried once the backoff is over.
Refresh(p, listed) ==
  IF p.open # "no"
  THEN IF p.presence > 0 THEN p
       ELSE IF listed THEN [p EXCEPT !.presence = Presence]
       ELSE [open |-> "no", next |-> 0, backoff |-> FirstAttempt, presence |-> Presence]
  ELSE IF p.next > 0 THEN p ELSE TryOpen(p, listed)

\* attach_with
AttachPort(listed) ==
  TryOpen([open |-> "no", next |-> 0, backoff |-> FirstAttempt, presence |-> Presence],
          listed)

FollowTheCableBackOnly(l, p) ==
  IF p.open = "no" /\ Attached(l) THEN [l EXCEPT !.health = "Disconnected"]
  ELSE IF p.open # "no" /\ ~ Attached(l)
  THEN [l EXCEPT !.health = "Connected", !.frame = Frame, !.gap = 0]
  ELSE l

\* SurfaceLink::follow_the_cable: the two edges between port and controller.
FollowTheCable(l, p) ==
  CASE p.open # "no" /\ ~ Attached(l) -> Connect(l)
    [] p.open = "no" /\ Attached(l) -> Disconnect(l)
    [] OTHER -> l

---------------------------------------------------------------------------
(* One poll.                                                               *)

Down(n) == IF n > 0 THEN n - 1 ELSE n

\* Time since the last poll.
AgeLink(l) ==
  [l EXCEPT !.frame = Down(@), !.gap = Down(@), !.probe = Down(@),
            !.resync = [f \in Faders |-> Down(@[f])],
            !.quiet = IF @ \in 0 .. Silence - 1 THEN @ + 1 ELSE @]
AgePort(p) == [p EXCEPT !.next = Down(@), !.presence = Down(@)]

\* What can be waiting in the port: at most one message a poll, and only over a
\* cable that is in, from a desk that still transmits.
Waiting ==
  {[kind |-> "nothing"]} \cup
  IF port.open # "good" \/ desk.mute THEN {}
  ELSE [kind : {"touch"}, at : Faders \ desk.hands] \cup
       [kind : {"release"}, at : desk.hands] \cup
       [kind : {"move"}, at : desk.hands, to : Values] \cup
       [kind : {IF desk.key THEN "up" ELSE "press"}] \cup
       (IF desk.answers THEN [kind : {"answer"}] ELSE {})

\* The operator's half of a message.
Gesture(d, m) ==
  CASE m.kind = "touch"   -> [d EXCEPT !.hands = @ \cup {m.at}]
    [] m.kind = "release" -> [d EXCEPT !.hands = @ \ {m.at}]
    [] m.kind = "move"    -> [d EXCEPT !.shows[m.at] = m.to]
    [] m.kind = "answer"  -> [d EXCEPT !.answers = FALSE]
    [] m.kind \in {"press", "up"} -> [d EXCEPT !.key = ~ @]
    [] OTHER -> d

\* A message that arrives: the motor, the lamp or the display follows it.
Land(d, out, l) ==
  IF port.open # "good" \/ out = "nothing" THEN d
  ELSE IF out = "question" THEN [d EXCEPT !.answers = ~ d.mute]
  ELSE [d EXCEPT !.shows[out] = l.desired[out]]

\* SurfaceLink::poll: receive, apply, paint, send, follow the cable.
Poll ==
  \E m \in Waiting :
    LET received == Push(AgeLink(link), m)
    IN  \E painted \in Paint(Swallow(received, m)) :
          LET pumped == Pump(painted)
              p == Refresh(Write(AgePort(port), pumped.out), desk.plugged)
          IN  /\ tick' = ~ tick
              /\ learning' = (learning /\ ~ Named(received, m))
              /\ link' = FollowTheCable(pumped.link, p)
              /\ port' = p
              /\ desk' = Land(Gesture(desk, m), pumped.out, pumped.link)
              /\ asked' = (IF m.kind = "nothing" THEN asked ELSE 0) +
                          (IF pumped.out = "question" THEN 1 ELSE 0)
              /\ named' = IF m.kind = "press" THEN Named(received, m)
                          ELSE named /\ m.kind # "up"
              /\ orphan' = (orphan \/ (m.kind = "up" /\ named /\ Obeyed(received, m)))

---------------------------------------------------------------------------
(* The rest of the program, and the world.                                 *)

\* Command::SurfaceLearn
ArmLearn ==
  /\ learning' = ~ learning
  /\ UNCHANGED <<tick, link, port, desk, asked, named, orphan>>

\* SurfaceLink::attach starts a clock, and a port that is kept has its instants
\* on the old one's, which had run so long: what lay ahead is that much further
\* off, and what was over may lie ahead again.
Kept(p, ran) ==
  {[p EXCEPT !.presence = @ + ran, !.next = n] :
     n \in IF p.next = 0 THEN 0 .. ran ELSE {p.next + ran}}

\* follow_binding_change and follow_profile_change: the link is rebuilt round
\* the port it has; follow_surface_change: round a port opened anew.
Rebind ==
  /\ desk.faults < MaxFaults
  /\ \E p \in {AttachPort(desk.plugged)} \cup UNION {Kept(port, ran) : ran \in Elapsed} :
       port' = p /\ link' = NewLink(p.open # "no")
  /\ desk' = [desk EXCEPT !.faults = @ + 1]
  /\ named' = FALSE
  /\ UNCHANGED <<tick, learning, asked, orphan>>

\* The cable comes out, or the desk is switched off.
Pull ==
  /\ desk.plugged /\ desk.faults < MaxFaults
  /\ desk' = [desk EXCEPT !.plugged = FALSE, !.faults = @ + 1, !.answers = FALSE]
  /\ port' = [port EXCEPT !.open = IF @ = "good" THEN "stale" ELSE @]
  /\ UNCHANGED <<tick, learning, link, asked, named, orphan>>

\* It is back, showing nothing, with nobody's hand on it.
Replug ==
  /\ ~ desk.plugged
  /\ QuickReplug \/ port.open = "no"
  /\ desk' = [desk EXCEPT !.plugged = TRUE, !.mute = FALSE, !.hands = {}, !.key = FALSE,
                          !.shows = [c \in Control |-> Dark]]
  /\ UNCHANGED <<tick, learning, link, port, asked, named, orphan>>

\* The desk stops transmitting while it goes on receiving.
FallSilent ==
  /\ desk.plugged /\ ~ desk.mute /\ desk.faults < MaxFaults
  /\ desk' = [desk EXCEPT !.mute = TRUE, !.faults = @ + 1]
  /\ UNCHANGED <<tick, learning, link, port, asked, named, orphan>>

---------------------------------------------------------------------------
Init ==
  /\ tick = FALSE /\ learning = FALSE
  /\ \E plugged \in BOOLEAN :
       /\ desk = [plugged |-> plugged, mute |-> FALSE, shows |-> [c \in Control |-> Dark],
                  hands |-> {}, key |-> FALSE, answers |-> FALSE, faults |-> 0]
       /\ port = AttachPort(plugged)
       /\ link = NewLink(plugged)
  /\ asked = 0 /\ named = FALSE /\ orphan = FALSE

Next == Poll \/ ArmLearn \/ Rebind \/ Pull \/ Replug \/ FallSilent

\* The daemon's loop polls every SURFACE_PERIOD, for ever.
Polls == tick' = ~ tick
Spec == Init /\ [][Next]_vars /\ WF_tick(Polls)

---------------------------------------------------------------------------
(* Properties.                                                             *)

\* What the controller believes the desk shows is what it shows, on a port that
\* is open, except under a hand: believing too much would leave the desk wrong
\* until the next change, for only differences are sent (surface.rs, emit and
\* invalidate; port.rs, write).
PictureIsTrue ==
  /\ TypeOK
  /\ port.open = "good" /\ Attached(link) =>
       \A c \in Control \ desk.hands : link.told[c] \in {Unknown, desk.shows[c]}

\* At most one question since the desk was last heard from, through answers
\* that come late, cables and rebuilt links (surface.rs, probe_due).
AskedOnce == asked <= 1

\* The release of a press that was named rather than obeyed is not obeyed by the
\* link it was pressed under, although learn is off again when it arrives
\* (prismd surface.rs, learn).
LearnedIsEaten == ~ orphan

\* Each control comes to show what the show wants, however hands, frames and
\* the pacing interleave: unless the show moves on, a hand is on it, the cable
\* is out or the desk no longer says when a hand leaves.
PictureArrives ==
  \A c \in Control : \A v \in Values :
    (link.desired[c] = v /\ desk.plugged) ~>
      \/ desk.shows[c] = v
      \/ link.desired[c] # v
      \/ c \in desk.hands \/ ~ desk.plugged \/ desk.mute

\* While the controller knows of a hand on a fader, the fader is told nothing
\* (surface.rs:13, the first rule of its module comment).  It is not so: rebuild
\* asks for no hand, emit does not ask again, and a hand may land in between.
HandIsLeftAlone == \A f \in link.touched : link.told[f] = Unknown
=============================================================================
