---------------------------- MODULE SurfaceProofs ----------------------------
(***************************************************************************)
(* The motor-fader desk, for any controls and timings: what the controller *)
(* believes of the desk is so, a silent desk is asked once, and the release *)
(* of a key that was named is eaten.                                        *)
(***************************************************************************)
EXTENDS Surface, WellFoundedInduction, TLAPS

-----------------------------------------------------------------------------
(* The least of a set of naturals, which the front of the queue is         *)

LEMMA NaturalMinimum ==
    ASSUME NEW T \in SUBSET Nat, T # {}
    PROVE  \E n \in T : \A m \in T : n <= m
<1> DEFINE R == OpToRel(<, Nat)
<1>1. IsWellFoundedOn(R, Nat)
  BY NatLessThanWellFounded
<1>2. \A x, y \in Nat : <<x, y>> \in R <=> x < y
  BY DEF OpToRel
<1> HIDE DEF R
<1>3. PICK x \in T : \A y \in T : ~ (<<y, x>> \in R)
  BY <1>1, WFMin, Zenon
<1>4. ASSUME NEW y \in T PROVE x <= y
  <2>1. x \in Nat /\ y \in Nat
    OBVIOUS
  <2>2. ~ (y < x)
    BY <1>2, <1>3, <2>1, Zenon
  <2> QED BY <2>1, <2>2
<1> QED BY <1>4

LEMMA ForemostIsThere ==
    ASSUME NEW queue \in SUBSET Places, queue # {}
    PROVE  Foremost(queue) \in queue /\ Controls[Foremost(queue)] \in Control
<1>1. Places \subseteq Nat /\ \A i \in Places : Controls[i] \in Control
  BY SurfaceAssumption DEF Places
<1>2. \E i \in queue : \A j \in queue : i <= j
  BY <1>1, NaturalMinimum
<1>3. Foremost(queue) \in queue
  BY <1>2 DEF Foremost
<1> QED BY <1>1, <1>3

-----------------------------------------------------------------------------
(* What the steps of a poll do to the link and to the port                 *)

Links == [health : Health, desired : [Control -> Values],
          told : [Control -> Values \cup {Unknown}], touched : SUBSET Faders,
          resync : [Faders -> None .. Resync], frame : 0 .. Frame,
          gap : 0 .. Gap, queue : SUBSET Places,
          quiet : None .. Silence, probe : None .. Probe,
          swallow : BOOLEAN]
Ports == [open : {"no", "good", "stale"}, next : Nat, backoff : 1 .. Ceiling,
          presence : Nat]

LEMMA Numbers ==
    /\ Frame \in Nat /\ Gap \in Nat /\ Resync \in Nat /\ Silence \in Nat /\ Probe \in Nat
    /\ FirstAttempt \in 1 .. Ceiling /\ Ceiling \in Nat \ {0} /\ Presence \in Nat
    /\ None = -1 /\ Faders \subseteq Control /\ Dark \in Values
    /\ 0 \in None .. Silence /\ Silence \in None .. Silence
    /\ None \in None .. Silence /\ None \in None .. Probe /\ Probe \in None .. Probe
    /\ None \in None .. Resync /\ Resync \in None .. Resync
    /\ "nothing" \notin Control /\ "question" \notin Control
<1>1. Frame \in Nat \ {0} /\ Gap \in Nat \ {0} /\ Resync \in Nat \ {0}
      /\ Silence \in Nat \ {0} /\ Probe \in Nat \ {0}
      /\ FirstAttempt \in Nat \ {0} /\ Ceiling \in Nat \ {0} /\ Presence \in Nat \ {0}
  BY SurfaceAssumption
<1>2. "nothing" \notin Control /\ "question" \notin Control
      /\ Faders \subseteq Control /\ Dark \in Values /\ FirstAttempt <= Ceiling
  BY SurfaceAssumption
<1>3. /\ 0 \in None .. Silence /\ Silence \in None .. Silence
      /\ None \in None .. Silence /\ None \in None .. Probe /\ Probe \in None .. Probe
      /\ None \in None .. Resync /\ Resync \in None .. Resync
  BY <1>1 DEF None
<1>4. FirstAttempt \in 1 .. Ceiling /\ None = -1
  BY <1>1, <1>2 DEF None
<1> QED BY <1>1, <1>2, <1>3, <1>4

LEMMA ConnectDoes ==
    ASSUME NEW l \in Links
    PROVE  /\ Connect(l) \in Links /\ Connect(l).health = "Connected"
           /\ Connect(l).told = [c \in Control |-> Unknown]
           /\ Connect(l).swallow = l.swallow
<1>1. [c \in Control |-> Unknown] \in [Control -> Values \cup {Unknown}]
  OBVIOUS
<1>2. Frame \in 0 .. Frame /\ 0 \in 0 .. Gap /\ "Connected" \in Health
  BY Numbers DEF Health
<1> QED BY <1>1, <1>2, Numbers DEF Connect, Invalidate, Links

LEMMA DisconnectDoes ==
    ASSUME NEW l \in Links
    PROVE  /\ Disconnect(l) \in Links /\ Disconnect(l).health = "Disconnected"
           /\ Disconnect(l).told = [c \in Control |-> Unknown]
           /\ Disconnect(l).swallow = l.swallow
  BY Numbers DEF Disconnect, Invalidate, Links, Health

LEMMA NewLinkDoes ==
    ASSUME NEW there \in BOOLEAN
    PROVE  /\ NewLink(there) \in Links
           /\ NewLink(there).health = IF there THEN "Connected" ELSE "Disconnected"
           /\ NewLink(there).told = [c \in Control |-> Unknown]
           /\ NewLink(there).swallow = FALSE
<1> DEFINE new == [health |-> "Disconnected", desired |-> [c \in Control |-> Dark],
              told |-> [c \in Control |-> Unknown], touched |-> {},
              resync |-> [f \in Faders |-> None], frame |-> 0, gap |-> 0,
              queue |-> {}, quiet |-> None, probe |-> None, swallow |-> FALSE]
<1>1. new \in Links
  BY Numbers DEF Links, Health
<1>2. new.health = "Disconnected" /\ new.told = [c \in Control |-> Unknown]
      /\ new.swallow = FALSE
  OBVIOUS
<1>3. NewLink(there) = IF there THEN Connect(new) ELSE new
  BY DEF NewLink
<1> HIDE DEF new
<1> QED BY <1>1, <1>2, <1>3, ConnectDoes

LEMMA AgeLinkDoes ==
    ASSUME NEW l \in Links
    PROVE  /\ AgeLink(l) \in Links /\ AgeLink(l).health = l.health
           /\ AgeLink(l).told = l.told /\ AgeLink(l).desired = l.desired
           /\ AgeLink(l).swallow = l.swallow
<1>1. \A n \in Nat : Down(n) \in 0 .. n
  BY DEF Down
<1>2. \A k \in Nat : \A n \in None .. k : Down(n) \in None .. k
  BY Numbers DEF Down
<1>3. \A k \in Nat : \A n \in 0 .. k : Down(n) \in 0 .. k
  BY DEF Down
<1>4. [f \in Faders |-> Down(l.resync[f])] \in [Faders -> None .. Resync]
  BY <1>2, Numbers DEF Links
<1>5. (IF l.quiet \in 0 .. Silence - 1 THEN l.quiet + 1 ELSE l.quiet) \in None .. Silence
  BY Numbers DEF Links
<1>6. Down(l.frame) \in 0 .. Frame /\ Down(l.gap) \in 0 .. Gap
      /\ Down(l.probe) \in None .. Probe
  BY <1>2, <1>3, Numbers DEF Links
<1> QED BY <1>4, <1>5, <1>6 DEF AgeLink, Links

Kinds == {"nothing", "touch", "release", "move", "press", "up", "answer"}

LEMMA HeardDoes ==
    ASSUME NEW l \in Links
    PROVE  /\ Heard(l) \in Links /\ Heard(l).told = l.told
           /\ Heard(l).swallow = l.swallow
           /\ Attached(Heard(l)) <=> Attached(l)
           /\ ~ Attached(l) => Heard(l).health = l.health
<1>1. CASE Attached(l)
  <2>1. Heard(l) = [l EXCEPT !.quiet = 0, !.probe = None, !.health = "Live"]
    BY <1>1 DEF Heard
  <2> QED BY <1>1, <2>1, Numbers DEF Links, Health, Attached
<1>2. CASE ~ Attached(l)
  BY <1>2 DEF Heard
<1> QED BY <1>1, <1>2

LEMMA PushDoes ==
    ASSUME NEW l \in Links, NEW m, m.kind \in Kinds,
           m.kind \in {"touch", "release"} => m.at \in Faders
    PROVE  /\ Push(l, m) \in Links /\ Push(l, m).swallow = l.swallow
           /\ Attached(Push(l, m)) <=> Attached(l)
           /\ m.kind = "nothing" => Push(l, m) = l
           /\ \A c \in Control : Push(l, m).told[c] \in {l.told[c], Unknown}
           /\ m.kind = "release" => Push(l, m).told[m.at] = Unknown
<1>1. CASE m.kind = "nothing"
  BY <1>1 DEF Push, Links
<1>2. CASE m.kind \in {"touch", "release"}
  <2> DEFINE t == PushTouch(l, m.at, m.kind = "touch")
  <2>1. /\ t.touched \in SUBSET Faders /\ t.resync \in [Faders -> None .. Resync]
        /\ t.told \in [Control -> Values \cup {Unknown}]
    BY <1>2, Numbers DEF PushTouch, Links
  <2>2. t \in Links /\ t.swallow = l.swallow /\ t.health = l.health
    BY <2>1 DEF PushTouch, Links
  <2>3. t.told = [l.told EXCEPT ![m.at] = Unknown]
    BY DEF PushTouch, Links
  <2>4. Push(l, m) = Heard(t)
    BY <1>2 DEF Push
  <2>5. /\ \A c \in Control : t.told[c] \in {l.told[c], Unknown}
        /\ t.told[m.at] = Unknown
    BY <1>2, <2>3, Numbers DEF Links
  <2> HIDE DEF t
  <2> QED BY <1>2, <2>2, <2>4, <2>5, HeardDoes DEF Attached
<1>3. CASE m.kind \notin {"nothing", "touch", "release"}
  <2>1. Push(l, m) = Heard(l)
    BY <1>3 DEF Push
  <2> QED BY <1>3, <2>1, HeardDoes
<1> QED BY <1>1, <1>2, <1>3

LEMMA SwallowDoes ==
    ASSUME NEW l \in Links, NEW m
    PROVE  /\ Swallow(l, m) \in Links
           /\ Swallow(l, m).health = l.health /\ Swallow(l, m).told = l.told
           /\ Swallow(l, m).swallow = IF Named(l, m) /\ m.kind = "press" THEN TRUE
                                      ELSE l.swallow /\ m.kind # "up"
  BY DEF Swallow, Links

LEMMA PaintDoes ==
    ASSUME NEW l \in Links, NEW painted \in Paint(l)
    PROVE  /\ painted \in Links
           /\ painted.health = l.health /\ painted.told = l.told
           /\ painted.swallow = l.swallow
  BY DEF Paint, Set, Links

LEMMA EmitDoes ==
    ASSUME NEW l \in Links, NEW i \in Places
    PROVE  /\ Emit(l, i) \in Links
           /\ Emit(l, i).health = l.health /\ Emit(l, i).swallow = l.swallow
           /\ Emit(l, i).desired = l.desired
           /\ Emit(l, i).told = [l.told EXCEPT ![Controls[i]] = l.desired[Controls[i]]]
<1> DEFINE c == Controls[i]
<1>1. c \in Control
  BY SurfaceAssumption DEF Places
<1>2. [l.told EXCEPT ![c] = l.desired[c]] \in [Control -> Values \cup {Unknown}]
  BY <1>1 DEF Links
<1>3. (IF c \in Faders THEN [l.resync EXCEPT ![c] = None] ELSE l.resync)
        \in [Faders -> None .. Resync]
  BY Numbers DEF Links
<1>4. l.queue \ {i} \in SUBSET Places /\ Gap \in 0 .. Gap
  BY Numbers DEF Links
<1> HIDE DEF c
<1> QED BY <1>2, <1>3, <1>4 DEF Emit, Links, c

\* A pump changes no setting and no cable; only a live desk is asked, and it is
\* not live then; what it sends is what it takes the desk to show from now on.
LEMMA PumpDoes ==
    ASSUME NEW l \in Links
    PROVE  LET r == Pump(l) IN
           /\ r.link \in Links /\ r.link.swallow = l.swallow
           /\ r.out \in Control \cup {"nothing", "question"}
           /\ Attached(r.link) <=> Attached(l)
           /\ r.out = "question" => l.health = "Live"
           /\ r.link.health = "Live" => l.health = "Live" /\ r.out # "question"
           /\ \A c \in Control : r.link.told[c] = IF c = r.out THEN r.link.desired[c]
                                                  ELSE l.told[c]
<1> DEFINE s == CheckSilence(l)
           q == IF ProbeDue(s)
                THEN [s EXCEPT !.health = "Probing", !.probe = Probe, !.gap = Gap] ELSE s
           r == IF q.frame = 0 THEN Rebuild(q) ELSE q
           i == Foremost(r.queue)
<1>1. /\ s \in Links /\ s.swallow = l.swallow /\ s.told = l.told
      /\ Attached(s) <=> Attached(l)
      /\ s.health = "Live" <=> l.health = "Live"
  BY Numbers DEF CheckSilence, Links, Health, Attached
<1>2. ProbeDue(s) => s.health = "Live"
  BY DEF ProbeDue
<1> HIDE DEF s
<1>3. /\ q \in Links /\ q.swallow = l.swallow /\ q.told = l.told
      /\ Attached(q) <=> Attached(l)
      /\ q.health = "Live" <=> l.health = "Live" /\ ~ ProbeDue(s)
  <2>1. CASE ProbeDue(s)
    <3>1. q = [s EXCEPT !.health = "Probing", !.probe = Probe, !.gap = Gap]
      BY <2>1
    <3>2. Probe \in None .. Probe /\ Gap \in 0 .. Gap /\ "Probing" \in Health
      BY Numbers DEF Health
    <3> HIDE DEF q
    <3> QED BY <1>1, <1>2, <2>1, <3>1, <3>2 DEF Links, Attached
  <2>2. CASE ~ ProbeDue(s)
    BY <1>1, <2>2
  <2> QED BY <2>1, <2>2
<1> HIDE DEF q
<1>4. /\ r \in Links /\ r.swallow = l.swallow /\ r.told = l.told
      /\ r.health = q.health
  <2>1. CASE q.frame = 0
    <3>1. r = Rebuild(q) /\ Frame \in 0 .. Frame
      BY <2>1, Numbers
    <3>2. {j \in Places : LET c == Controls[j] IN
                 Dirty(q, c) /\ (c \in Faders => FaderReady(q, c))} \in SUBSET Places
      OBVIOUS
    <3> HIDE DEF r
    <3> QED BY <1>3, <3>1, <3>2 DEF Rebuild, Links
  <2>2. CASE q.frame # 0
    BY <1>3, <2>2
  <2> QED BY <2>1, <2>2
<1> HIDE DEF r
<1>5. CASE ~ Attached(l)
  <2>1. Pump(l) = [out |-> "nothing", link |-> l]
    BY <1>5 DEF Pump
  <2> QED BY <2>1, Numbers
<1>6. CASE Attached(l) /\ ProbeDue(s)
  <2>1. Pump(l) = [out |-> "question", link |-> r]
    BY <1>6 DEF Pump, r, q, s
  <2> QED BY <1>1, <1>2, <1>3, <1>4, <1>6, <2>1, Numbers DEF Attached
<1>7. CASE Attached(l) /\ ~ ProbeDue(s) /\ r.gap = 0 /\ r.queue # {}
  <2>1. Pump(l) = [out |-> Controls[i], link |-> Emit(r, i)]
    BY <1>7 DEF Pump, r, q, s
  <2>2. i \in Places /\ Controls[i] \in Control
    BY <1>4, <1>7, ForemostIsThere DEF Links
  <2> HIDE DEF i
  <2>3. /\ Emit(r, i) \in Links /\ Emit(r, i).health = q.health
        /\ Emit(r, i).swallow = l.swallow
        /\ Emit(r, i).desired = r.desired
        /\ Emit(r, i).told = [l.told EXCEPT ![Controls[i]] = r.desired[Controls[i]]]
    BY <1>4, <2>2, EmitDoes
  <2>4. \A c \in Control : Emit(r, i).told[c] = IF c = Controls[i]
                                                THEN Emit(r, i).desired[c] ELSE l.told[c]
    BY <2>2, <2>3 DEF Links
  <2>5. Pump(l).out = Controls[i] /\ Pump(l).link = Emit(r, i)
    BY <2>1
  <2>6. Attached(Emit(r, i)) <=> Attached(l)
    BY <1>3, <2>3 DEF Attached
  <2>7. Emit(r, i).health = "Live" => l.health = "Live"
    BY <1>3, <2>3
  <2>8. Controls[i] \notin {"nothing", "question"}
    BY <2>2, Numbers
  <2> QED BY <2>2, <2>3, <2>4, <2>5, <2>6, <2>7, <2>8
<1>8. CASE Attached(l) /\ ~ ProbeDue(s) /\ ~ (r.gap = 0 /\ r.queue # {})
  <2>1. Pump(l) = [out |-> "nothing", link |-> r]
    BY <1>8 DEF Pump, r, q, s
  <2> QED BY <1>3, <1>4, <1>8, <2>1, Numbers DEF Attached
<1> QED BY <1>5, <1>6, <1>7, <1>8

LEMMA FollowDoes ==
    ASSUME NEW l \in Links, NEW p
    PROVE  /\ FollowTheCable(l, p) \in Links
           /\ FollowTheCable(l, p).swallow = l.swallow
           /\ Attached(FollowTheCable(l, p)) <=> p.open # "no"
           /\ \/ FollowTheCable(l, p) = l /\ (Attached(l) <=> p.open # "no")
              \/ /\ FollowTheCable(l, p).health # "Live"
                 /\ FollowTheCable(l, p).told = [c \in Control |-> Unknown]
<1>1. CASE p.open # "no" /\ ~ Attached(l)
  BY <1>1, ConnectDoes DEF FollowTheCable, Attached
<1>2. CASE p.open = "no" /\ Attached(l)
  BY <1>2, DisconnectDoes DEF FollowTheCable, Attached
<1>3. CASE Attached(l) <=> p.open # "no"
  <2>1. FollowTheCable(l, p) = l
    BY <1>3 DEF FollowTheCable
  <2>2. l \in Links /\ l.swallow = l.swallow
    OBVIOUS
  <2> QED BY <1>3, <2>1, <2>2
<1> QED BY <1>1, <1>2, <1>3

LEMMA TryOpenDoes ==
    ASSUME NEW p \in Ports, NEW listed \in BOOLEAN
    PROVE  /\ TryOpen(p, listed) \in Ports
           /\ TryOpen(p, listed).open = IF listed THEN "good" ELSE "no"
<1>1. (IF 2 * p.backoff < Ceiling THEN 2 * p.backoff ELSE Ceiling) \in 1 .. Ceiling
      /\ p.backoff \in Nat /\ p.next \in Nat
  BY Numbers DEF Ports
<1>2. CASE listed
  BY <1>1, <1>2, Numbers DEF TryOpen, Ports
<1>3. CASE ~ listed
  <2> DEFINE b == IF 2 * p.backoff < Ceiling THEN 2 * p.backoff ELSE Ceiling
  <2>1. TryOpen(p, listed) = [p EXCEPT !.open = "no", !.next = p.backoff, !.backoff = b]
    BY <1>3 DEF TryOpen
  <2>2. b \in 1 .. Ceiling
    BY <1>1
  <2> HIDE DEF b
  <2> QED BY <1>1, <1>3, <2>1, <2>2 DEF Ports
<1> QED BY <1>2, <1>3

LEMMA AttachPortDoes ==
    ASSUME NEW listed \in BOOLEAN
    PROVE  /\ AttachPort(listed) \in Ports
           /\ AttachPort(listed).open = IF listed THEN "good" ELSE "no"
<1>1. [open |-> "no", next |-> 0, backoff |-> FirstAttempt, presence |-> Presence] \in Ports
  BY Numbers DEF Ports
<1> QED BY <1>1, TryOpenDoes DEF AttachPort

LEMMA KeptDoes ==
    ASSUME NEW ran \in Elapsed, NEW p \in Ports, NEW r \in Kept(p, ran)
    PROVE  r \in Ports /\ r.open = p.open
<1>1. ran \in Nat /\ p.next \in Nat /\ p.presence \in Nat
  BY SurfaceAssumption DEF Ports
<1>2. PICK n \in (IF p.next = 0 THEN 0 .. ran ELSE {p.next + ran}) :
        r = [p EXCEPT !.presence = p.presence + ran, !.next = n]
  BY DEF Kept
<1>3. n \in Nat /\ p.presence + ran \in Nat
  BY <1>1, <1>2
<1> QED BY <1>2, <1>3 DEF Ports

\* A link is rebuilt: round a port like the one there was, or a new one.
LEMMA RebindDoes ==
    ASSUME port \in Ports, desk.plugged \in BOOLEAN, Rebind
    PROVE  /\ port' \in Ports /\ link' = NewLink(port'.open # "no")
           /\ port'.open = port.open \/ port'.open = IF desk.plugged THEN "good" ELSE "no"
<1>1. PICK p \in {AttachPort(desk.plugged)} \cup UNION {Kept(port, ran) : ran \in Elapsed} :
        port' = p /\ link' = NewLink(p.open # "no")
  BY DEF Rebind
<1>2. CASE p = AttachPort(desk.plugged)
  BY <1>1, <1>2, AttachPortDoes
<1>3. ASSUME NEW ran \in Elapsed, p \in Kept(port, ran)
      PROVE  p \in Ports /\ p.open = port.open
  BY <1>3, KeptDoes
<1> QED BY <1>1, <1>2, <1>3

\* What a poll leaves of the port: one that is there stays open, one that is
\* open at the end was open before or is there, and none becomes stale.
LEMMA PortDoes ==
    ASSUME NEW p \in Ports, NEW listed \in BOOLEAN, NEW out
    PROVE  LET r == Refresh(Write(AgePort(p), out), listed) IN
           /\ r \in Ports
           /\ p.open = "good" /\ listed => r.open = "good"
           /\ r.open = "good" => listed \/ p.open = "good"
           /\ r.open = "stale" => p.open = "stale"
<1> DEFINE a == AgePort(p)
           w == Write(a, out)
<1>1. a \in Ports /\ a.open = p.open
  <2>1. \A n \in Nat : Down(n) \in Nat
    BY DEF Down
  <2> QED BY <2>1 DEF AgePort, Ports
<1> HIDE DEF a
<1>2. w \in Ports /\ (w.open = a.open \/ (a.open = "stale" /\ w.open = "no"))
  BY <1>1 DEF Write, Ports
<1> HIDE DEF w
<1>3. CASE w.open = "no"
  <2>1. w.next > 0 => Refresh(w, listed) = w
    BY <1>3 DEF Refresh
  <2>2. ~ (w.next > 0) => Refresh(w, listed) = TryOpen(w, listed)
    BY <1>3 DEF Refresh
  <2>3. TryOpen(w, listed) \in Ports /\ TryOpen(w, listed).open = IF listed THEN "good" ELSE "no"
    BY <1>2, TryOpenDoes
  <2> QED BY <1>1, <1>2, <1>3, <2>1, <2>2, <2>3 DEF a, w
<1>4. CASE w.open # "no"
  <2>1. Refresh(w, listed) \in Ports
    BY <1>2, <1>4, Numbers DEF Refresh, Ports
  <2>2. Refresh(w, listed).open = w.open \/ (~ listed /\ Refresh(w, listed).open = "no")
    BY <1>2, <1>4 DEF Refresh, Ports
  <2> QED BY <1>1, <1>2, <1>4, <2>1, <2>2 DEF a, w
<1> QED BY <1>3, <1>4

Desks == [plugged : BOOLEAN, mute : BOOLEAN, shows : [Control -> Values],
          hands : SUBSET Faders, key : BOOLEAN, answers : BOOLEAN,
          faults : 0 .. MaxFaults]

LEMMA WaitingDoes ==
    ASSUME TypeOK, NEW m \in Waiting
    PROVE  /\ m.kind \in Kinds
           /\ m.kind \in {"touch", "release", "move"} => m.at \in Faders
           /\ m.kind \in {"release", "move"} => m.at \in desk.hands
           /\ m.kind = "move" => m.to \in Values
           /\ m.kind # "nothing" => port.open = "good"
<1>1. desk.hands \subseteq Faders
  BY DEF TypeOK
<1>2. CASE m = [kind |-> "nothing"]
  BY <1>2 DEF Kinds
<1>3. CASE m \in [kind : {"touch"}, at : Faders \ desk.hands] \cup
                 [kind : {"release"}, at : desk.hands] \cup
                 [kind : {"move"}, at : desk.hands, to : Values]
           /\ port.open = "good"
  BY <1>1, <1>3 DEF Kinds
<1>4. CASE m.kind \in {"press", "up", "answer"} /\ port.open = "good"
  BY <1>4 DEF Kinds
<1> QED BY <1>2, <1>3, <1>4 DEF Waiting

LEMMA GestureDoes ==
    ASSUME NEW d \in Desks, NEW m, m.kind \in Kinds,
           m.kind \in {"touch", "release", "move"} => m.at \in Faders,
           m.kind = "move" => m.to \in Values
    PROVE  /\ Gesture(d, m) \in Desks
           /\ Gesture(d, m).plugged = d.plugged /\ Gesture(d, m).faults = d.faults
           /\ Gesture(d, m).shows = IF m.kind = "move" THEN [d.shows EXCEPT ![m.at] = m.to]
                                    ELSE d.shows
           /\ Gesture(d, m).hands = CASE m.kind = "touch" -> d.hands \cup {m.at}
                                      [] m.kind = "release" -> d.hands \ {m.at}
                                      [] OTHER -> d.hands
<1> USE Numbers DEF Desks
<1>1. CASE m.kind = "touch"
  BY <1>1 DEF Gesture
<1>2. CASE m.kind = "release"
  BY <1>2 DEF Gesture
<1>3. CASE m.kind = "move"
  BY <1>3 DEF Gesture
<1>4. CASE m.kind \in {"press", "up"}
  BY <1>4 DEF Gesture
<1>5. CASE m.kind = "answer"
  BY <1>5 DEF Gesture
<1>6. CASE m.kind = "nothing"
  BY <1>6 DEF Gesture
<1> QED BY <1>1, <1>2, <1>3, <1>4, <1>5, <1>6 DEF Kinds

-----------------------------------------------------------------------------
(* Type correctness                                                        *)

Typed ==
    /\ tick \in BOOLEAN /\ learning \in BOOLEAN /\ named \in BOOLEAN /\ orphan \in BOOLEAN
    /\ link \in Links /\ port \in Ports /\ desk \in Desks /\ asked \in 0 .. 2

LEMMA TypedIsTypeOK == Typed <=> TypeOK
  BY DEF Typed, TypeOK, Links, Ports, Desks

\* A question follows only a silence: asked once, the desk is not live.
AskedInv == asked \in 0 .. 1 /\ (asked = 1 => link.health # "Live")

TypeInv == Typed /\ AskedInv

\* One poll, with the message m it finds and the picture it paints.
Received(m) == Push(AgeLink(link), m)
PortAfter(out) == Refresh(Write(AgePort(port), out), desk.plugged)

PollOf(m, painted) ==
    LET out == Pump(painted).out
        after == Pump(painted).link
    IN  /\ tick' = ~ tick
        /\ learning' = (learning /\ ~ Named(Received(m), m))
        /\ link' = FollowTheCable(after, PortAfter(out))
        /\ port' = PortAfter(out)
        /\ desk' = Land(Gesture(desk, m), out, after)
        /\ asked' = (IF m.kind = "nothing" THEN asked ELSE 0) +
                    (IF out = "question" THEN 1 ELSE 0)
        /\ named' = IF m.kind = "press" THEN Named(Received(m), m)
                    ELSE named /\ m.kind # "up"
        /\ orphan' = (orphan \/ (m.kind = "up" /\ named /\ Obeyed(Received(m), m)))

LEMMA PollIs ==
    Poll <=> \E m \in Waiting :
             \E painted \in Paint(Swallow(Received(m), m)) : PollOf(m, painted)
  BY DEF Poll, PollOf, Received, PortAfter

\* What a poll hands to the pump, and what the pump makes of it.
LEMMA PollDoes ==
    ASSUME Typed, NEW m \in Waiting, NEW painted \in Paint(Swallow(Received(m), m))
    PROVE  /\ Received(m) \in Links
           /\ Received(m).swallow = link.swallow
           /\ painted \in Links
           /\ painted.swallow = IF Named(Received(m), m) /\ m.kind = "press" THEN TRUE
                                ELSE link.swallow /\ m.kind # "up"
           /\ painted.health = Received(m).health
           /\ Attached(painted) <=> Attached(link)
           /\ painted.told = Received(m).told
           /\ m.kind = "nothing" => painted.health = link.health
           /\ \A c \in Control : painted.told[c] \in {link.told[c], Unknown}
           /\ m.kind = "release" => painted.told[m.at] = Unknown
<1> DEFINE a == AgeLink(link)
           r == Push(a, m)
<1>1. a \in Links /\ a.health = link.health /\ a.told = link.told /\ a.swallow = link.swallow
  BY AgeLinkDoes DEF Typed
<1>2. m.kind \in Kinds /\ (m.kind \in {"touch", "release"} => m.at \in Faders)
  BY TypedIsTypeOK, WaitingDoes
<1> HIDE DEF a
<1>3. /\ r \in Links /\ r.swallow = link.swallow
      /\ Attached(r) <=> Attached(a)
      /\ m.kind = "nothing" => r = a
      /\ \A c \in Control : r.told[c] \in {link.told[c], Unknown}
      /\ m.kind = "release" => r.told[m.at] = Unknown
  BY <1>1, <1>2, PushDoes
<1>4. r = Received(m)
  BY DEF Received, a
<1> HIDE DEF r
<1> DEFINE s == Swallow(r, m)
<1>5. /\ s \in Links /\ s.health = r.health /\ s.told = r.told
      /\ s.swallow = IF Named(r, m) /\ m.kind = "press" THEN TRUE
                     ELSE r.swallow /\ m.kind # "up"
  BY <1>3, SwallowDoes
<1>6. painted \in Paint(s)
  BY <1>4
<1> HIDE DEF s
<1>7. painted \in Links /\ painted.health = s.health /\ painted.told = s.told
      /\ painted.swallow = s.swallow
  BY <1>5, <1>6, PaintDoes
<1>8. Attached(painted) <=> Attached(link)
  BY <1>1, <1>3, <1>5, <1>7 DEF Attached
<1> QED BY <1>1, <1>3, <1>4, <1>5, <1>7, <1>8

LEMMA LandDoes ==
    ASSUME NEW d \in Desks, NEW out \in Control \cup {"nothing", "question"}, NEW l \in Links
    PROVE  /\ Land(d, out, l) \in Desks
           /\ Land(d, out, l).plugged = d.plugged /\ Land(d, out, l).hands = d.hands
           /\ port.open = "good" =>
                Land(d, out, l).shows = IF out \in Control
                                        THEN [d.shows EXCEPT ![out] = l.desired[out]]
                                        ELSE d.shows
<1> USE Numbers DEF Desks
<1>1. CASE port.open # "good" \/ out = "nothing"
  BY <1>1 DEF Land
<1>2. CASE port.open = "good" /\ out = "question"
  BY <1>2 DEF Land
<1>3. CASE port.open = "good" /\ out \in Control
  BY <1>3 DEF Land, Links
<1> QED BY <1>1, <1>2, <1>3

LEMMA TypeInit == Init => TypeInv
<1> SUFFICES ASSUME Init PROVE TypeInv
  OBVIOUS
<1>1. PICK plugged \in BOOLEAN :
       /\ desk = [plugged |-> plugged, mute |-> FALSE, shows |-> [c \in Control |-> Dark],
                  hands |-> {}, key |-> FALSE, answers |-> FALSE, faults |-> 0]
       /\ port = AttachPort(plugged)
       /\ link = NewLink(plugged)
  BY DEF Init
<1>2. desk \in Desks
  <2>1. MaxFaults \in Nat
    BY SurfaceAssumption
  <2> QED BY <1>1, <2>1, Numbers DEF Desks
<1>3. port \in Ports /\ link \in Links /\ (link.health # "Live")
  BY <1>1, NewLinkDoes, AttachPortDoes
<1>4. Typed
  <2>1. tick = FALSE /\ learning = FALSE /\ asked = 0 /\ named = FALSE /\ orphan = FALSE
    BY DEF Init
  <2>2. asked \in 0 .. 2
    BY <2>1
  <2> QED BY <1>2, <1>3, <2>1, <2>2, Zenon DEF Typed
<1> QED BY <1>3, <1>4 DEF Init, TypeInv, AskedInv

LEMMA TypePoll == TypeInv /\ Poll => TypeInv'
<1> SUFFICES ASSUME TypeInv, NEW m \in Waiting,
                    NEW painted \in Paint(Swallow(Received(m), m)), PollOf(m, painted)
             PROVE  TypeInv'
  BY PollIs
<1> DEFINE out == Pump(painted).out
           after == Pump(painted).link
<1>1. Typed /\ painted \in Links /\ (m.kind = "nothing" => painted.health = link.health)
  BY PollDoes DEF TypeInv
<1>2. /\ after \in Links /\ out \in Control \cup {"nothing", "question"}
      /\ out = "question" => painted.health = "Live"
      /\ after.health = "Live" => painted.health = "Live" /\ out # "question"
  BY <1>1, PumpDoes
<1> HIDE DEF out, after
<1>3. /\ tick' = ~ tick
      /\ learning' = (learning /\ ~ Named(Received(m), m))
      /\ link' = FollowTheCable(after, PortAfter(out))
      /\ port' = PortAfter(out)
      /\ desk' = Land(Gesture(desk, m), out, after)
      /\ asked' = (IF m.kind = "nothing" THEN asked ELSE 0) +
                  (IF out = "question" THEN 1 ELSE 0)
      /\ named' = IF m.kind = "press" THEN Named(Received(m), m)
                  ELSE named /\ m.kind # "up"
      /\ orphan' = (orphan \/ (m.kind = "up" /\ named /\ Obeyed(Received(m), m)))
  BY DEF PollOf, out, after
<1>4. /\ tick' \in BOOLEAN /\ learning' \in BOOLEAN /\ named' \in BOOLEAN
      /\ orphan' \in BOOLEAN
  BY <1>3 DEF Named
<1>5. link' \in Links
      /\ (link'.health = "Live" => painted.health = "Live" /\ out # "question")
  BY <1>2, <1>3, FollowDoes
<1>6. port' \in Ports
  <2>1. desk.plugged \in BOOLEAN
    BY <1>1 DEF Typed, Desks
  <2> QED BY <1>1, <1>3, <2>1, PortDoes DEF PortAfter, Typed
<1>7. desk' \in Desks
  <2>1. Gesture(desk, m) \in Desks
    BY <1>1, TypedIsTypeOK, WaitingDoes, GestureDoes DEF Typed
  <2> QED BY <1>2, <1>3, <2>1, LandDoes
<1>8. asked' \in 0 .. 1 /\ (asked' = 1 => link'.health # "Live")
  <2>1. CASE out = "question"
    <3>1. painted.health = "Live"
      BY <1>2, <2>1
    <3>2. asked' = 1
      BY <1>1, <1>3, <2>1, <3>1 DEF TypeInv, AskedInv
    <3> QED BY <1>5, <2>1, <3>2
  <2>2. CASE out # "question" /\ m.kind = "nothing"
    BY <1>1, <1>3, <1>5, <2>2 DEF TypeInv, AskedInv
  <2>3. CASE out # "question" /\ m.kind # "nothing"
    BY <1>3, <2>3
  <2> QED BY <2>1, <2>2, <2>3
<1>9. asked' \in 0 .. 2
  BY <1>8
<1> QED BY <1>4, <1>5, <1>6, <1>7, <1>8, <1>9 DEF TypeInv, Typed, AskedInv

LEMMA TypeStep == TypeInv /\ [Next]_vars => TypeInv'
<1> SUFFICES ASSUME TypeInv, [Next]_vars PROVE TypeInv'
  OBVIOUS
<1>0. MaxFaults \in Nat
  BY SurfaceAssumption
<1>1. CASE Poll
  BY <1>1, TypePoll
<1>2. CASE ArmLearn
  BY <1>2 DEF ArmLearn, TypeInv, Typed, AskedInv
<1>3. CASE Rebind
  <2>1. port \in Ports /\ desk.plugged \in BOOLEAN /\ (port'.open # "no") \in BOOLEAN
    BY DEF TypeInv, Typed, Desks
  <2>3. port' \in Ports /\ link' = NewLink(port'.open # "no")
    BY <1>3, <2>1, RebindDoes
  <2>4. link' \in Links /\ link'.health # "Live"
    BY <2>1, <2>3, NewLinkDoes
  <2>5. desk' \in Desks
    BY <1>3, <1>0 DEF Rebind, TypeInv, Typed, Desks
  <2> QED BY <1>3, <2>3, <2>4, <2>5 DEF Rebind, TypeInv, Typed, AskedInv
<1>4. CASE Pull
  <2>1. desk' \in Desks
    <3>1. desk \in Desks
      BY DEF TypeInv, Typed
    <3>2. desk' = [desk EXCEPT !.plugged = FALSE, !.faults = @ + 1, !.answers = FALSE]
          /\ desk.faults < MaxFaults
      BY <1>4 DEF Pull
    <3>3. desk.faults + 1 \in 0 .. MaxFaults
      BY <1>0, <3>1, <3>2 DEF Desks
    <3> QED BY <3>1, <3>2, <3>3 DEF Desks
  <2>2. port' \in Ports
    BY <1>4 DEF Pull, TypeInv, Typed, Ports
  <2> QED BY <1>4, <2>1, <2>2 DEF Pull, TypeInv, Typed, AskedInv
<1>5. CASE Replug
  <2>1. desk' \in Desks
    BY <1>5, Numbers DEF Replug, TypeInv, Typed, Desks
  <2> QED BY <1>5, <2>1 DEF Replug, TypeInv, Typed, AskedInv
<1>6. CASE FallSilent
  <2>1. desk' \in Desks
    <3>1. desk \in Desks
      BY DEF TypeInv, Typed
    <3>2. desk' = [desk EXCEPT !.mute = TRUE, !.faults = @ + 1]
          /\ desk.faults < MaxFaults
      BY <1>6 DEF FallSilent
    <3>3. desk.faults + 1 \in 0 .. MaxFaults
      BY <1>0, <3>1, <3>2 DEF Desks
    <3> QED BY <3>1, <3>2, <3>3 DEF Desks
  <2> QED BY <1>6, <2>1 DEF FallSilent, TypeInv, Typed, AskedInv
<1>7. CASE UNCHANGED vars
  BY <1>7 DEF vars, TypeInv, Typed, AskedInv
<1> QED BY <1>1, <1>2, <1>3, <1>4, <1>5, <1>6, <1>7 DEF Next

\* The controller, the port and the desk are well typed for any controls and
\* timings.
THEOREM TypeCorrect == Spec => []TypeOK
<1>1. TypeInv => TypeOK
  BY TypedIsTypeOK DEF TypeInv
<1> QED BY <1>1, TypeInit, TypeStep, PTL DEF Spec

\* A desk that says nothing is asked once, however cables, rebuilt links and
\* late answers fall: only what is heard makes it live, and only a live one is
\* asked.
THEOREM QuestionIsAskedOnce == Spec => []AskedOnce
<1>1. TypeInv => AskedOnce
  BY DEF TypeInv, AskedInv, AskedOnce
<1> QED BY <1>1, TypeInit, TypeStep, PTL DEF Spec

-----------------------------------------------------------------------------
(* The release of a press that was named                                   *)

\* The mark the history keeps of a named press is covered by the link's own.
EatenInv == ~ orphan /\ (named => link.swallow)

LEMMA EatenInit == Init => EatenInv
  BY DEF Init, EatenInv

LEMMA EatenPoll == TypeInv /\ EatenInv /\ Poll => EatenInv'
<1> SUFFICES ASSUME TypeInv, EatenInv, NEW m \in Waiting,
                    NEW painted \in Paint(Swallow(Received(m), m)), PollOf(m, painted)
             PROVE  EatenInv'
  BY PollIs
<1> DEFINE after == Pump(painted).link
           r == Received(m)
<1>1. /\ r.swallow = link.swallow /\ painted \in Links
      /\ painted.swallow = IF Named(r, m) /\ m.kind = "press" THEN TRUE
                           ELSE link.swallow /\ m.kind # "up"
  BY PollDoes DEF TypeInv
<1>2. after \in Links /\ after.swallow = painted.swallow
  BY <1>1, PumpDoes
<1> HIDE DEF after, r
<1> DEFINE p == PortAfter(Pump(painted).out)
<1>3. link' = FollowTheCable(after, p)
  BY DEF PollOf, after
<1> HIDE DEF p
<1>4. FollowTheCable(after, p).swallow = painted.swallow
  BY <1>2, FollowDoes
<1>5. /\ named' = IF m.kind = "press" THEN Named(r, m) ELSE named /\ m.kind # "up"
      /\ orphan' = (orphan \/ (m.kind = "up" /\ named /\ Obeyed(r, m)))
  BY DEF PollOf, r
<1>6. ~ orphan'
  BY <1>1, <1>5 DEF EatenInv, Obeyed
<1>7. named' => link'.swallow
  BY <1>1, <1>3, <1>4, <1>5 DEF EatenInv
<1> QED BY <1>6, <1>7 DEF EatenInv

LEMMA EatenStep == TypeInv /\ EatenInv /\ [Next]_vars => EatenInv'
<1> SUFFICES ASSUME TypeInv, EatenInv, [Next]_vars PROVE EatenInv'
  OBVIOUS
<1>1. CASE Poll
  BY <1>1, EatenPoll
<1>2. CASE Rebind
  <2>1. named' = FALSE /\ orphan' = orphan
    BY <1>2 DEF Rebind
  <2> QED BY <2>1 DEF EatenInv
<1>3. CASE ArmLearn \/ Pull \/ Replug \/ FallSilent \/ UNCHANGED vars
  BY <1>3 DEF ArmLearn, Pull, Replug, FallSilent, vars, EatenInv
<1> QED BY <1>1, <1>2, <1>3 DEF Next

\* A key that was pressed to be named is never obeyed when it is let go, under
\* whatever cables, hands and changes of the learn mode lie in between.
THEOREM NamedPressIsEaten == Spec => []LearnedIsEaten
<1>1. EatenInv => LearnedIsEaten
  BY DEF EatenInv, LearnedIsEaten
<1> QED BY <1>1, TypeInit, TypeStep, EatenInit, EatenStep, PTL DEF Spec

-----------------------------------------------------------------------------
(* What the controller believes of the desk                                *)

\* The port is open exactly while the link is attached, good only with the cable
\* in and stale only with it out.
Cable ==
    /\ Attached(link) <=> port.open # "no"
    /\ port.open = "good" => desk.plugged = TRUE
    /\ port.open = "stale" => desk.plugged = FALSE

Picture ==
    port.open = "good" /\ Attached(link) =>
      \A c \in Control \ desk.hands : link.told[c] \in {Unknown, desk.shows[c]}

PictureInv == Cable /\ Picture

LEMMA PictureInit == Init => PictureInv
<1> SUFFICES ASSUME Init PROVE PictureInv
  OBVIOUS
<1>1. PICK plugged \in BOOLEAN : /\ desk.plugged = plugged
                                 /\ port = AttachPort(plugged) /\ link = NewLink(plugged)
  BY DEF Init
<1>2. /\ port.open = IF plugged THEN "good" ELSE "no"
      /\ link.health = IF plugged THEN "Connected" ELSE "Disconnected"
      /\ link.told = [c \in Control |-> Unknown]
  BY <1>1, AttachPortDoes, NewLinkDoes
<1>3. Cable
  BY <1>1, <1>2 DEF Cable, Attached
<1>4. Picture
  BY <1>2 DEF Picture
<1> QED BY <1>3, <1>4 DEF PictureInv

LEMMA PicturePoll == TypeInv /\ PictureInv /\ Poll => PictureInv'
<1> SUFFICES ASSUME TypeInv, PictureInv, NEW m \in Waiting,
                    NEW painted \in Paint(Swallow(Received(m), m)), PollOf(m, painted)
             PROVE  PictureInv'
  BY PollIs
<1> DEFINE out == Pump(painted).out
           after == Pump(painted).link
           g == Gesture(desk, m)
<1>1. Typed /\ link \in Links /\ port \in Ports /\ desk \in Desks
  BY DEF TypeInv, Typed
<1>2. /\ painted \in Links /\ (Attached(painted) <=> Attached(link))
      /\ \A c \in Control : painted.told[c] \in {link.told[c], Unknown}
      /\ m.kind = "release" => painted.told[m.at] = Unknown
  BY <1>1, PollDoes
<1>3. /\ after \in Links /\ out \in Control \cup {"nothing", "question"}
      /\ Attached(after) <=> Attached(link)
      /\ \A c \in Control : after.told[c] = IF c = out THEN after.desired[c]
                                            ELSE painted.told[c]
  BY <1>2, PumpDoes
<1> HIDE DEF out, after
<1>4. /\ link' = FollowTheCable(after, port') /\ port' = PortAfter(out)
      /\ desk' = Land(g, out, after)
  BY DEF PollOf, out, after
<1>5. /\ port.open = "good" /\ desk.plugged => port'.open = "good"
      /\ port'.open = "good" => desk.plugged \/ port.open = "good"
      /\ port'.open = "stale" => port.open = "stale"
  <2>1. desk.plugged \in BOOLEAN
    BY <1>1 DEF Desks
  <2> QED BY <1>1, <1>4, <2>1, PortDoes DEF PortAfter
<1>6. /\ m.kind \in Kinds
      /\ m.kind \in {"touch", "release", "move"} => m.at \in Faders
      /\ m.kind \in {"release", "move"} => m.at \in desk.hands
      /\ m.kind = "move" => m.to \in Values
  BY <1>1, TypedIsTypeOK, WaitingDoes
<1>7. /\ g \in Desks /\ g.plugged = desk.plugged
      /\ g.shows = IF m.kind = "move" THEN [desk.shows EXCEPT ![m.at] = m.to]
                   ELSE desk.shows
      /\ g.hands = CASE m.kind = "touch" -> desk.hands \cup {m.at}
                     [] m.kind = "release" -> desk.hands \ {m.at}
                     [] OTHER -> desk.hands
  BY <1>1, <1>6, GestureDoes
<1> HIDE DEF g
<1>8. /\ desk'.plugged = desk.plugged /\ desk'.hands = g.hands
      /\ port.open = "good" =>
           desk'.shows = IF out \in Control
                         THEN [g.shows EXCEPT ![out] = after.desired[out]] ELSE g.shows
  BY <1>3, <1>4, <1>7, LandDoes
<1>9. /\ Attached(link') <=> port'.open # "no"
      /\ \/ link' = after /\ (Attached(after) <=> port'.open # "no")
         \/ link'.told = [c \in Control |-> Unknown]
  BY <1>3, <1>4, FollowDoes DEF Attached
<1>10. Cable'
  <2>1. Attached(link)' <=> Attached(link')
    BY DEF Attached
  <2>2. port'.open = "good" => desk'.plugged = TRUE
    BY <1>1, <1>5, <1>8 DEF PictureInv, Cable, Desks
  <2>3. port'.open = "stale" => desk'.plugged = FALSE
    BY <1>5, <1>8 DEF PictureInv, Cable
  <2> QED BY <1>9, <2>1, <2>2, <2>3 DEF Cable
<1>11. Picture'
  <2> SUFFICES ASSUME port'.open = "good", NEW c \in Control \ desk'.hands
               PROVE  link'.told[c] \in {Unknown, desk'.shows[c]}
    BY DEF Picture
  <2>1. CASE link'.told = [x \in Control |-> Unknown]
    BY <2>1
  <2>2. CASE link' = after /\ Attached(after)
    <3>1. port.open = "good"
      BY <1>1, <1>3, <1>5, <2>2 DEF PictureInv, Cable, Ports
    <3>2. desk.shows \in [Control -> Values] /\ g.shows \in [Control -> Values]
      BY <1>1, <1>7 DEF Desks
    <3>3. CASE c = out
      BY <1>3, <1>8, <2>2, <3>1, <3>2, <3>3
    <3>4. CASE c # out
      <4>1. link'.told[c] = painted.told[c]
        BY <1>3, <2>2, <3>4
      <4>2. desk'.shows[c] = g.shows[c]
        BY <1>8, <3>1, <3>2, <3>4
      <4>3. CASE c \in desk.hands
        <5>1. m.kind = "release" /\ m.at = c
          BY <1>7, <1>8, <4>3
        <5> QED BY <1>2, <4>1, <5>1
      <4>4. CASE c \notin desk.hands
        <5>1. g.shows[c] = desk.shows[c]
          BY <1>6, <1>7, <3>2, <4>4
        <5>2. link.told[c] \in {Unknown, desk.shows[c]}
          BY <1>3, <2>2, <3>1, <4>4 DEF PictureInv, Picture
        <5> QED BY <1>2, <4>1, <4>2, <5>1, <5>2
      <4> QED BY <4>3, <4>4
    <3> QED BY <3>3, <3>4
  <2> QED BY <1>9, <2>1, <2>2
<1> QED BY <1>10, <1>11 DEF PictureInv

LEMMA PictureStep ==
    ASSUME ~ QuickReplug
    PROVE  TypeInv /\ PictureInv /\ [Next]_vars => PictureInv'
<1> SUFFICES ASSUME TypeInv, PictureInv, [Next]_vars PROVE PictureInv'
  OBVIOUS
<1>0. link \in Links /\ port \in Ports /\ desk \in Desks
  BY DEF TypeInv, Typed
<1>1. CASE Poll
  BY <1>1, PicturePoll
<1>2. CASE ArmLearn \/ UNCHANGED vars
  BY <1>2 DEF ArmLearn, vars, PictureInv, Cable, Picture, Attached
<1>3. CASE Rebind
  <2>1. desk.plugged \in BOOLEAN /\ (port'.open # "no") \in BOOLEAN
    BY <1>0 DEF Desks
  <2>2. /\ link' = NewLink(port'.open # "no")
        /\ port'.open = port.open \/ port'.open = IF desk.plugged THEN "good" ELSE "no"
    BY <1>0, <1>3, <2>1, RebindDoes
  <2>3. /\ link'.health = IF port'.open # "no" THEN "Connected" ELSE "Disconnected"
        /\ link'.told = [c \in Control |-> Unknown]
    BY <2>1, <2>2, NewLinkDoes
  <2>4. desk'.plugged = desk.plugged
    BY <1>0, <1>3 DEF Rebind, Desks
  <2>6. Cable'
    BY <2>2, <2>3, <2>4 DEF PictureInv, Cable, Attached
  <2> QED BY <2>3, <2>6 DEF PictureInv, Picture
<1>4. CASE Pull
  <2>1. desk'.plugged = FALSE /\ desk.plugged /\ UNCHANGED link
        /\ port'.open = IF port.open = "good" THEN "stale" ELSE port.open
    BY <1>0, <1>4 DEF Pull, Desks, Ports
  <2> QED BY <1>0, <2>1 DEF PictureInv, Cable, Picture, Attached, Ports
<1>5. CASE Replug
  <2>1. desk'.plugged = TRUE /\ port.open = "no" /\ UNCHANGED <<link, port>>
    BY <1>0, <1>5 DEF Replug, Desks
  <2> QED BY <2>1 DEF PictureInv, Cable, Picture, Attached
<1>6. CASE FallSilent
  <2>1. /\ desk'.plugged = desk.plugged /\ desk'.hands = desk.hands
        /\ desk'.shows = desk.shows /\ UNCHANGED <<link, port>>
    BY <1>0, <1>6 DEF FallSilent, Desks
  <2> QED BY <2>1 DEF PictureInv, Cable, Picture, Attached
<1> QED BY <1>1, <1>2, <1>3, <1>4, <1>5, <1>6 DEF Next

\* What the controller believes the desk shows is what it shows, however
\* gestures, paints, refused writes, cables and rebuilt links interleave, while
\* a cable that comes back is back only after the port was found shut.
THEOREM BelievedIsShown ==
    ASSUME ~ QuickReplug
    PROVE  Spec => []PictureIsTrue
<1>1. TypeInv /\ PictureInv => PictureIsTrue
  BY TypedIsTypeOK DEF TypeInv, PictureInv, Picture, PictureIsTrue
<1> QED BY <1>1, TypeInit, TypeStep, PictureInit, PictureStep, PTL DEF Spec

==============================================================================
