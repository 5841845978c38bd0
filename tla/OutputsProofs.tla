---------------------------- MODULE OutputsProofs ----------------------------
(***************************************************************************)
(* The outputs, for any rig, any number of receivers and places, and any    *)
(* cadence: what runs is what the rig says, a green light is true, and what *)
(* is said of the nodes was heard through the socket that is open.  And the *)
(* numbers and goodbyes of an sACN stream, for any gateways and any loss.   *)
(***************************************************************************)
EXTENDS Outputs, SacnStream, FiniteSetTheorems, TLAPS

Threads == [of : Rows \cup {None}, kind : Kinds, stop : BOOLEAN,
            fed : BOOLEAN, at : {"none", "running", "done"},
            open : BOOLEAN, status : Lights,
            retry : 0 .. MaxDelay, delay : 1 .. MaxDelay, look : Looks,
            age : {Never} \cup 0 .. Refresh, wrong : 0 .. Refresh]

LEMMA Constants ==
    /\ Refresh \in Nat \ {0} /\ MaxDelay \in Nat \ {0} /\ Places \in Nat /\ Timeout \in Nat
    /\ Dark \in Looks /\ None \notin Rows /\ IsFiniteSet(Slots)
  BY OutputsAssumption

-----------------------------------------------------------------------------
(* The inductive invariant                                                 *)

\* The crew: a row has one thread at most, stopping ones included; the places
\* are held by the threads nobody has stopped, and one thread at a time is
\* waited for.
FleetInv ==
    /\ \A s \in Running : thr[s].of \in Rows
    /\ \A s \in Slots : thr[s].at = "done" => thr[s].stop
    /\ \A s \in Slots : thr[s].stop => sup.at = "joining" /\ s \in Running
    /\ \A s, q \in Slots : thr[s].stop /\ thr[q].stop => s = q
    /\ \A s, q \in Running : thr[s].of = thr[q].of => s = q
    /\ taken = {s \in Running : ~thr[s].stop}
    /\ Cardinality(taken) <= Places

\* What reconcile still has to do: stop each thread that no longer matches its
\* row, and then start a thread for each row that has none.
Undriven(o) == \A s \in Running : thr[s].of # o
Matches(s) == rig[thr[s].of] = [kind |-> thr[s].kind, enabled |-> TRUE]
Settled(o) == rig[o].enabled /\ Undriven(o)
                => o \in sup.todo \cup sup.failed \/ Cardinality(taken) = Places
PlanInv ==
    /\ \A s \in taken : Matches(s) \/ s \in sup.leaving
    /\ sup.leaving \subseteq taken
    /\ sup.at \notin {"stopping", "joining"} => sup.leaving = {}
    /\ \A o \in sup.todo : sup.at = "starting" /\ rig[o].enabled /\ Undriven(o)
    /\ sup.at \in {"starting", "closing", "idle"} => \A o \in Rows : Settled(o)

\* How long a receiver may have held another look under a green light: no longer
\* than since the last frame that every receiver took.
Sound(t, row) ==
    /\ ~t.open \/ t.age = Never => t.wrong = 0
    /\ t.kind = "sacn" => t.wrong <= Refresh - 1 /\ (t.age # Never => t.wrong <= t.age)
    /\ t.kind # "sacn" => t.wrong = 0
    /\ t.kind = "artnet" /\ t.at = "running" /\ t.age # Never
         => \A r \in Receivers : row[r] = t.look
SignalInv == \A s \in Running : Sound(thr[s], held[thr[s].of])

\* The table listens while the socket is open, and says what was heard there.
DiscoInv ==
    /\ disco.handle <=> disco.at # "none"
    /\ table.listening <=> disco.at = "serving"
    /\ disco.at = "serving" => table.heard = disco.heard
    /\ sup.at = "idle" /\ ArtNet = {} => ~disco.handle

Inv == TypeOK /\ FleetInv /\ PlanInv /\ SignalInv /\ DiscoInv

-----------------------------------------------------------------------------
(* What the steps of a driver do to its record                             *)

Same(u, t) == u.of = t.of /\ u.kind = t.kind /\ u.stop = t.stop /\ u.at = t.at

LEMMA OlderDoes ==
    ASSUME NEW t \in Threads
    PROVE  /\ Older(t) \in Threads /\ Same(Older(t), t) /\ Older(t).open = t.open
           /\ Older(t).look = t.look /\ Older(t).wrong = t.wrong
           /\ Older(t).age = IF t.age = Never \/ t.age = Refresh THEN t.age ELSE t.age + 1
<1> DEFINE a == IF t.age = Never \/ t.age = Refresh THEN t.age ELSE t.age + 1
<1>1. a \in {Never} \cup 0 .. Refresh
  <2>1. t.age \in {Never} \cup 0 .. Refresh
    BY DEF Threads
  <2> QED BY <2>1, Constants DEF Never
<1>2. Older(t) = [t EXCEPT !.age = a]
  BY DEF Older
<1> HIDE DEF a
<1>3. Older(t) \in Threads /\ Older(t).age = a
  BY <1>1, <1>2 DEF Threads
<1>4. Same(Older(t), t) /\ Older(t).open = t.open
      /\ Older(t).look = t.look /\ Older(t).wrong = t.wrong
  BY <1>2 DEF Threads, Same
<1> QED BY <1>3, <1>4 DEF a

LEMMA CleanDoes ==
    ASSUME NEW t \in Threads, NEW ok
    PROVE  /\ Clean(t, ok) \in Threads /\ Same(Clean(t, ok), t) /\ Clean(t, ok).open = t.open
           /\ Clean(t, ok).look = t.look /\ Clean(t, ok).age = t.age
           /\ ok => Clean(t, ok).wrong = 0
           /\ Clean(t, ok).wrong <= t.wrong + 1
<1> DEFINE w == IF ok THEN 0 ELSE IF t.wrong = Refresh THEN t.wrong ELSE t.wrong + 1
<1>1. t.wrong \in 0 .. Refresh /\ Refresh \in Nat
  BY Constants DEF Threads
<1>2. w \in 0 .. Refresh /\ (ok => w = 0) /\ w <= t.wrong + 1
  <2>1. CASE ok
    BY <1>1, <2>1
  <2>2. CASE ~ok
    <3>1. w = IF t.wrong = Refresh THEN t.wrong ELSE t.wrong + 1
      BY <2>2
    <3> QED BY <1>1, <2>2, <3>1
  <2> QED BY <2>1, <2>2
<1>3. Clean(t, ok) = [t EXCEPT !.status = "Ok", !.wrong = w]
  BY DEF Clean
<1> HIDE DEF w
<1>4. Clean(t, ok) \in Threads /\ Clean(t, ok).wrong = w
  BY <1>2, <1>3 DEF Threads, Lights
<1>5. Same(Clean(t, ok), t) /\ Clean(t, ok).open = t.open
      /\ Clean(t, ok).look = t.look /\ Clean(t, ok).age = t.age
  BY <1>3 DEF Threads, Same
<1> QED BY <1>2, <1>4, <1>5

LEMMA DownDoes ==
    ASSUME NEW t \in Threads
    PROVE  /\ Down(t) \in Threads /\ Same(Down(t), t) /\ ~Down(t).open
           /\ Down(t).wrong = 0 /\ Down(t).age = Never
<1>1. /\ t.delay \in 1 .. MaxDelay /\ t.delay \in 0 .. MaxDelay /\ Refresh \in Nat \ {0}
      /\ MaxDelay \in Nat \ {0} /\ Dark \in Looks
  BY Constants DEF Threads
<1>2. Longer(t.delay) \in 1 .. MaxDelay
  BY <1>1 DEF Longer
<1>3. 0 \in 0 .. Refresh
  BY <1>1
<1> QED BY <1>1, <1>2, <1>3 DEF Down, Threads, Same

LEMMA RefusedDoes ==
    ASSUME NEW t \in Threads, NEW look \in Looks
    PROVE  /\ Refused(t, look) \in Threads /\ Same(Refused(t, look), t)
           /\ Refused(t, look).open = t.open
           /\ t.kind = "artnet" => Refused(t, look).age = Never
           /\ t.kind # "artnet" => Refused(t, look) = t
  BY DEF Refused, Threads, Same

\* What the receivers of a row hold stays a look or nothing, and no other row's
\* receivers hear of it.
LEMMA HearsDoes ==
    ASSUME TypeOK, NEW o \in Rows, NEW look \in Looks \cup {Nothing},
           NEW some \in SUBSET Receivers, held' = Hears(o, look, some)
    PROVE  /\ held' \in [Rows -> [Receivers -> Looks \cup {Nothing}]]
           /\ \A p \in Rows \ {o} : held'[p] = held[p]
           /\ \A r \in some : held'[o][r] = look
  BY DEF Hears, TypeOK

\* Every step of a driver leaves who is who, and every other row, alone.
Drives(s, u) ==
    /\ u \in Threads /\ thr' = [thr EXCEPT ![s] = u]
    /\ u.of = thr[s].of /\ u.kind = thr[s].kind /\ u.stop = thr[s].stop
    /\ thr[s].at = "running" /\ u.at \in {"running", "done"} /\ (u.at = "done" => u.stop)
    /\ held' \in [Rows -> [Receivers -> Looks \cup {Nothing}]]
    /\ \A p \in Rows \ {thr[s].of} : held'[p] = held[p]
    /\ Sound(u, held'[u.of])
    /\ UNCHANGED <<supVars, frame, discoVars>>

LEMMA DriverDoes ==
    ASSUME Inv, NEW s \in Slots, Driver(s)
    PROVE  \E u : Drives(s, u)
<1> DEFINE t == thr[s]
<1>0. /\ TypeOK /\ t \in Threads /\ frame \in Looks /\ Dark \in Looks
      /\ held \in [Rows -> [Receivers -> Looks \cup {Nothing}]] /\ thr \in [Slots -> Threads]
  BY Constants DEF Inv, TypeOK, Threads
<1>1. t.at = "running"
  BY DEF Driver, Hold, Send, SendPanics, Wait, Connect, Finish, Awake
<1>2. s \in Running /\ t.of \in Rows /\ Sound(t, held[t.of])
  BY <1>1 DEF Inv, FleetInv, SignalInv, Running
<1>3. /\ t.age \in {Never} \cup 0 .. Refresh /\ t.wrong \in 0 .. Refresh /\ Refresh \in Nat \ {0}
      /\ t.look \in Looks /\ t.kind \in Kinds
  BY <1>0, Constants DEF Threads
<1>4. \A look \in Newest(s) : look \in Looks
  BY <1>0, <1>3 DEF Newest
<1> HIDE DEF t
<1> DEFINE Here(u) == /\ u \in Threads /\ Same(u, t) /\ thr' = [thr EXCEPT ![s] = u]
                      /\ UNCHANGED <<supVars, frame, discoVars>>
<1>5. ASSUME NEW u, Here(u), held' = held, Sound(u, held[t.of]) PROVE \E v : Drives(s, v)
  <2>1. Drives(s, u)
    BY <1>0, <1>1, <1>5 DEF Drives, Same, t
  <2> QED BY <2>1
<1>6. CASE Hold(s)
  <2>1. PICK look \in Newest(s) :
          /\ ~Due(t, look) /\ t.open
          /\ thr' = [thr EXCEPT ![s] = Clean(Older(t), \A r \in Receivers : held[t.of][r] = look)]
    BY <1>6 DEF Hold, Become, t
  <2> DEFINE ok == \A r \in Receivers : held[t.of][r] = look
             u == Clean(Older(t), ok)
  <2>2. t.kind # "opendmx" /\ t.age # Never /\ t.look = look /\ t.age + 1 < Refresh
    BY <1>3, <2>1 DEF Due, Never
  <2>3. /\ Older(t) \in Threads /\ Same(Older(t), t) /\ Older(t).open
        /\ Older(t).look = look /\ Older(t).wrong = t.wrong /\ Older(t).age = t.age + 1
    BY <1>0, <1>3, <2>1, <2>2, OlderDoes
  <2> HIDE DEF ok
  <2>4. /\ u \in Threads /\ Same(u, t) /\ u.open /\ u.look = look /\ u.age = t.age + 1
        /\ ok => u.wrong = 0
        /\ u.wrong <= t.wrong + 1
    BY <2>3, CleanDoes DEF Same
  <2>5. UNCHANGED <<supVars, held, frame, discoVars>> /\ thr' = [thr EXCEPT ![s] = u]
    BY <1>6, <2>1 DEF Hold, ok
  <2> HIDE DEF u
  <2>6. u.wrong \in 0 .. Refresh /\ u.age # Never
    BY <1>3, <2>2, <2>4 DEF Threads, Never
  <2>7. CASE t.kind = "sacn"
    <3>1. t.wrong <= t.age /\ u.kind = "sacn"
      BY <1>2, <2>2, <2>4, <2>7 DEF Sound, Same
    <3>2. u.wrong <= u.age /\ u.wrong <= Refresh - 1
      BY <1>3, <2>2, <2>4, <2>6, <3>1 DEF Never
    <3>3. Sound(u, held[t.of])
      BY <2>4, <2>6, <3>1, <3>2 DEF Sound
    <3> QED BY <1>5, <2>4, <2>5, <3>3
  <2>8. CASE t.kind = "artnet"
    <3>1. ok /\ u.kind = "artnet"
      BY <1>1, <1>2, <2>2, <2>4, <2>8 DEF Sound, Same, ok
    <3>2. u.wrong = 0
      BY <2>4, <3>1
    <3>3. Sound(u, held[t.of])
      BY <2>4, <3>1, <3>2 DEF Sound, ok
    <3> QED BY <1>5, <2>4, <2>5, <3>3
  <2> QED BY <1>3, <2>2, <2>7, <2>8 DEF Kinds
<1>7. CASE Send(s)
  <2>1. PICK look \in Newest(s), got \in SUBSET Receivers :
          /\ t.open /\ Taken(t, got) /\ held' = Hears(t.of, look, got)
          /\ \/ /\ got = Receivers
                /\ thr' = [thr EXCEPT ![s] = Clean([t EXCEPT !.look = look, !.age = 0], TRUE)]
             \/ thr' = [thr EXCEPT ![s] = [Refused(Older(t), look) EXCEPT
                                              !.status = "Degraded", !.wrong = 0]]
                /\ got # Receivers
             \/ thr' = [thr EXCEPT ![s] = [Down(Refused(Older(t), look)) EXCEPT
                                              !.status = "Disconnected"]]
                /\ got # Receivers
    BY <1>7 DEF Send, Become, t
  <2>2. /\ held' \in [Rows -> [Receivers -> Looks \cup {Nothing}]]
        /\ \A p \in Rows \ {t.of} : held'[p] = held[p]
        /\ \A r \in got : held'[t.of][r] = look
    BY <1>0, <1>2, <1>4, <2>1, HearsDoes
  <2>3. UNCHANGED <<supVars, frame, discoVars>>
    BY <1>7 DEF Send
  <2>4. ASSUME NEW u, u \in Threads, Same(u, t), thr' = [thr EXCEPT ![s] = u],
               Sound(u, held'[t.of])
        PROVE  \E v : Drives(s, v)
    <3>1. Drives(s, u)
      BY <1>0, <1>1, <2>2, <2>3, <2>4 DEF Drives, Same, t
    <3> QED BY <3>1
  <2>r. /\ Refused(Older(t), look) \in Threads /\ Same(Refused(Older(t), look), t)
        /\ t.kind = "artnet" => Refused(Older(t), look).age = Never
    <3>1. Older(t) \in Threads /\ Same(Older(t), t) /\ look \in Looks
      BY <1>0, <1>4, OlderDoes
    <3>2. /\ Refused(Older(t), look) \in Threads /\ Same(Refused(Older(t), look), Older(t))
          /\ Older(t).kind = "artnet" => Refused(Older(t), look).age = Never
      BY <3>1, RefusedDoes
    <3> QED BY <3>1, <3>2 DEF Same
  <2>5. CASE got = Receivers
             /\ thr' = [thr EXCEPT ![s] = Clean([t EXCEPT !.look = look, !.age = 0], TRUE)]
    <3> DEFINE v == [t EXCEPT !.look = look, !.age = 0]
               u == Clean(v, TRUE)
    <3>1. v \in Threads /\ Same(v, t) /\ v.look = look /\ v.age = 0
      <4>1. 0 \in {Never} \cup 0 .. Refresh
        BY <1>3
      <4> QED BY <1>0, <1>4, <4>1 DEF Threads, Same
    <3> HIDE DEF v
    <3>2. u \in Threads /\ Same(u, t) /\ u.look = look /\ u.age = 0 /\ u.wrong = 0
      BY <3>1, CleanDoes DEF Same
    <3>3. thr' = [thr EXCEPT ![s] = u]
      BY <2>5 DEF v
    <3> HIDE DEF u
    <3>4. Sound(u, held'[t.of])
      BY <1>3, <2>2, <2>5, <3>2 DEF Sound, Same, Never
    <3> QED BY <2>4, <3>2, <3>3, <3>4
  <2>6. CASE got # Receivers
             /\ thr' = [thr EXCEPT ![s] = [Refused(Older(t), look) EXCEPT
                                              !.status = "Degraded", !.wrong = 0]]
    <3> DEFINE v == Refused(Older(t), look)
               u == [v EXCEPT !.status = "Degraded", !.wrong = 0]
    <3>1. v \in Threads /\ Same(v, t) /\ (t.kind = "artnet" => v.age = Never)
      BY <2>r DEF Same
    <3> HIDE DEF v
    <3>2. u \in Threads /\ Same(u, t) /\ (t.kind = "artnet" => u.age = Never) /\ u.wrong = 0
      <4>1. 0 \in 0 .. Refresh /\ "Degraded" \in Lights
        BY <1>3 DEF Lights
      <4> QED BY <3>1, <4>1 DEF Threads, Same
    <3>3. thr' = [thr EXCEPT ![s] = u]
      BY <2>6 DEF v
    <3> HIDE DEF u
    <3>4. u.age \in {Never} \cup 0 .. Refresh
      BY <3>2 DEF Threads
    <3>5. Sound(u, held'[t.of])
      BY <1>3, <3>2, <3>4 DEF Sound, Same, Never
    <3> QED BY <2>4, <3>2, <3>3, <3>5
  <2>7. CASE got # Receivers
             /\ thr' = [thr EXCEPT ![s] = [Down(Refused(Older(t), look)) EXCEPT
                                              !.status = "Disconnected"]]
    <3> DEFINE v == Down(Refused(Older(t), look))
               u == [v EXCEPT !.status = "Disconnected"]
    <3>1. v \in Threads /\ Same(v, t) /\ v.age = Never /\ v.wrong = 0 /\ ~v.open
      BY <2>r, DownDoes DEF Same
    <3> HIDE DEF v
    <3>2. u \in Threads /\ Same(u, t) /\ u.age = Never /\ u.wrong = 0
      BY <3>1 DEF Threads, Same, Lights
    <3>3. thr' = [thr EXCEPT ![s] = u]
      BY <2>7 DEF v
    <3> HIDE DEF u
    <3>4. Sound(u, held'[t.of])
      BY <1>3, <3>2 DEF Sound, Same
    <3> QED BY <2>4, <3>2, <3>3, <3>4
  <2> QED BY <2>1, <2>5, <2>6, <2>7
<1>8. CASE SendPanics(s)
  <2> DEFINE v == Older(t)
             u == [v EXCEPT !.status = "Degraded", !.wrong = 0]
  <2>1. /\ v \in Threads /\ Same(v, t) /\ v.look = t.look
        /\ (v.age = Never <=> t.age = Never)
    BY <1>0, <1>3, OlderDoes DEF Never
  <2> HIDE DEF v
  <2>2. /\ u \in Threads /\ Same(u, t) /\ u.look = t.look /\ u.wrong = 0 /\ u.age = v.age
    <3>1. 0 \in 0 .. Refresh /\ "Degraded" \in Lights
      BY <1>3 DEF Lights
    <3> QED BY <2>1, <3>1 DEF Threads, Same
  <2>3. UNCHANGED <<supVars, held, frame, discoVars>> /\ thr' = [thr EXCEPT ![s] = u]
    BY <1>8 DEF SendPanics, Become, t, v
  <2> HIDE DEF u
  <2>4. u.age \in {Never} \cup 0 .. Refresh
    BY <2>2 DEF Threads
  <2>5. Sound(u, held[t.of])
    BY <1>1, <1>2, <1>3, <2>1, <2>2, <2>4 DEF Sound, Same, Never
  <2> QED BY <1>5, <2>2, <2>3, <2>5
<1>9. CASE Wait(s)
  <2> DEFINE u == [t EXCEPT !.retry = t.retry - 1]
  <2>1. t.retry \in 0 .. MaxDelay /\ t.retry > 0
    BY <1>0, <1>9 DEF Wait, Threads, t
  <2>2. t.retry - 1 \in 0 .. MaxDelay
    BY <2>1, Constants
  <2>3. /\ u \in Threads /\ Same(u, t) /\ u.open = t.open /\ u.age = t.age
        /\ u.wrong = t.wrong /\ u.look = t.look
    BY <1>0, <2>2 DEF Threads, Same
  <2>4. UNCHANGED <<supVars, held, frame, discoVars>> /\ thr' = [thr EXCEPT ![s] = u]
    BY <1>9 DEF Wait, Become, t
  <2> HIDE DEF u
  <2>5. Sound(u, held[t.of])
    BY <1>2, <2>3 DEF Sound, Same
  <2> QED BY <1>5, <2>3, <2>4, <2>5
<1>10. CASE Connect(s)
  <2>0. /\ UNCHANGED <<supVars, held, frame, discoVars>> /\ ~t.open /\ t.wrong = 0
        /\ \/ thr' = [thr EXCEPT ![s] = [t EXCEPT !.open = TRUE, !.status = "Ok",
                                                  !.delay = 1, !.age = Never]]
           \/ \E light \in {"Disconnected", "Degraded"} :
                thr' = [thr EXCEPT ![s] = [Down(t) EXCEPT !.status = light]]
    BY <1>2, <1>10 DEF Connect, Become, Sound, t
  <2>1. CASE thr' = [thr EXCEPT ![s] = [t EXCEPT !.open = TRUE, !.status = "Ok",
                                                  !.delay = 1, !.age = Never]]
    <3> DEFINE u == [t EXCEPT !.open = TRUE, !.status = "Ok", !.delay = 1, !.age = Never]
    <3>1. u \in Threads /\ Same(u, t) /\ u.age = Never /\ u.wrong = 0
      <4>1. 1 \in 1 .. MaxDelay
        BY Constants
      <4> QED BY <1>0, <2>0, <4>1 DEF Threads, Same, Lights
    <3>2. thr' = [thr EXCEPT ![s] = u]
      BY <2>1
    <3> HIDE DEF u
    <3>3. Sound(u, held[t.of])
      BY <1>3, <3>1 DEF Sound
    <3> QED BY <1>5, <2>0, <3>1, <3>2, <3>3
  <2>2. ASSUME NEW light \in {"Disconnected", "Degraded"},
               thr' = [thr EXCEPT ![s] = [Down(t) EXCEPT !.status = light]]
        PROVE  \E v : Drives(s, v)
    <3> DEFINE v == Down(t)
               u == [v EXCEPT !.status = light]
    <3>1. v \in Threads /\ Same(v, t) /\ v.age = Never /\ v.wrong = 0
      BY <1>0, DownDoes
    <3> HIDE DEF v
    <3>2. u \in Threads /\ Same(u, t) /\ u.age = Never /\ u.wrong = 0
      BY <2>2, <3>1 DEF Threads, Same, Lights
    <3>3. thr' = [thr EXCEPT ![s] = u]
      BY <2>2 DEF v
    <3> HIDE DEF u
    <3>4. Sound(u, held[t.of])
      BY <1>3, <3>2 DEF Sound
    <3> QED BY <1>5, <2>0, <3>2, <3>3, <3>4
  <2> QED BY <2>0, <2>1, <2>2
<1>11. CASE Finish(s)
  <2> DEFINE u == [t EXCEPT !.at = "done", !.status = "Disconnected"]
  <2>1. /\ t.stop /\ thr' = [thr EXCEPT ![s] = u]
        /\ UNCHANGED <<supVars, frame, discoVars>>
        /\ \E got \in SUBSET Receivers : held' = Ended(t, got)
    BY <1>11 DEF Finish, Become, t
  <2> PICK got \in SUBSET Receivers : held' = Ended(t, got)
    BY <2>1
  <2>2. /\ u \in Threads /\ u.of = t.of /\ u.kind = t.kind /\ u.stop = t.stop /\ u.at = "done"
        /\ u.wrong = t.wrong /\ u.age = t.age /\ u.open = t.open
    BY <1>0 DEF Threads, Lights
  <2>3. /\ held' \in [Rows -> [Receivers -> Looks \cup {Nothing}]]
        /\ \A p \in Rows \ {t.of} : held'[p] = held[p]
    <3>1. CASE held' = held
      BY <1>0, <3>1
    <3>2. CASE held' = Hears(t.of, Nothing, got)
      <4>1. TypeOK /\ t.of \in Rows /\ Nothing \in Looks \cup {Nothing}
        BY <1>0, <1>2
      <4> QED BY ONLY <3>2, <4>1, HearsDoes, got \in SUBSET Receivers
    <3> QED BY <2>1, <3>1, <3>2 DEF Ended
  <2> HIDE DEF u
  <2>4. Sound(u, held'[u.of])
    BY <1>2, <2>2 DEF Sound
  <2>5. Drives(s, u)
    BY <1>0, <1>1, <2>1, <2>2, <2>3, <2>4 DEF Drives, t
  <2> QED BY <2>5
<1> QED BY <1>6, <1>7, <1>8, <1>9, <1>10, <1>11 DEF Driver

-----------------------------------------------------------------------------
(* Every step preserves the invariant                                      *)

\* The crew goes on as it was: who drives which row, and who is to stop.
SameCrew == \A s \in Slots : /\ thr'[s].of = thr[s].of /\ thr'[s].kind = thr[s].kind
                             /\ thr'[s].stop = thr[s].stop
                             /\ thr'[s].at = "none" <=> thr[s].at = "none"
                             /\ thr'[s].at = "done" => thr[s].at = "done" \/ thr[s].stop

LEMMA CrewStays ==
    ASSUME FleetInv, PlanInv, SameCrew, UNCHANGED supVars
    PROVE  /\ FleetInv' /\ PlanInv' /\ Running' = Running
<1>1. UNCHANGED <<rig, sup, taken>>
  BY DEF supVars
<1>2. Running' = Running
  BY DEF Running, SameCrew
<1>3. \A s \in Running : s \in Slots
  BY DEF Running
<1>4. FleetInv'
  BY <1>1, <1>2, <1>3 DEF FleetInv, SameCrew
<1>5. \A o \in Rows : Undriven(o)' <=> Undriven(o)
  BY <1>2, <1>3 DEF Undriven, SameCrew
<1>6. \A s \in Running : Matches(s)' <=> Matches(s)
  BY <1>1, <1>2, <1>3 DEF Matches, SameCrew
<1>7. \A s \in taken : s \in Running
  BY DEF FleetInv
<1>8. \A o : Undriven(o)' <=> Undriven(o)
  BY <1>2, <1>3 DEF Undriven, SameCrew
<1>9. PlanInv'
  BY <1>1, <1>6, <1>7, <1>8 DEF PlanInv, Settled
<1> QED BY <1>2, <1>4, <1>9

LEMMA DriverStep ==
    ASSUME Inv, NEW s \in Slots, Driver(s)
    PROVE  Inv'
<1>1. PICK u : Drives(s, u)
  BY DriverDoes
<1>0. TypeOK /\ FleetInv /\ PlanInv /\ SignalInv /\ DiscoInv /\ thr \in [Slots -> Threads]
  BY DEF Inv, TypeOK, Threads
<1>2. thr'[s] = u /\ \A q \in Slots \ {s} : thr'[q] = thr[q]
  BY <1>0, <1>1 DEF Drives
<1>3. SameCrew /\ UNCHANGED supVars
  BY <1>1, <1>2 DEF SameCrew, Drives
<1>4. FleetInv' /\ PlanInv' /\ Running' = Running
  BY <1>0, <1>3, CrewStays
<1>5. thr' \in [Slots -> Threads]
  BY <1>0, <1>1 DEF Drives
<1>6. TypeOK'
  BY <1>0, <1>1, <1>5 DEF TypeOK, Drives, Threads, supVars, discoVars
<1>7. SignalInv'
  <2> SUFFICES ASSUME NEW q \in Running PROVE Sound(thr'[q], held'[thr'[q].of])
    BY <1>4 DEF SignalInv
  <2>0. q \in Slots /\ s \in Running /\ thr[s].of \in Rows /\ thr[q].of \in Rows
    BY <1>0, <1>1 DEF Running, Drives, FleetInv
  <2>1. CASE q = s
    BY <1>1, <1>2, <2>1 DEF Drives
  <2>2. CASE q # s
    <3>1. thr[q].of # thr[s].of
      BY <1>0, <2>0, <2>2 DEF FleetInv
    <3>2. held'[thr[q].of] = held[thr[q].of] /\ thr'[q] = thr[q]
      BY <1>1, <1>2, <2>0, <2>2, <3>1 DEF Drives
    <3> QED BY <1>0, <3>2 DEF SignalInv
  <2> QED BY <2>1, <2>2
<1>8. DiscoInv'
  BY <1>0, <1>1 DEF Drives, DiscoInv, supVars, discoVars, ArtNet
<1> QED BY <1>4, <1>6, <1>7, <1>8 DEF Inv

LEMMA PublishStep ==
    ASSUME Inv, NEW look \in Looks, Publish(look)
    PROVE  Inv'
<1>0. TypeOK /\ FleetInv /\ PlanInv /\ SignalInv /\ DiscoInv /\ thr \in [Slots -> Threads]
  BY DEF Inv, TypeOK, Threads
<1>1. /\ frame' = look /\ UNCHANGED <<supVars, held, discoVars>>
      /\ thr' = [s \in Slots |-> IF s \in taken THEN [thr[s] EXCEPT !.fed = TRUE] ELSE thr[s]]
  BY DEF Publish
<1>2. ASSUME NEW s \in Slots
      PROVE  /\ thr'[s] \in Threads /\ Same(thr'[s], thr[s])
             /\ thr'[s].open = thr[s].open /\ thr'[s].age = thr[s].age
             /\ thr'[s].wrong = thr[s].wrong /\ thr'[s].look = thr[s].look
  <2>1. thr[s] \in Threads
    BY <1>0
  <2>2. thr'[s] = [thr[s] EXCEPT !.fed = TRUE] \/ thr'[s] = thr[s]
    BY <1>1
  <2> QED BY <2>1, <2>2 DEF Threads, Same
<1>3. thr' \in [Slots -> Threads]
  BY <1>1, <1>2
<1>4. FleetInv' /\ PlanInv' /\ Running' = Running
  BY <1>0, <1>1, <1>2, CrewStays DEF SameCrew, Same
<1>5. TypeOK'
  BY <1>0, <1>1, <1>3 DEF TypeOK, Threads, supVars, discoVars
<1>6. SignalInv'
  BY <1>0, <1>1, <1>2, <1>4 DEF SignalInv, Sound, Same, Running
<1>7. DiscoInv'
  BY <1>0, <1>1 DEF DiscoInv, supVars, discoVars, ArtNet
<1> QED BY <1>4, <1>5, <1>6, <1>7 DEF Inv

\* Nobody stops or starts while reconcile stands idle, starts threads or closes.
LEMMA NobodyStops ==
    ASSUME FleetInv, sup.at # "joining"
    PROVE  taken = Running /\ \A s \in Slots : ~thr[s].stop
  BY DEF FleetInv, Running

LEMMA CommandStep ==
    ASSUME Inv, NEW o \in Rows, NEW row \in Settings \cup {Absent}, Command(o, row)
    PROVE  Inv'
<1>0. TypeOK /\ FleetInv /\ PlanInv /\ SignalInv /\ DiscoInv
  BY DEF Inv
<1>1. /\ sup.at = "idle" /\ rig' = [rig EXCEPT ![o] = row]
      /\ sup' = [Idle EXCEPT !.at = "stopping", !.leaving = Leaving(rig'),
                             !.failed = sup.failed]
      /\ UNCHANGED <<taken, thr, held, frame, discoVars>>
  BY DEF Command
<1>2. Leaving(rig') \subseteq Running /\ Running' = Running /\ Running \subseteq Slots
  BY <1>1 DEF Leaving, Running
<1>3. /\ sup'.at = "stopping" /\ sup'.leaving = Leaving(rig') /\ sup'.todo = {}
      /\ sup'.failed = sup.failed
  BY <1>1 DEF Idle
<1>4. sup' \in [at : {"idle", "stopping", "joining", "starting", "closing"},
                leaving : SUBSET Slots, todo : SUBSET Rows, failed : SUBSET Rows]
  <2>1. sup.failed \in SUBSET Rows
    BY <1>0 DEF TypeOK
  <2> QED BY <1>1, <1>2, <2>1 DEF Idle
<1>5. TypeOK'
  BY <1>0, <1>1, <1>4 DEF TypeOK, discoVars
<1>6. taken = Running /\ \A s \in Slots : ~thr[s].stop
  BY <1>0, <1>1, NobodyStops
<1>7. FleetInv'
  BY <1>0, <1>1, <1>2, <1>6 DEF FleetInv
<1>8. PlanInv'
  <2>1. \A s \in taken' : Matches(s)' \/ s \in sup'.leaving
    BY <1>1, <1>2, <1>3, <1>6 DEF Matches, Leaving
  <2> QED BY <1>1, <1>2, <1>3, <1>6, <2>1 DEF PlanInv
<1>9. SignalInv' /\ DiscoInv'
  BY <1>0, <1>1, <1>2, <1>3 DEF SignalInv, DiscoInv, discoVars
<1> QED BY <1>5, <1>7, <1>8, <1>9 DEF Inv

LEMMA StopOneStep ==
    ASSUME Inv, NEW s \in Slots, StopOne(s)
    PROVE  Inv'
<1>0. TypeOK /\ FleetInv /\ PlanInv /\ SignalInv /\ DiscoInv /\ thr \in [Slots -> Threads]
      /\ IsFiniteSet(Slots) /\ Places \in Nat
  BY Constants DEF Inv, TypeOK, Threads
<1>1. /\ sup.at = "stopping" /\ s \in sup.leaving /\ taken' = taken \ {s}
      /\ thr' = [thr EXCEPT ![s] = [thr[s] EXCEPT !.stop = TRUE]]
      /\ sup' = [sup EXCEPT !.at = "joining", !.leaving = sup.leaving \ {s}]
      /\ UNCHANGED <<rig, held, frame, discoVars>>
  BY DEF StopOne, Become
<1>2. /\ sup'.at = "joining" /\ sup'.leaving = sup.leaving \ {s} /\ sup'.todo = sup.todo
      /\ sup' \in [at : {"idle", "stopping", "joining", "starting", "closing"},
                   leaving : SUBSET Slots, todo : SUBSET Rows, failed : SUBSET Rows]
  BY <1>0, <1>1 DEF TypeOK
<1>3. /\ thr' \in [Slots -> Threads] /\ \A q \in Slots \ {s} : thr'[q] = thr[q]
      /\ thr'[s] = [thr[s] EXCEPT !.stop = TRUE]
  <2>1. [thr[s] EXCEPT !.stop = TRUE] \in Threads
    BY <1>0 DEF Threads
  <2> QED BY <1>0, <1>1, <2>1
<1>4. /\ thr'[s].stop /\ thr'[s].of = thr[s].of /\ thr'[s].kind = thr[s].kind
      /\ thr'[s].at = thr[s].at /\ thr'[s].open = thr[s].open /\ thr'[s].age = thr[s].age
      /\ thr'[s].wrong = thr[s].wrong /\ thr'[s].look = thr[s].look
  BY <1>0, <1>3 DEF Threads
<1>5. taken = Running /\ (\A q \in Slots : ~thr[q].stop) /\ Running' = Running
      /\ s \in Running
  BY <1>0, <1>1, <1>3, <1>4, NobodyStops DEF PlanInv, Running
<1>6. TypeOK'
  BY <1>0, <1>1, <1>2, <1>3 DEF TypeOK, Threads, discoVars
<1>7. Cardinality(taken') <= Places
  <2>1. IsFiniteSet(taken) /\ Cardinality(taken) <= Places
    BY <1>0, <1>5, FS_Subset DEF FleetInv, Running
  <2>2. Cardinality(taken') <= Cardinality(taken)
    BY <1>1, <2>1, FS_Subset
  <2>3. Cardinality(taken) \in Nat /\ Cardinality(taken') \in Nat
    BY <1>1, <2>1, FS_CardinalityType, FS_Subset
  <2> QED BY <1>0, <2>1, <2>2, <2>3
<1>8. FleetInv'
  BY <1>0, <1>1, <1>2, <1>3, <1>4, <1>5, <1>7 DEF FleetInv, Running
<1>9. PlanInv'
  <2>1. \A q \in taken' : Matches(q)' <=> Matches(q)
    BY <1>1, <1>3, <1>5 DEF Matches, Running
  <2>2. sup.todo = {}
    BY <1>0, <1>1 DEF PlanInv
  <2> QED BY <1>0, <1>1, <1>2, <2>1, <2>2 DEF PlanInv
<1>10. SignalInv'
  BY <1>0, <1>1, <1>3, <1>4, <1>5 DEF SignalInv, Sound, Running
<1>11. DiscoInv'
  BY <1>0, <1>1, <1>2 DEF DiscoInv, discoVars
<1> QED BY <1>6, <1>8, <1>9, <1>10, <1>11 DEF Inv

LEMMA JoinStep ==
    ASSUME Inv, NEW s \in Slots, Join(s)
    PROVE  Inv'
<1>0. TypeOK /\ FleetInv /\ PlanInv /\ SignalInv /\ DiscoInv /\ thr \in [Slots -> Threads]
  BY DEF Inv, TypeOK, Threads
<1>1. /\ sup.at = "joining" /\ thr[s].at = "done"
      /\ thr' = [thr EXCEPT ![s] = NoThread] /\ sup' = [sup EXCEPT !.at = "stopping"]
      /\ held' = Hears(thr[s].of, Nothing, Receivers)
      /\ UNCHANGED <<rig, taken, frame, discoVars>>
  BY DEF Join, Become
<1>2. /\ sup'.at = "stopping" /\ sup'.leaving = sup.leaving /\ sup'.todo = sup.todo
      /\ sup' \in [at : {"idle", "stopping", "joining", "starting", "closing"},
                   leaving : SUBSET Slots, todo : SUBSET Rows, failed : SUBSET Rows]
  BY <1>0, <1>1 DEF TypeOK
<1>3. NoThread \in Threads /\ NoThread.at = "none" /\ ~NoThread.stop
  <2>1. /\ 0 \in 0 .. MaxDelay /\ 1 \in 1 .. MaxDelay /\ 0 \in 0 .. Refresh /\ Dark \in Looks
    BY Constants
  <2> QED BY <2>1 DEF NoThread, NewThread, Threads, Kinds, Lights
<1>4. /\ thr' \in [Slots -> Threads] /\ thr'[s] = NoThread
      /\ \A q \in Slots \ {s} : thr'[q] = thr[q]
  BY <1>0, <1>1, <1>3
<1>5. thr[s].stop /\ s \in Running /\ s \notin taken /\ thr[s].of \in Rows
  BY <1>0, <1>1 DEF FleetInv, Running
<1>6. Running' = Running \ {s} /\ \A q \in Slots : ~thr'[q].stop
  BY <1>0, <1>3, <1>4, <1>5 DEF Running, FleetInv
<1>7. /\ held' \in [Rows -> [Receivers -> Looks \cup {Nothing}]]
      /\ \A p \in Rows \ {thr[s].of} : held'[p] = held[p]
  BY <1>0, <1>1, <1>5, HearsDoes
<1>8. TypeOK'
  BY <1>0, <1>1, <1>2, <1>4, <1>7 DEF TypeOK, Threads, discoVars
<1>9. FleetInv'
  BY <1>0, <1>1, <1>2, <1>4, <1>5, <1>6 DEF FleetInv, Running
<1>10. PlanInv'
  <2>1. \A q \in taken : Matches(q)' <=> Matches(q)
    BY <1>0, <1>1, <1>4, <1>5 DEF Matches, Running, FleetInv
  <2>2. sup.todo = {}
    BY <1>0, <1>1 DEF PlanInv
  <2> QED BY <1>0, <1>1, <1>2, <2>1, <2>2 DEF PlanInv
<1>11. SignalInv'
  <2> SUFFICES ASSUME NEW q \in Running \ {s} PROVE Sound(thr'[q], held'[thr'[q].of])
    BY <1>6 DEF SignalInv
  <2>1. thr[q].of # thr[s].of /\ thr[q].of \in Rows /\ thr'[q] = thr[q]
    BY <1>0, <1>4, <1>5 DEF FleetInv, Running
  <2> QED BY <1>0, <1>7, <2>1 DEF SignalInv
<1>12. DiscoInv'
  BY <1>0, <1>1, <1>2 DEF DiscoInv, discoVars
<1> QED BY <1>8, <1>9, <1>10, <1>11, <1>12 DEF Inv

LEMMA AllStoppedStep ==
    ASSUME Inv, AllStopped
    PROVE  Inv'
<1>0. TypeOK /\ FleetInv /\ PlanInv /\ SignalInv /\ DiscoInv
  BY DEF Inv
<1> DEFINE todo == {o \in Rows : rig[o].enabled /\ Driving(o) = {}}
<1>1. /\ sup.at = "stopping" /\ sup.leaving = {}
      /\ sup' = [sup EXCEPT !.at = "starting", !.todo = todo]
      /\ UNCHANGED <<rig, taken, thr, held, frame, discoVars>>
  BY DEF AllStopped
<1>2. taken = Running /\ \A s \in Slots : ~thr[s].stop
  BY <1>0, <1>1, NobodyStops
<1>3. \A o \in Rows : o \in todo <=> rig[o].enabled /\ Undriven(o)
  BY <1>2 DEF Driving, Undriven, Running
<1>4. todo \subseteq Rows
  OBVIOUS
<1> HIDE DEF todo
<1>5. /\ sup'.at = "starting" /\ sup'.leaving = {} /\ sup'.todo = todo
      /\ sup' \in [at : {"idle", "stopping", "joining", "starting", "closing"},
                   leaving : SUBSET Slots, todo : SUBSET Rows, failed : SUBSET Rows]
  BY <1>0, <1>1, <1>4 DEF TypeOK
<1>6. TypeOK'
  BY <1>0, <1>1, <1>5 DEF TypeOK, discoVars
<1>7. FleetInv' /\ Running' = Running
  BY <1>0, <1>1, <1>2, <1>5 DEF FleetInv, Running
<1>8. PlanInv'
  <2>1. (\A o : Undriven(o)' <=> Undriven(o)) /\ \A s \in taken : Matches(s)' <=> Matches(s)
    BY <1>1, <1>7 DEF Undriven, Matches
  <2> QED BY <1>0, <1>1, <1>3, <1>4, <1>5, <2>1 DEF PlanInv, Settled
<1>9. SignalInv' /\ DiscoInv'
  BY <1>0, <1>1, <1>5, <1>7 DEF SignalInv, DiscoInv, discoVars
<1> QED BY <1>6, <1>7, <1>8, <1>9 DEF Inv

LEMMA StartOneStep ==
    ASSUME Inv, NEW o \in Rows, StartOne(o)
    PROVE  Inv'
<1>0. TypeOK /\ FleetInv /\ PlanInv /\ SignalInv /\ DiscoInv /\ thr \in [Slots -> Threads]
      /\ IsFiniteSet(Slots) /\ Places \in Nat
  BY Constants DEF Inv, TypeOK, Threads
<1>1. sup.at = "starting" /\ o \in sup.todo /\ UNCHANGED <<rig, held, frame, discoVars>>
  BY DEF StartOne
<1>2. /\ taken = Running /\ (\A s \in Slots : ~thr[s].stop) /\ sup.leaving = {}
      /\ rig[o].enabled /\ Undriven(o) /\ sup.todo \subseteq Rows /\ sup.failed \subseteq Rows
      /\ \A p \in Rows : Settled(p)
  BY <1>0, <1>1, NobodyStops DEF PlanInv, TypeOK
<1>3. Cardinality(taken) \in Nat /\ Cardinality(taken) <= Places /\ IsFiniteSet(taken)
  BY <1>0, <1>2, FS_Subset, FS_CardinalityType DEF FleetInv, Running
<1>4. ASSUME NEW failed \in SUBSET Rows,
             sup' = [sup EXCEPT !.todo = sup.todo \ {o}, !.failed = failed]
      PROVE  /\ sup'.at = "starting" /\ sup'.leaving = {} /\ sup'.todo = sup.todo \ {o}
             /\ sup'.failed = failed
             /\ sup' \in [at : {"idle", "stopping", "joining", "starting", "closing"},
                          leaving : SUBSET Slots, todo : SUBSET Rows, failed : SUBSET Rows]
  BY <1>0, <1>1, <1>2, <1>4 DEF TypeOK
<1>5. ASSUME NEW s \in Slots \ Running, Cardinality(taken) < Places,
             thr' = [thr EXCEPT ![s] = NewThread(o, rig[o].kind)], taken' = taken \cup {s},
             sup' = [sup EXCEPT !.todo = sup.todo \ {o}, !.failed = sup.failed \ {o}]
      PROVE  Inv'
  <2> DEFINE t == NewThread(o, rig[o].kind)
  <2>1. rig[o] \in Settings
    BY <1>0, <1>2 DEF TypeOK, Absent
  <2>2. rig[o] = [kind |-> rig[o].kind, enabled |-> TRUE] /\ rig[o].kind \in Kinds
    BY <1>2, <2>1 DEF Settings
  <2>3. /\ t \in Threads /\ t.of = o /\ t.kind = rig[o].kind /\ ~t.stop /\ t.at = "running"
        /\ t.wrong = 0 /\ t.age = Never
    <3>1. /\ 0 \in 0 .. MaxDelay /\ 1 \in 1 .. MaxDelay /\ 0 \in 0 .. Refresh /\ Dark \in Looks
      BY Constants
    <3> QED BY <2>2, <3>1 DEF NewThread, Threads, Lights
  <2> HIDE DEF t
  <2>4. thr' \in [Slots -> Threads] /\ thr'[s] = t /\ \A q \in Slots \ {s} : thr'[q] = thr[q]
    BY <1>0, <1>5, <2>3 DEF t
  <2>5. /\ sup'.at = "starting" /\ sup'.leaving = {} /\ sup'.todo = sup.todo \ {o}
        /\ sup'.failed = sup.failed \ {o}
        /\ sup' \in [at : {"idle", "stopping", "joining", "starting", "closing"},
                     leaving : SUBSET Slots, todo : SUBSET Rows, failed : SUBSET Rows]
    BY <1>2, <1>4, <1>5
  <2>6. Running' = Running \cup {s} /\ s \notin Running /\ s \in Slots
    BY <2>3, <2>4 DEF Running
  <2>7. TypeOK'
    BY <1>0, <1>1, <1>5, <2>4, <2>5 DEF TypeOK, Threads, discoVars, Running
  <2>8. Cardinality(taken') <= Places
    <3>1. Cardinality(taken') = Cardinality(taken) + 1
      BY <1>2, <1>3, <1>5, <2>6, FS_AddElement
    <3> QED BY <1>0, <1>3, <1>5, <3>1
  <2>9. FleetInv'
    <3>1. \A q \in Running : thr[q].of # o
      BY <1>2 DEF Undriven
    <3>2. taken' = {q \in Running' : ~thr'[q].stop}
      BY <1>2, <1>5, <2>3, <2>4, <2>6 DEF Running
    <3>3. \A q \in Slots : ~thr'[q].stop
      BY <1>2, <2>3, <2>4
    <3>4. \A q \in Running' : thr'[q].of \in Rows
      BY <1>0, <2>3, <2>4, <2>6 DEF FleetInv, Running
    <3>5. \A q, p \in Running' : thr'[q].of = thr'[p].of => q = p
      BY <1>0, <2>3, <2>4, <2>6, <3>1 DEF FleetInv, Running
    <3>6. \A q \in Slots : thr'[q].at # "done"
      BY <1>0, <1>2, <2>3, <2>4 DEF FleetInv
    <3> QED BY <2>8, <3>2, <3>3, <3>4, <3>5, <3>6 DEF FleetInv
  <2>10. PlanInv'
    <3>1. \A q \in taken : Matches(q)' <=> Matches(q)
      BY <1>1, <1>2, <2>4, <2>6 DEF Matches, Running
    <3>2. Matches(s)'
      BY <1>1, <2>2, <2>3, <2>4 DEF Matches
    <3>3. \A p \in Rows : Undriven(p)' <=> Undriven(p) /\ p # o
      BY <2>3, <2>4, <2>6 DEF Undriven, Running
    <3>4. \A q \in taken' : Matches(q)' \/ q \in sup'.leaving
      BY <1>0, <1>2, <1>5, <3>1, <3>2 DEF PlanInv
    <3>5. \A p \in Rows : Settled(p)'
      BY <1>1, <1>2, <1>3, <1>5, <2>5, <3>3 DEF Settled
    <3>6. \A p \in sup'.todo : sup'.at = "starting" /\ rig'[p].enabled /\ Undriven(p)'
      BY <1>0, <1>1, <1>2, <2>5, <3>3 DEF PlanInv
    <3> QED BY <2>5, <3>4, <3>5, <3>6 DEF PlanInv
  <2>11. SignalInv'
    <3>1. Sound(thr'[s], held'[thr'[s].of])
      BY <1>0, <2>3, <2>4, Constants DEF Sound
    <3>2. ASSUME NEW q \in Running PROVE Sound(thr'[q], held'[thr'[q].of])
      BY <1>0, <1>1, <2>4, <2>6 DEF SignalInv, Running
    <3> QED BY <2>6, <3>1, <3>2 DEF SignalInv
  <2>12. DiscoInv'
    BY <1>0, <1>1, <2>5 DEF DiscoInv, discoVars
  <2> QED BY <2>7, <2>9, <2>10, <2>11, <2>12 DEF Inv
<1>6. ASSUME NEW failed \in SUBSET Rows, UNCHANGED <<taken, thr>>,
             sup' = [sup EXCEPT !.todo = sup.todo \ {o}, !.failed = failed],
             sup.failed \subseteq failed, o \in failed \/ Cardinality(taken) = Places
      PROVE  Inv'
  <2>1. /\ sup'.at = "starting" /\ sup'.leaving = {} /\ sup'.todo = sup.todo \ {o}
        /\ sup'.failed = failed
        /\ sup' \in [at : {"idle", "stopping", "joining", "starting", "closing"},
                     leaving : SUBSET Slots, todo : SUBSET Rows, failed : SUBSET Rows]
    BY <1>4, <1>6
  <2>2. TypeOK'
    BY <1>0, <1>1, <1>6, <2>1 DEF TypeOK, discoVars
  <2>3. FleetInv' /\ Running' = Running
    BY <1>0, <1>2, <1>6, <2>1 DEF FleetInv, Running
  <2>4. PlanInv'
    <3>1. (\A p : Undriven(p)' <=> Undriven(p)) /\ \A s \in taken : Matches(s)' <=> Matches(s)
      BY <1>1, <1>6, <2>3 DEF Undriven, Matches
    <3>2. \A p \in Rows : Settled(p)'
      BY <1>1, <1>2, <1>6, <2>1, <3>1 DEF Settled
    <3> QED BY <1>0, <1>1, <1>2, <1>6, <2>1, <3>1, <3>2 DEF PlanInv
  <2>5. SignalInv' /\ DiscoInv'
    BY <1>0, <1>1, <1>6, <2>1, <2>3 DEF SignalInv, DiscoInv, discoVars
  <2> QED BY <2>2, <2>3, <2>4, <2>5 DEF Inv
<1>7. \/ /\ Cardinality(taken) < Places
         /\ \E s \in Slots \ Running :
              /\ thr' = [thr EXCEPT ![s] = NewThread(o, rig[o].kind)]
              /\ taken' = taken \cup {s}
         /\ sup' = [sup EXCEPT !.todo = sup.todo \ {o}, !.failed = sup.failed \ {o}]
      \/ /\ Cardinality(taken) >= Places /\ UNCHANGED <<taken, thr>>
         /\ sup' = [sup EXCEPT !.todo = sup.todo \ {o}]
      \/ /\ UNCHANGED <<taken, thr>>
         /\ sup' = [sup EXCEPT !.todo = sup.todo \ {o}, !.failed = sup.failed \cup {o}]
  BY DEF StartOne, Become
<1>8. CASE /\ Cardinality(taken) >= Places /\ UNCHANGED <<taken, thr>>
           /\ sup' = [sup EXCEPT !.todo = sup.todo \ {o}]
  <2>1. sup' = [sup EXCEPT !.todo = sup.todo \ {o}, !.failed = sup.failed]
    BY <1>0, <1>8 DEF TypeOK
  <2>2. Cardinality(taken) = Places
    BY <1>0, <1>3, <1>8
  <2> QED BY <1>2, <1>6, <1>8, <2>1, <2>2
<1>9. CASE /\ UNCHANGED <<taken, thr>>
           /\ sup' = [sup EXCEPT !.todo = sup.todo \ {o}, !.failed = sup.failed \cup {o}]
  <2>1. sup.failed \cup {o} \in SUBSET Rows
    BY <1>2
  <2> QED BY <1>6, <1>9, <2>1
<1> QED BY <1>5, <1>7, <1>8, <1>9

\* A step of reconcile after the threads, or of the discovery: the threads and
\* the rig stay as they are.
LEMMA CrewRests ==
    ASSUME Inv, UNCHANGED <<rig, taken, thr, held, frame>>, UNCHANGED <<sup>> \/
           (sup.at \in {"starting", "closing"} /\ sup' = [sup EXCEPT !.at = sup'.at]
            /\ sup'.at \in {"closing", "idle"} /\ sup.todo = {})
    PROVE  FleetInv' /\ PlanInv' /\ SignalInv' /\ (disco' \in [handle : BOOLEAN,
               at : {"none", "opening", "serving", "gone"}, run : BOOLEAN,
               heard : {Never} \cup 0 .. Timeout + 1]
             /\ table' \in [listening : BOOLEAN, heard : {Never} \cup 0 .. Timeout + 1]
             => TypeOK')
<1>0. TypeOK /\ FleetInv /\ PlanInv /\ SignalInv
  BY DEF Inv
<1>1. Running' = Running
  BY DEF Running
<1>2. SignalInv'
  BY <1>0, <1>1 DEF SignalInv
<1>3. (\A p : Undriven(p)' <=> Undriven(p)) /\ \A s \in taken : Matches(s)' <=> Matches(s)
  BY <1>1 DEF Undriven, Matches
<1>4. CASE UNCHANGED <<sup>>
  BY <1>0, <1>1, <1>2, <1>3, <1>4 DEF FleetInv, PlanInv, Settled, TypeOK
<1>5. CASE /\ sup.at \in {"starting", "closing"} /\ sup' = [sup EXCEPT !.at = sup'.at]
           /\ sup'.at \in {"closing", "idle"} /\ sup.todo = {}
  <2>1. /\ sup'.leaving = sup.leaving /\ sup'.todo = {} /\ sup'.failed = sup.failed
        /\ sup' \in [at : {"idle", "stopping", "joining", "starting", "closing"},
                     leaving : SUBSET Slots, todo : SUBSET Rows, failed : SUBSET Rows]
    BY <1>0, <1>5 DEF TypeOK
  <2>2. \A s \in Slots : ~thr[s].stop
    BY <1>0, <1>5, NobodyStops
  <2>3. FleetInv'
    BY <1>0, <1>1, <2>2 DEF FleetInv
  <2>4. PlanInv'
    BY <1>0, <1>3, <1>5, <2>1 DEF PlanInv, Settled
  <2> QED BY <1>0, <1>2, <2>1, <2>3, <2>4 DEF TypeOK
<1> QED BY <1>4, <1>5

Discos == [handle : BOOLEAN, at : {"none", "opening", "serving", "gone"},
           run : BOOLEAN, heard : {Never} \cup 0 .. Timeout + 1]
Tables == [listening : BOOLEAN, heard : {Never} \cup 0 .. Timeout + 1]

LEMMA RetargetStep == ASSUME Inv, Retarget PROVE Inv'
<1>0. /\ TypeOK /\ DiscoInv /\ PlanInv /\ disco \in Discos /\ table \in Tables
      /\ sup \in [at : {"idle", "stopping", "joining", "starting", "closing"},
                  leaving : SUBSET Slots, todo : SUBSET Rows, failed : SUBSET Rows]
  BY DEF Inv, TypeOK, Discos, Tables
<1>1. /\ sup.at = "starting" /\ sup.todo = {} /\ UNCHANGED <<rig, taken, thr, held, frame>>
      /\ ArtNet' = ArtNet
  BY DEF Retarget, ArtNet
<1>2. CASE SpawnFails
  <2>1. /\ sup'.at = "idle" /\ sup' = [sup EXCEPT !.at = sup'.at]
        /\ ArtNet # {} /\ disco.at = "none"
        /\ disco' \in Discos /\ disco'.at = disco.at /\ disco'.handle = disco.handle
        /\ table' \in Tables /\ ~table'.listening
    BY <1>0, <1>2 DEF SpawnFails, DiscoInv, Discos, Tables
  <2>2. FleetInv' /\ PlanInv' /\ SignalInv' /\ TypeOK'
    BY <1>1, <2>1, CrewRests DEF Discos, Tables
  <2>3. DiscoInv'
    BY <1>0, <1>1, <2>1 DEF DiscoInv
  <2> QED BY <2>2, <2>3 DEF Inv
<1>3. CASE ~SpawnFails
  <2> DEFINE at == IF ArtNet = {} /\ disco.handle THEN "closing" ELSE "idle"
  <2>1. /\ sup' = [sup EXCEPT !.at = at] /\ UNCHANGED table
        /\ disco' = [disco EXCEPT
                       !.run = ArtNet # {} /\ (disco.handle => disco.run),
                       !.handle = disco.handle \/ ArtNet # {},
                       !.at = IF ArtNet # {} /\ ~disco.handle THEN "opening" ELSE disco.at]
    BY <1>3 DEF Retarget
  <2>2. at \in {"closing", "idle"} /\ (at = "idle" => ArtNet # {} \/ ~disco.handle)
    OBVIOUS
  <2> HIDE DEF at
  <2>3. sup'.at = at
    BY <1>0, <2>1
  <2>4. /\ disco' \in Discos /\ (disco'.handle <=> disco.handle \/ ArtNet # {})
        /\ disco'.heard = disco.heard
        /\ disco'.at = IF ArtNet # {} /\ ~disco.handle THEN "opening" ELSE disco.at
    BY <1>0, <2>1 DEF Discos
  <2>5. FleetInv' /\ PlanInv' /\ SignalInv' /\ TypeOK'
    BY <1>0, <1>1, <2>1, <2>2, <2>3, <2>4, CrewRests DEF Discos, Tables
  <2>6. DiscoInv'
    BY <1>0, <1>1, <2>1, <2>2, <2>3, <2>4 DEF DiscoInv
  <2> QED BY <2>5, <2>6 DEF Inv
<1> QED BY <1>2, <1>3

LEMMA ClosedStep == ASSUME Inv, Closed PROVE Inv'
<1>0. /\ TypeOK /\ DiscoInv /\ PlanInv /\ disco \in Discos /\ table \in Tables
      /\ sup \in [at : {"idle", "stopping", "joining", "starting", "closing"},
                  leaving : SUBSET Slots, todo : SUBSET Rows, failed : SUBSET Rows]
  BY DEF Inv, TypeOK, Discos, Tables
<1>1. /\ sup.at = "closing" /\ sup' = [sup EXCEPT !.at = "idle"]
      /\ disco' = [disco EXCEPT !.handle = FALSE, !.at = "none"]
      /\ table' = [table EXCEPT !.listening = FALSE]
      /\ UNCHANGED <<rig, taken, thr, held, frame>>
  BY DEF Closed
<1>2. sup'.at = "idle" /\ sup.todo = {}
  BY <1>0, <1>1 DEF PlanInv
<1>3. disco' \in Discos /\ ~disco'.handle /\ disco'.at = "none"
      /\ table' \in Tables /\ ~table'.listening
  BY <1>0, <1>1 DEF Discos, Tables
<1>4. FleetInv' /\ PlanInv' /\ SignalInv' /\ TypeOK'
  BY <1>0, <1>1, <1>2, <1>3, CrewRests DEF Discos, Tables
<1>5. DiscoInv'
  BY <1>3 DEF DiscoInv
<1> QED BY <1>4, <1>5 DEF Inv

LEMMA DiscoverStep == ASSUME Inv, Discover PROVE Inv'
<1>0. TypeOK /\ DiscoInv /\ disco \in Discos /\ table \in Tables /\ Timeout \in Nat
  BY Constants DEF Inv, TypeOK, Discos, Tables
<1>1. UNCHANGED <<rig, taken, thr, held, frame, sup>> /\ UNCHANGED ArtNet
  BY DEF Discover, Listen, Serve, StopServing, supVars, ArtNet
<1> SUFFICES disco' \in Discos /\ table' \in Tables /\ DiscoInv'
  BY <1>1, CrewRests DEF Inv, Discos, Tables
<1>2. CASE Listen
  <2>1. disco.at = "opening" /\ disco.handle
    BY <1>0, <1>2 DEF Listen, DiscoInv
  <2>2. CASE /\ disco' = [disco EXCEPT !.at = "serving", !.heard = Never]
             /\ table' = [listening |-> TRUE, heard |-> Never]
    BY <1>0, <1>1, <2>1, <2>2 DEF Discos, Tables, DiscoInv
  <2>3. CASE /\ disco' = [disco EXCEPT !.at = "gone", !.run = FALSE]
             /\ table' = [table EXCEPT !.listening = FALSE]
    BY <1>0, <1>1, <2>1, <2>3 DEF Discos, Tables, DiscoInv
  <2> QED BY <1>2, <2>2, <2>3 DEF Listen
<1>3. CASE Serve
  <2>1. PICK heard \in {disco.heard, 0} :
          LET now == IF heard = Never \/ heard > Timeout THEN heard ELSE heard + 1 IN
          /\ disco' = [disco EXCEPT !.heard = now]
          /\ table' = [listening |-> TRUE, heard |-> now]
    BY <1>3 DEF Serve
  <2> DEFINE now == IF heard = Never \/ heard > Timeout THEN heard ELSE heard + 1
  <2>2. disco' = [disco EXCEPT !.heard = now] /\ table' = [listening |-> TRUE, heard |-> now]
    BY <2>1
  <2>3. now \in {Never} \cup 0 .. Timeout + 1
    <3>1. heard \in {Never} \cup 0 .. Timeout + 1
      BY <1>0, <2>1 DEF Discos
    <3> QED BY <1>0, <3>1 DEF Never
  <2> HIDE DEF now
  <2>4. disco.at = "serving"
    BY <1>3 DEF Serve
  <2> QED BY <1>0, <1>1, <2>2, <2>3, <2>4 DEF Discos, Tables, DiscoInv
<1>4. CASE StopServing
  <2>1. /\ disco.at = "serving" /\ disco' = [disco EXCEPT !.at = "gone", !.heard = Never]
        /\ table' = [listening |-> FALSE, heard |-> disco.heard]
    BY <1>4 DEF StopServing
  <2> QED BY <1>0, <1>1, <2>1 DEF Discos, Tables, DiscoInv
<1> QED BY <1>2, <1>3, <1>4 DEF Discover

LEMMA InvInit == Init => Inv
<1> SUFFICES ASSUME Init PROVE Inv
  OBVIOUS
<1>1. NoThread \in Threads /\ NoThread.at = "none" /\ ~NoThread.stop
  <2>1. /\ 0 \in 0 .. MaxDelay /\ 1 \in 1 .. MaxDelay /\ 0 \in 0 .. Refresh /\ Dark \in Looks
    BY Constants
  <2> QED BY <2>1 DEF NoThread, NewThread, Threads, Kinds, Lights
<1>2. Running = {} /\ \A s \in Slots : thr[s].at = "none" /\ ~thr[s].stop
  BY <1>1 DEF Init, Running
<1>3. taken = {} /\ Cardinality({}) = 0 /\ Places \in Nat
  BY Constants, FS_EmptySet DEF Init
<1>4. TypeOK
  <2>1. thr \in [Slots -> Threads] /\ frame \in Looks
    BY <1>1, Constants DEF Init
  <2>2. rig \in [Rows -> Settings \cup {Absent}]
        /\ held \in [Rows -> [Receivers -> Looks \cup {Nothing}]]
    BY DEF Init
  <2> QED BY <1>3, <2>1, <2>2 DEF Init, TypeOK, Threads, Idle
<1>5. FleetInv
  BY <1>2, <1>3 DEF FleetInv
<1>6. PlanInv
  BY <1>2, <1>3 DEF Init, PlanInv, Idle, Settled, Absent
<1>7. SignalInv /\ DiscoInv
  BY <1>2 DEF Init, SignalInv, DiscoInv
<1> QED BY <1>4, <1>5, <1>6, <1>7 DEF Inv

LEMMA InvStep == Inv /\ [Next]_vars => Inv'
<1> SUFFICES ASSUME Inv, [Next]_vars PROVE Inv'
  OBVIOUS
<1>1. ASSUME NEW o \in Rows, NEW row \in Settings \cup {Absent}, Command(o, row) PROVE Inv'
  BY <1>1, CommandStep
<1>2. CASE Reconcile
  BY <1>2, StopOneStep, JoinStep, AllStoppedStep, StartOneStep, RetargetStep, ClosedStep
     DEF Reconcile
<1>3. CASE Discover
  BY <1>3, DiscoverStep
<1>4. ASSUME NEW s \in Slots, Driver(s) PROVE Inv'
  BY <1>4, DriverStep
<1>5. ASSUME NEW look \in Looks, Publish(look) PROVE Inv'
  BY <1>5, PublishStep
<1>6. CASE UNCHANGED vars
  <2>1. UNCHANGED <<rig, sup, taken, thr, held, frame, disco, table>>
    BY <1>6 DEF vars
  <2>2. UNCHANGED <<Running, ArtNet>>
    BY <2>1 DEF Running, ArtNet
  <2> QED BY <2>1, <2>2 DEF Inv, TypeOK, FleetInv, PlanInv, SignalInv, DiscoInv, Settled,
                            Undriven, Matches
<1> QED BY <1>1, <1>2, <1>3, <1>4, <1>5, <1>6 DEF Next

LEMMA InvHolds == Spec => []Inv
<1> QED BY InvInit, InvStep, PTL DEF Spec

-----------------------------------------------------------------------------
(* The theorems                                                            *)

\* An output never has two senders, and whenever a command has been carried out
\* what runs is what the rig says, thread for row, and nothing else holds a place
\* (OutputSupervisor::reconcile, stop_one, start_one).
THEOREM WhatRunsIsTheRig == Spec => []RigRuns
<1>1. Inv => RigRuns
  <2> SUFFICES ASSUME Inv PROVE RigRuns
    OBVIOUS
  <2>0. TypeOK /\ FleetInv /\ PlanInv
    BY DEF Inv
  <2>1. OneSender
    BY <2>0 DEF OneSender, FleetInv, Running
  <2>2. ASSUME sup.at = "idle"
        PROVE  /\ Running = taken
               /\ \A o \in Rows :
                    \/ \E s \in Slots : /\ Driving(o) = {s}
                                        /\ rig[o] = [kind |-> thr[s].kind, enabled |-> TRUE]
                    \/ /\ Driving(o) = {}
                       /\ ~rig[o].enabled \/ o \in sup.failed \/ Cardinality(Running) = Places
    <3>1. taken = Running /\ (\A s \in Slots : ~thr[s].stop) /\ sup.leaving = {}
          /\ sup.todo = {}
      BY <2>0, <2>2, NobodyStops DEF PlanInv
    <3> SUFFICES ASSUME NEW o \in Rows
                 PROVE  \/ \E s \in Slots : /\ Driving(o) = {s}
                                            /\ rig[o] = [kind |-> thr[s].kind, enabled |-> TRUE]
                        \/ /\ Driving(o) = {}
                           /\ ~rig[o].enabled \/ o \in sup.failed
                                \/ Cardinality(Running) = Places
      BY <3>1
    <3>2. Driving(o) = {s \in Running : thr[s].of = o}
      BY <3>1 DEF Driving, Running
    <3>3. CASE Undriven(o)
      <4>1. Driving(o) = {}
        BY <3>2, <3>3 DEF Undriven
      <4>2. Settled(o)
        BY <2>0, <2>2 DEF PlanInv
      <4> QED BY <3>1, <3>3, <4>1, <4>2 DEF Settled
    <3>4. CASE ~Undriven(o)
      <4>1. PICK s \in Running : thr[s].of = o
        BY <3>4 DEF Undriven
      <4>2. Driving(o) = {s}
        BY <2>0, <3>2, <4>1 DEF FleetInv
      <4>3. Matches(s) /\ s \in Slots
        BY <2>0, <3>1, <4>1 DEF PlanInv, Running
      <4> QED BY <4>1, <4>2, <4>3 DEF Matches
    <3> QED BY <3>3, <3>4
  <2> QED BY <2>0, <2>1, <2>2 DEF RigRuns
<1> QED BY <1>1, InvHolds, PTL

\* Under a green light no receiver has held another look for a keep-alive's
\* length, and no Art-Net node has held one at all (sacn.rs and artnet.rs,
\* send_frame; runner.rs, send_step).
THEOREM GreenIsTrue == Spec => []GreenMeansHeld
<1>1. Inv => GreenMeansHeld
  BY Constants DEF Inv, SignalInv, Sound, GreenMeansHeld, TypeOK
<1> QED BY <1>1, InvHolds, PTL

\* A green Art-Net light while listening rests on an answer heard through the
\* socket that is open, and with no Art-Net row the port is free (discovery.rs,
\* Discovery::retarget and stop; outputs.rs, reported_health).
THEOREM AnswersComeThroughTheSocket == Spec => []AnswersAreCurrent
<1>1. Inv => AnswersAreCurrent
  <2> SUFFICES ASSUME Inv PROVE AnswersAreCurrent
    OBVIOUS
  <2>0. DiscoInv /\ table \in Tables /\ disco \in Discos /\ Timeout \in Nat
    BY Constants DEF Inv, TypeOK, Tables, Discos
  <2>1. ASSUME NEW s \in Running, Reported(s) = "Ok", thr[s].kind = "artnet", table.listening
        PROVE  disco.heard \in 0 .. Timeout
    <3>1. ~(table.heard = Never \/ table.heard > Timeout) /\ table.heard = disco.heard
      BY <2>0, <2>1 DEF Reported, DiscoInv
    <3>2. disco.heard \in {Never} \cup 0 .. Timeout + 1
      BY <2>0 DEF Discos
    <3> QED BY <2>0, <3>1, <3>2 DEF Never
  <2> QED BY <2>0, <2>1 DEF AnswersAreCurrent, DiscoInv
<1> QED BY <1>1, InvHolds, PTL

-----------------------------------------------------------------------------
(* The streams: what a gateway that follows one is behind by                *)

Streams == [sequence : 0 .. Numbers - 1, age : {Unsent} \cup 0 .. KeepAlive,
            streaming : BOOLEAN, open : BOOLEAN,
            at : {"running", "ending", "done"}, left : 0 .. Goodbyes]
Views == [on : BOOLEAN, number : 0 .. Numbers - 1, quiet : 0 .. Loss,
          mine : BOOLEAN, smooth : BOOLEAN]

LEMMA StreamConstants ==
    /\ Numbers \in Nat /\ Window \in Nat \ {0} /\ Goodbyes \in Nat \ {0}
    /\ KeepAlive \in Nat \ {0} /\ Loss \in Nat \ {0}
    /\ 2 * KeepAlive <= Loss /\ Loss + Goodbyes + Window < Numbers
  BY StreamAssumption

\* A gateway is behind by a packet for each cadence it has heard nothing, and
\* for each goodbye, at most.
Near(v, st) ==
    Behind(st.sequence, v.number) \in 1 .. v.quiet + 1 + (Goodbyes - st.left)

\* While the output is at its work: after one packet too many it has waited
\* since the last whole one at most, and after two for a keep-alive more.
Paced(v, st) ==
    /\ st.age = Unsent => Behind(st.sequence, v.number) = v.quiet + 1
    /\ st.age # Unsent /\ Behind(st.sequence, v.number) = 1
         => v.quiet <= st.age /\ v.quiet < KeepAlive
    /\ st.age # Unsent /\ Behind(st.sequence, v.number) = 2
         => v.quiet <= st.age \/ (st.age < KeepAlive /\ v.quiet <= st.age + KeepAlive)

InStep(v, st) ==
    v.on /\ v.mine => Near(v, st) /\ (st.at = "running" /\ v.smooth => Paced(v, st))

\* The goodbyes that are spent, and who has missed them all.
PartingInv ==
    /\ stream.at = "running" => stream.left = Goodbyes
    /\ stream.at = "ending" => stream.left > 0
    /\ known /\ stream.at = "running" => stream.open /\ stream.streaming
    /\ known /\ stream.at = "done" => stream.left = 0
    /\ stream.at = "ending" => \A g \in Gateways : missed[g] <= Goodbyes - stream.left
    /\ stream.at = "ending" \/ (stream.at = "done" /\ known) =>
         \A g \in Followers : missed[g] = Goodbyes - stream.left

StreamInv == StreamTypeOK /\ (\A g \in Gateways : InStep(seen[g], stream)) /\ PartingInv

\* Numbers round the wrap: the next is one further than the last.
LEMMA BehindDoes ==
    ASSUME NEW n \in 0 .. Numbers - 1, NEW k \in 0 .. Numbers - 1
    PROVE  /\ Behind(n, k) \in 0 .. Numbers - 1
           /\ Advanced(n) \in 0 .. Numbers - 1
           /\ Behind(Advanced(n), n) = 1
           /\ Behind(n, k) < Numbers - 1 => Behind(Advanced(n), k) = Behind(n, k) + 1
<1>1. Numbers \in Nat /\ Numbers > 1
  BY StreamConstants
<1> QED BY <1>1 DEF Behind, Advanced

\* A gateway that follows takes the next packet.
LEMMA NearIsNewer ==
    ASSUME NEW v \in Views, NEW st \in Streams, Near(v, st)
    PROVE  /\ Newer(st.sequence, v.number)
           /\ v.quiet < Loss \/ st.left > 0
                => v.quiet + (Goodbyes - st.left) < Loss + Goodbyes
                   /\ Behind(st.sequence, v.number) < Numbers - 1
<1>1. v.quiet \in 0 .. Loss /\ st.left \in 0 .. Goodbyes
  BY DEF Views, Streams
<1> QED BY <1>1, StreamConstants DEF Near, Newer

LEMMA QuieterDoes ==
    ASSUME StreamTypeOK, NEW g \in Gateways
    PROVE  /\ Quieter(g) \in Views
           /\ Quieter(g).on => /\ seen[g].on /\ seen[g].quiet < Loss
                               /\ Quieter(g).quiet = seen[g].quiet + 1
                               /\ Quieter(g).number = seen[g].number
                               /\ Quieter(g).mine = seen[g].mine
                               /\ Quieter(g).smooth = seen[g].smooth
<1>1. seen[g] \in Views /\ Loss \in Nat /\ Numbers \in Nat /\ Numbers > 0
  BY StreamConstants DEF StreamTypeOK, Views
<1>2. CASE seen[g].on /\ seen[g].quiet < Loss
  <2>1. seen[g].quiet + 1 \in 0 .. Loss
    BY <1>1, <1>2 DEF Views
  <2> QED BY <1>1, <1>2, <2>1 DEF Quieter, Views
<1>3. CASE ~(seen[g].on /\ seen[g].quiet < Loss)
  <2>1. Quieter(g) = Forgotten /\ 0 \in 0 .. Numbers - 1 /\ 0 \in 0 .. Loss
    BY <1>1, <1>3 DEF Quieter
  <2> QED BY <2>1 DEF Forgotten, Views
<1> QED BY <1>2, <1>3

LEMMA UnheardDoes ==
    ASSUME StreamTypeOK, seen' = Unheard
    PROVE  /\ seen' \in [Gateways -> Views]
           /\ \A g \in Gateways : /\ ~seen'[g].smooth
                                  /\ seen'[g].on => /\ seen[g].on
                                                    /\ seen'[g].quiet = seen[g].quiet + 1
                                                    /\ seen'[g].number = seen[g].number
                                                    /\ seen'[g].mine = seen[g].mine
<1> SUFFICES ASSUME NEW g \in Gateways
             PROVE  LET v == [Quieter(g) EXCEPT !.smooth = FALSE] IN
                    /\ v \in Views /\ ~v.smooth
                    /\ v.on => /\ seen[g].on /\ v.quiet = seen[g].quiet + 1
                               /\ v.number = seen[g].number /\ v.mine = seen[g].mine
  BY DEF Unheard
<1>1. Quieter(g) \in Views
  BY QuieterDoes
<1> QED BY <1>1, QuieterDoes DEF Views

LEMMA LaterDoes ==
    ASSUME StreamTypeOK
    PROVE  /\ Later \in {Unsent} \cup 0 .. KeepAlive
           /\ Later = Unsent <=> stream.age = Unsent
           /\ Later # Unsent => Later = stream.age + 1 \/ (Later = KeepAlive /\ stream.age = KeepAlive)
<1>1. stream.age \in {-1} \cup 0 .. KeepAlive /\ KeepAlive \in Nat
  BY StreamConstants DEF StreamTypeOK, Unsent
<1> QED BY <1>1 DEF Later, Unsent

\* A cadence without a packet leaves the pace and the distance: what a gateway
\* has waited grows by one, and so does what the stream has.
LEMMA HeldStep == ASSUME StreamInv, FrameHeld PROVE StreamInv'
<1>0. StreamTypeOK /\ stream \in Streams /\ seen \in [Gateways -> Views] /\ PartingInv
  BY DEF StreamInv, StreamTypeOK, Streams, Views
<1>1. /\ stream' = [stream EXCEPT !.age = Later] /\ stream.at = "running"
      /\ stream.age \in 0 .. KeepAlive /\ stream.age + 1 < KeepAlive
      /\ UNCHANGED <<known, missed>> /\ seen' = [g \in Gateways |-> Quieter(g)]
  BY <1>0, StreamConstants DEF FrameHeld, Sending, IsDue, Heard, Streams
<1>2. /\ stream' \in Streams /\ stream'.age = stream.age + 1
      /\ stream'.sequence = stream.sequence /\ stream'.left = stream.left
      /\ stream'.at = stream.at /\ stream'.open = stream.open
      /\ stream'.streaming = stream.streaming
  <2>1. Later = stream.age + 1 /\ Later \in {Unsent} \cup 0 .. KeepAlive
    BY <1>0, <1>1, LaterDoes, StreamConstants DEF Unsent
  <2> QED BY <1>0, <1>1, <2>1 DEF Streams
<1>3. seen' \in [Gateways -> Views]
  BY <1>0, <1>1, QuieterDoes
<1>4. ASSUME NEW g \in Gateways, seen'[g].on, seen'[g].mine
      PROVE  Near(seen'[g], stream') /\ (seen'[g].smooth => Paced(seen'[g], stream'))
  <2>1. /\ seen[g].on /\ seen[g].mine /\ seen'[g].quiet = seen[g].quiet + 1
        /\ seen'[g].number = seen[g].number /\ seen'[g].smooth = seen[g].smooth
        /\ seen[g].quiet \in 0 .. Loss /\ stream.left \in 0 .. Goodbyes
    BY <1>0, <1>1, <1>4, QuieterDoes DEF Views, Streams
  <2>2. Near(seen[g], stream) /\ (seen[g].smooth => Paced(seen[g], stream))
    BY <1>1, <2>1 DEF StreamInv, InStep
  <2>3. Near(seen'[g], stream')
    BY <1>2, <2>1, <2>2, StreamConstants DEF Near
  <2>4. ASSUME seen'[g].smooth PROVE Paced(seen'[g], stream')
    BY <1>1, <1>2, <2>1, <2>2, <2>4, StreamConstants DEF Paced, Unsent
  <2> QED BY <2>3, <2>4
<1>5. PartingInv'
  BY <1>0, <1>1, <1>2 DEF PartingInv
<1> QED BY <1>0, <1>1, <1>2, <1>3, <1>4, <1>5
        DEF StreamInv, StreamTypeOK, Streams, Views, InStep

\* A packet that is sent, whatever becomes of it: who takes it is one behind,
\* who does not is one further behind.
LEMMA SentStep == ASSUME StreamInv, SendFrame PROVE StreamInv'
<1>0. StreamTypeOK /\ stream \in Streams /\ seen \in [Gateways -> Views] /\ PartingInv
  BY DEF StreamInv, StreamTypeOK, Streams, Views
<1> PICK got \in SUBSET Gateways :
      /\ seen' = Heard(stream.sequence, got)
      /\ \/ /\ stream' = [stream EXCEPT !.sequence = Advanced(stream.sequence), !.age = 0, !.streaming = TRUE]
            /\ known' = TRUE
         \/ /\ stream' = [stream EXCEPT !.sequence = Advanced(stream.sequence), !.age = Later]
            /\ UNCHANGED known
         \/ /\ stream' = [stream EXCEPT !.sequence = Advanced(stream.sequence), !.age = Later,
                                        !.open = FALSE, !.streaming = FALSE]
            /\ known' = FALSE
  BY DEF SendFrame
<1>1. stream.at = "running" /\ stream.open /\ UNCHANGED missed /\ stream.left = Goodbyes
  BY <1>0 DEF SendFrame, Sending, PartingInv
<1>2. stream.sequence \in 0 .. Numbers - 1 /\ Advanced(stream.sequence) \in 0 .. Numbers - 1
  BY <1>0, BehindDoes DEF Streams
<1>3. /\ stream' \in Streams /\ stream'.sequence = Advanced(stream.sequence)
      /\ stream'.left = stream.left /\ stream'.at = "running"
      /\ stream'.age = 0 \/ stream'.age = Later
      /\ known' => stream'.open /\ stream'.streaming
  <2>1. Later \in {Unsent} \cup 0 .. KeepAlive /\ 0 \in 0 .. KeepAlive
    BY <1>0, LaterDoes, StreamConstants
  <2>2. known => stream.streaming
    BY <1>0, <1>1 DEF PartingInv
  <2>3. CASE stream' = [stream EXCEPT !.sequence = Advanced(stream.sequence), !.age = 0, !.streaming = TRUE]
    BY <1>0, <1>1, <1>2, <2>1, <2>3 DEF Streams
  <2>4. CASE /\ stream' = [stream EXCEPT !.sequence = Advanced(stream.sequence), !.age = Later]
             /\ UNCHANGED known
    BY <1>0, <1>1, <1>2, <2>1, <2>2, <2>4 DEF Streams
  <2>5. CASE /\ stream' = [stream EXCEPT !.sequence = Advanced(stream.sequence), !.age = Later,
                                         !.open = FALSE, !.streaming = FALSE]
             /\ known' = FALSE
    BY <1>0, <1>1, <1>2, <2>1, <2>5 DEF Streams
  <2> QED BY <2>3, <2>4, <2>5
<1>4. ASSUME NEW g \in Gateways
      PROVE  seen'[g] \in Views /\ InStep(seen'[g], stream')
  <2>1. CASE g \in got /\ Takes(g, stream.sequence)
    <3>1. seen'[g] = [on |-> TRUE, number |-> stream.sequence, quiet |-> 0,
                      mine |-> TRUE, smooth |-> TRUE]
      BY <2>1 DEF Heard
    <3>2. Behind(stream'.sequence, seen'[g].number) = 1
      BY <1>2, <1>3, <3>1, BehindDoes
    <3>3. stream'.age = Unsent \/ stream'.age >= 0
      BY <1>3 DEF Streams
    <3> QED BY <1>1, <1>2, <1>3, <3>1, <3>2, <3>3, StreamConstants
            DEF Views, InStep, Near, Paced
  <2>2. CASE ~(g \in got /\ Takes(g, stream.sequence))
    <3>1. seen'[g] = Quieter(g) /\ seen'[g] \in Views
      BY <1>0, <2>2, QuieterDoes DEF Heard
    <3> SUFFICES ASSUME seen'[g].on, seen'[g].mine
                 PROVE  Near(seen'[g], stream') /\ (seen'[g].smooth => Paced(seen'[g], stream'))
      BY <3>1 DEF InStep
    <3>2. /\ seen[g].on /\ seen[g].mine /\ seen'[g].quiet = seen[g].quiet + 1
          /\ seen'[g].number = seen[g].number /\ seen'[g].smooth = seen[g].smooth
          /\ seen[g].quiet \in 0 .. Loss /\ seen[g].number \in 0 .. Numbers - 1
          /\ seen[g] \in Views
      BY <1>0, <3>1, QuieterDoes DEF Views
    <3>3. Near(seen[g], stream) /\ (seen[g].smooth => Paced(seen[g], stream))
      BY <1>1, <3>2 DEF StreamInv, InStep
    <3>4. Behind(stream'.sequence, seen'[g].number) = Behind(stream.sequence, seen[g].number) + 1
      <4>1. Behind(stream.sequence, seen[g].number) < Numbers - 1
        BY <1>0, <1>1, <3>2, <3>3, NearIsNewer, StreamConstants
      <4> QED BY <1>2, <1>3, <3>2, <4>1, BehindDoes
    <3>5. Behind(stream.sequence, seen[g].number) \in 1 .. seen[g].quiet + 1
      BY <1>1, <3>2, <3>3, StreamConstants DEF Near
    <3>6. Near(seen'[g], stream')
      BY <1>1, <1>3, <3>2, <3>4, <3>5, StreamConstants DEF Near
    <3>7. ASSUME seen'[g].smooth PROVE Paced(seen'[g], stream')
      <4>1. Paced(seen[g], stream) /\ stream.age \in {Unsent} \cup 0 .. KeepAlive
        BY <1>0, <3>2, <3>3, <3>7 DEF Streams
      <4>2. /\ Later = Unsent <=> stream.age = Unsent
            /\ Later # Unsent => Later = stream.age + 1 \/ (Later = KeepAlive /\ stream.age = KeepAlive)
        BY <1>0, LaterDoes
      <4>3. CASE stream.age = Unsent
        BY <1>3, <3>2, <3>4, <3>5, <4>1, <4>2, <4>3, StreamConstants DEF Paced, Unsent
      <4>4. CASE stream.age # Unsent
        BY <1>3, <3>2, <3>4, <3>5, <4>1, <4>2, <4>4, StreamConstants DEF Paced, Unsent
      <4> QED BY <4>3, <4>4
    <3> QED BY <3>6, <3>7
  <2> QED BY <2>1, <2>2
<1>5. seen' \in [Gateways -> Views]
  BY <1>4 DEF Heard
<1>6. PartingInv' /\ known' \in BOOLEAN
  BY <1>0, <1>1, <1>3 DEF PartingInv, StreamTypeOK
<1> QED BY <1>0, <1>1, <1>3, <1>4, <1>5, <1>6 DEF StreamInv, StreamTypeOK, Streams, Views

\* A cadence in which the output is not at its work: nobody is in step any more.
LEMMA RestStep ==
    ASSUME StreamInv, seen' = Unheard, stream' \in Streams, UNCHANGED missed,
           stream'.sequence = stream.sequence, stream'.left = stream.left,
           stream'.at = stream.at, stream.at # "ending",
           known' = FALSE \/ (known' = known /\ stream'.open = stream.open
                              /\ stream'.streaming = stream.streaming)
    PROVE  StreamInv'
<1>0. StreamTypeOK /\ stream \in Streams /\ seen \in [Gateways -> Views] /\ PartingInv
  BY DEF StreamInv, StreamTypeOK, Streams, Views
<1>1. ASSUME NEW g \in Gateways PROVE InStep(seen'[g], stream')
  <2> SUFFICES ASSUME seen'[g].on, seen'[g].mine
               PROVE  Near(seen'[g], stream') /\ ~seen'[g].smooth
    BY DEF InStep
  <2>1. /\ seen[g].on /\ seen[g].mine /\ ~seen'[g].smooth /\ seen'[g].number = seen[g].number
        /\ seen'[g].quiet = seen[g].quiet + 1
        /\ seen[g].quiet \in 0 .. Loss /\ stream.left \in 0 .. Goodbyes
    BY <1>0, UnheardDoes DEF Views, Streams
  <2>2. Near(seen[g], stream)
    BY <2>1 DEF StreamInv, InStep
  <2> QED BY <2>1, <2>2, StreamConstants DEF Near
<1>2. seen' \in [Gateways -> Views] /\ Followers' \subseteq Followers
  BY <1>0, UnheardDoes DEF Followers
<1>3. PartingInv'
  <2>1. CASE known' = FALSE
    BY <1>0, <2>1 DEF PartingInv
  <2>2. CASE known' = known /\ stream'.open = stream.open /\ stream'.streaming = stream.streaming
    BY <1>0, <1>2, <2>2 DEF PartingInv
  <2> QED BY <2>1, <2>2
<1>4. known' \in BOOLEAN
  BY <1>0 DEF StreamTypeOK
<1> QED BY <1>0, <1>1, <1>2, <1>3, <1>4 DEF StreamInv, StreamTypeOK, Streams, Views

LEMMA StreamConnectStep == ASSUME StreamInv, StreamConnect PROVE StreamInv'
<1>1. stream \in Streams
  BY DEF StreamInv, StreamTypeOK, Streams
<1>2. /\ stream' \in Streams /\ stream'.sequence = stream.sequence
      /\ stream'.left = stream.left /\ stream'.at = stream.at
  BY <1>1 DEF StreamConnect, Streams
<1> QED BY <1>2, RestStep DEF StreamConnect

LEMMA LapseStep == ASSUME StreamInv, Lapse PROVE StreamInv'
<1>1. stream \in Streams /\ Later \in {Unsent} \cup 0 .. KeepAlive
  BY LaterDoes DEF StreamInv, StreamTypeOK, Streams
<1>2. /\ stream' \in Streams /\ stream'.sequence = stream.sequence
      /\ stream'.left = stream.left /\ stream'.at = stream.at
      /\ stream'.open = stream.open /\ stream'.streaming = stream.streaming
  BY <1>1 DEF Lapse, Streams
<1> QED BY <1>2, RestStep DEF Lapse

LEMMA ShutdownStep == ASSUME StreamInv, Shutdown PROVE StreamInv'
<1>0. /\ StreamTypeOK /\ stream \in Streams /\ seen \in [Gateways -> Views] /\ PartingInv
      /\ \A g \in Gateways : InStep(seen[g], stream)
  BY DEF StreamInv, StreamTypeOK, Streams, Views
<1>1. /\ stream.at = "running" /\ stream.left = Goodbyes /\ UNCHANGED <<seen, known>>
      /\ missed' = [g \in Gateways |-> 0]
  BY <1>0 DEF Shutdown, PartingInv
<1>2. /\ stream' \in Streams /\ stream'.sequence = stream.sequence
      /\ stream'.left = stream.left /\ stream'.at \in {"ending", "done"}
      /\ stream'.at = "done" => ~(stream.open /\ stream.streaming)
  BY <1>0 DEF Shutdown, Streams
<1>3. \A g \in Gateways : InStep(seen'[g], stream')
  BY <1>0, <1>1, <1>2 DEF InStep, Near
<1>4. missed' \in [Gateways -> 0 .. Goodbyes] /\ \A g \in Gateways : missed'[g] = 0
  BY <1>1, StreamConstants
<1>5. PartingInv'
  <2>1. stream'.at = "done" => ~known'
    BY <1>0, <1>1, <1>2 DEF PartingInv
  <2>2. \A g \in Followers' : g \in Gateways
    BY DEF Followers
  <2> QED BY <1>1, <1>2, <1>4, <2>1, <2>2, StreamConstants DEF PartingInv
<1> QED BY <1>0, <1>1, <1>2, <1>3, <1>4, <1>5 DEF StreamInv, StreamTypeOK, Streams, Views

\* A goodbye: who hears it takes it, since its number is news, and lets go.
LEMMA TerminateStep == ASSUME StreamInv, Terminate PROVE StreamInv'
<1>0. /\ StreamTypeOK /\ stream \in Streams /\ seen \in [Gateways -> Views] /\ PartingInv
      /\ \A g \in Gateways : InStep(seen[g], stream)
  BY DEF StreamInv, StreamTypeOK, Streams, Views
<1> PICK got \in SUBSET Gateways :
      /\ seen' = [g \in Gateways |->
                     IF g \in got /\ Takes(g, stream.sequence) THEN Forgotten ELSE seen[g]]
      /\ missed' = [g \in Gateways |-> IF g \in got THEN missed[g] ELSE missed[g] + 1]
  BY DEF Terminate
<1>1. /\ stream.at = "ending" /\ UNCHANGED known /\ stream.left \in 1 .. Goodbyes
      /\ stream.sequence \in 0 .. Numbers - 1 /\ missed \in [Gateways -> 0 .. Goodbyes]
  BY <1>0, StreamConstants DEF Terminate, PartingInv, Streams, StreamTypeOK
<1>2. Advanced(stream.sequence) \in 0 .. Numbers - 1
  BY <1>1, BehindDoes
<1>3. /\ stream' \in Streams /\ stream'.sequence = Advanced(stream.sequence)
      /\ stream'.left = stream.left - 1
      /\ stream'.at = IF stream.left = 1 THEN "done" ELSE "ending"
  <2> DEFINE at == IF stream.left = 1 THEN "done" ELSE "ending"
             more == stream.left > 1
  <2>1. stream.left - 1 \in 0 .. Goodbyes /\ at \in {"running", "ending", "done"}
        /\ more \in BOOLEAN
    BY <1>1, StreamConstants
  <2>2. stream' = [stream EXCEPT !.sequence = Advanced(stream.sequence), !.left = stream.left - 1,
                                 !.at = at, !.open = more, !.streaming = more]
    BY DEF Terminate
  <2> HIDE DEF at, more
  <2>3. /\ stream' \in Streams /\ stream'.sequence = Advanced(stream.sequence)
        /\ stream'.left = stream.left - 1 /\ stream'.at = at
    BY <1>0, <1>2, <2>1, <2>2 DEF Streams
  <2> QED BY <2>3 DEF at
<1>4. ASSUME NEW g \in Gateways, seen'[g].on, seen'[g].mine
      PROVE  /\ seen'[g] = seen[g] /\ g \notin got /\ Near(seen'[g], stream')
  <2>1. seen'[g] = seen[g] /\ ~(g \in got /\ Takes(g, stream.sequence))
    BY <1>4 DEF Forgotten
  <2>2. Near(seen[g], stream) /\ seen[g] \in Views /\ seen[g].quiet \in 0 .. Loss
        /\ seen[g].number \in 0 .. Numbers - 1
    BY <1>0, <1>4, <2>1 DEF InStep, Views
  <2>3. Newer(stream.sequence, seen[g].number) /\ Behind(stream.sequence, seen[g].number) < Numbers - 1
    BY <1>0, <1>1, <2>2, NearIsNewer, StreamConstants
  <2>4. Behind(stream'.sequence, seen[g].number) = Behind(stream.sequence, seen[g].number) + 1
    BY <1>1, <1>3, <2>2, <2>3, BehindDoes
  <2> QED BY <1>1, <1>3, <2>1, <2>2, <2>3, <2>4, StreamConstants DEF Near, Takes
<1>5. seen' \in [Gateways -> Views]
  <2>1. Forgotten \in Views
    BY StreamConstants DEF Forgotten, Views
  <2> QED BY <1>0, <2>1
<1>6. missed' \in [Gateways -> 0 .. Goodbyes]
      /\ \A g \in Gateways : missed'[g] <= Goodbyes - stream'.left
  <2> SUFFICES ASSUME NEW g \in Gateways
               PROVE  missed'[g] \in 0 .. Goodbyes /\ missed'[g] <= Goodbyes - stream'.left
    OBVIOUS
  <2>1. missed[g] \in 0 .. Goodbyes /\ missed[g] <= Goodbyes - stream.left
    BY <1>0, <1>1 DEF PartingInv
  <2> QED BY <1>1, <1>3, <2>1, StreamConstants
<1>7. \A g \in Followers' : missed'[g] = Goodbyes - stream'.left
  <2> SUFFICES ASSUME NEW g \in Gateways, seen'[g].on, seen'[g].mine
               PROVE  missed'[g] = Goodbyes - stream'.left
    BY DEF Followers
  <2>1. g \notin got /\ g \in Followers
    BY <1>4 DEF Followers
  <2>2. missed[g] = Goodbyes - stream.left /\ missed'[g] = missed[g] + 1
    BY <1>0, <1>1, <2>1 DEF PartingInv
  <2> QED BY <1>1, <1>3, <2>2, StreamConstants
<1>8. PartingInv'
  BY <1>1, <1>3, <1>6, <1>7, StreamConstants DEF PartingInv
<1>9. \A g \in Gateways : InStep(seen'[g], stream')
  BY <1>3, <1>4 DEF InStep
<1> QED BY <1>0, <1>1, <1>3, <1>5, <1>6, <1>8, <1>9 DEF StreamInv, StreamTypeOK, Streams, Views

LEMMA StreamInvInit == StreamInit => StreamInv
<1> SUFFICES ASSUME StreamInit PROVE StreamInv
  OBVIOUS
<1>1. 0 \in 0 .. Numbers - 1 /\ 0 \in 0 .. Loss /\ Goodbyes \in 0 .. Goodbyes
      /\ 0 \in 0 .. Goodbyes
  BY StreamConstants
<1>2. stream \in Streams /\ stream.at = "running" /\ stream.left = Goodbyes /\ known = FALSE
  BY <1>1 DEF StreamInit, NewStream, Streams
<1>3. seen \in [Gateways -> Views] /\ \A g \in Gateways : ~seen[g].on
  BY <1>1 DEF StreamInit, Forgotten, Views
<1>4. missed \in [Gateways -> 0 .. Goodbyes]
  BY <1>1 DEF StreamInit
<1>5. PartingInv
  BY <1>2 DEF PartingInv
<1> QED BY <1>2, <1>3, <1>4, <1>5 DEF StreamInv, StreamTypeOK, Streams, Views, InStep

LEMMA RestartStep == ASSUME StreamInv, Restart PROVE StreamInv'
<1>0. StreamTypeOK /\ seen \in [Gateways -> Views]
  BY DEF StreamInv, StreamTypeOK, Views
<1>1. /\ stream' = NewStream /\ known' = FALSE /\ UNCHANGED missed
      /\ seen' \in [Gateways -> Views] /\ \A g \in Gateways : ~seen'[g].mine
  BY <1>0 DEF Restart, Views
<1>2. NewStream \in Streams /\ NewStream.at = "running" /\ NewStream.left = Goodbyes
  BY StreamConstants DEF NewStream, Streams
<1> QED BY <1>0, <1>1, <1>2 DEF StreamInv, StreamTypeOK, Streams, Views, InStep, PartingInv

LEMMA StreamInvHolds == StreamSpec => []StreamInv
<1>1. ASSUME StreamInv, [StreamNext]_streamVars PROVE StreamInv'
  <2>1. CASE UNCHANGED streamVars
    BY <1>1, <2>1 DEF streamVars, StreamInv, StreamTypeOK, InStep, Near, Paced, PartingInv, Followers
  <2> QED BY <1>1, <2>1, StreamConnectStep, HeldStep, SentStep, LapseStep, ShutdownStep,
             TerminateStep, RestartStep DEF StreamNext
<1> QED BY <1>1, StreamInvInit, PTL DEF StreamSpec

\* For any gateways and any pattern of loss: the next packet is news to every
\* gateway that follows the driver, no single lost packet costs it its source,
\* and one goodbye that arrives is enough (sacn.rs, send_frame and terminate).
THEOREM GatewaysAreReached == StreamSpec => []GatewaysFollow
<1>1. StreamInv => GatewaysFollow
  <2> SUFFICES ASSUME StreamInv PROVE GatewaysFollow
    OBVIOUS
  <2>0. StreamTypeOK /\ stream \in Streams /\ PartingInv
    BY DEF StreamInv, StreamTypeOK, Streams
  <2>1. ASSUME NEW g \in Followers
        PROVE  /\ seen[g] \in Views /\ Near(seen[g], stream)
               /\ stream.at = "running" /\ seen[g].smooth => Paced(seen[g], stream)
    BY <2>1 DEF StreamInv, InStep, Followers, StreamTypeOK, Views
  <2>2. NumbersMoveOn
    BY <2>0, <2>1, NearIsNewer DEF NumbersMoveOn
  <2>3. LossIsSurvived
    <3> SUFFICES ASSUME NEW g \in Followers, stream.at = "running", seen[g].smooth,
                        seen[g].quiet = Loss
                 PROVE  Behind(stream.sequence, seen[g].number) > 2
      BY DEF LossIsSurvived
    <3>1. Near(seen[g], stream) /\ Paced(seen[g], stream) /\ stream.left \in 0 .. Goodbyes
          /\ stream.age \in {Unsent} \cup 0 .. KeepAlive
      BY <2>0, <2>1 DEF Streams
    <3>2. Behind(stream.sequence, seen[g].number) \in Nat \ {0}
      BY <3>1, StreamConstants DEF Near
    <3> QED BY <3>1, <3>2, StreamConstants DEF Paced, Unsent
  <2>4. GoodbyeIsHeard
    BY <2>0, StreamConstants DEF GoodbyeIsHeard, PartingInv
  <2> QED BY <2>0, <2>2, <2>3, <2>4 DEF GatewaysFollow
<1> QED BY <1>1, StreamInvHolds, PTL

==============================================================================
