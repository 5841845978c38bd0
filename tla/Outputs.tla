------------------------------- MODULE Outputs -------------------------------
(***************************************************************************)
(* The rig and what drives it: the supervisor that keeps one thread per     *)
(* configured row (prismd outputs.rs), the thread (prism-protocols          *)
(* runner.rs) with its sACN, Art-Net or Open DMX driver (sacn.rs,           *)
(* artnet.rs, opendmx.rs), and the thread that asks whether Art-Net nodes   *)
(* answer (prismd discovery.rs, prism-protocols discovery.rs).              *)
(*                                                                         *)
(* The supervisor works under the core's lock; it waits for the threads it  *)
(* stops.  Time is counted in cadences: one step of a driver is one.  A     *)
(* frame is a member of Looks, Dark the one a new buffer holds.             *)
(***************************************************************************)
EXTENDS Integers, FiniteSets

CONSTANTS
    Rows,       \* the outputs' numbers
    Receivers,  \* the addresses an output sends to
    Looks, Dark,\* the frames the engine publishes
    Slots,      \* bound: driver threads at a time
    Offered,    \* Offered[o]: the kinds row o is configured as
    Places,     \* FrameEnrolment's bound
    Refresh,    \* keep-alive interval less its margin, in cadences
    MaxDelay,   \* BackoffConfig::max, in cadences; the first delay is one
    Timeout     \* reply_timeout, in passes of the discovery

Kinds == {"sacn", "artnet", "opendmx"}
Never == -1
None == 0

ASSUME OutputsAssumption ==
    /\ Offered \in [Rows -> SUBSET Kinds]
    /\ Dark \in Looks /\ None \notin Rows /\ None \notin Slots
    /\ Slots \subseteq Nat \ {0} /\ IsFiniteSet(Slots)
    /\ Refresh \in Nat \ {0} /\ MaxDelay \in Nat \ {0}
    /\ Places \in Nat /\ Timeout \in Nat

VARIABLES
    rig,        \* MachineConfig's rows, or Absent
    sup,        \* where the supervisor stands in reconcile
    taken,      \* the enrolment's places, by thread
    thr,        \* the driver threads
    held,       \* what each receiver holds of each output, or Nothing
    frame,      \* the newest frame
    disco,      \* the discovery, and its thread
    table       \* the table the discovery keeps for those who ask

vars == <<rig, sup, taken, thr, held, frame, disco, table>>
supVars == <<rig, sup, taken>>
discoVars == <<disco, table>>

Absent == [kind |-> "absent", enabled |-> FALSE]
Nothing == "nothing"
Settings == [kind : Kinds, enabled : BOOLEAN]

\* OutputRunner::new and the driver it is built with
NewThread(o, kind) ==
    [of |-> o, kind |-> kind, stop |-> FALSE, fed |-> FALSE, at |-> "running",
     open |-> FALSE, status |-> "Disconnected",
     retry |-> 0, delay |-> 1, look |-> Dark, age |-> Never, wrong |-> 0]
NoThread == [NewThread(None, "sacn") EXCEPT !.at = "none"]

Running == {s \in Slots : thr[s].at # "none"}
Driving(o) == {s \in Running : thr[s].of = o /\ ~thr[s].stop}
ArtNet == {o \in Rows : rig[o].kind = "artnet"}
------------------------------------------------------------------------------
(* runner.rs and the drivers: one step of a thread. *)

\* Backoff::next_delay
Longer(delay) == IF 2 * delay < MaxDelay THEN 2 * delay ELSE MaxDelay

\* The interface is lost, or did not come up: wait, and wait longer next time.
\* What was sent last is forgotten when it comes up again.
Down(t) == [t EXCEPT !.open = FALSE, !.look = Dark, !.age = Never,
                     !.retry = t.delay, !.delay = Longer(t.delay), !.wrong = 0]

\* is_due: an Open DMX line is driven every time
Due(t, look) ==
    \/ t.kind = "opendmx" \/ t.age = Never \/ t.look # look
    \/ t.age + 1 >= Refresh

\* Mutant of Refused: a failed frame counts as sent.
RefusedIsSent(t, look) == [t EXCEPT !.look = look, !.age = 0]

\* What the driver writes down of a datagram that some receiver refused
Refused(t, look) ==
    IF t.kind = "artnet" THEN [t EXCEPT !.look = look, !.age = Never] ELSE t

Older(t) == [t EXCEPT !.age = IF @ = Never \/ @ = Refresh THEN @ ELSE @ + 1]

\* Another step that was answered Ok, and whether a receiver holds another look
Clean(t, ok) ==
    [t EXCEPT !.status = "Ok",
              !.wrong = IF ok THEN 0 ELSE IF @ = Refresh THEN @ ELSE @ + 1]

\* The receivers that take a frame: a DMX line takes a whole packet or none
Taken(t, got) == t.kind = "opendmx" => got \in {{}, Receivers}

Hears(o, look, some) == [held EXCEPT ![o] = [r \in Receivers |-> IF r \in some THEN look ELSE @[r]]]

Become(s, t) == thr' = [thr EXCEPT ![s] = t]
Awake(s) == thr[s].at = "running" /\ ~thr[s].stop

\* The frame a thread refreshes to: the newest once the tick has fed it
Newest(s) ==
    IF ~thr[s].fed THEN {Dark} ELSE IF s \in taken THEN {frame} ELSE {frame, thr[s].look}

\* send_step, when the frame need not go out
Hold(s) ==
    LET t == thr[s] IN
    /\ Awake(s) /\ t.open
    /\ \E look \in Newest(s) :
         /\ ~Due(t, look)
         /\ Become(s, Clean(Older(t), \A r \in Receivers : held[t.of][r] = look))
    /\ UNCHANGED <<supVars, held, frame, discoVars>>

\* send_step: every address is tried, and the worst answer counts
Send(s) ==
    LET t == thr[s] IN
    /\ Awake(s) /\ t.open
    /\ \E look \in Newest(s), got \in SUBSET Receivers :
         /\ Due(t, look)
         /\ Taken(t, got)
         /\ held' = Hears(t.of, look, got)
         /\ \/ /\ got = Receivers
               /\ Become(s, Clean([t EXCEPT !.look = look, !.age = 0], TRUE))
            \/ /\ got # Receivers
               /\ Become(s, [Refused(Older(t), look) EXCEPT
                       !.status = "Degraded", !.wrong = 0])
            \/ /\ got # Receivers
               /\ Become(s, [Down(Refused(Older(t), look)) EXCEPT !.status = "Disconnected"])
    /\ UNCHANGED <<supVars, frame, discoVars>>

\* A driver that panics in a frame keeps its socket and loses the frame
SendPanics(s) ==
    /\ Awake(s) /\ thr[s].open
    /\ Become(s, [Older(thr[s]) EXCEPT !.status = "Degraded", !.wrong = 0])
    /\ UNCHANGED <<supVars, held, frame, discoVars>>

Wait(s) ==
    /\ Awake(s) /\ ~thr[s].open /\ thr[s].retry > 0
    /\ Become(s, [thr[s] EXCEPT !.retry = @ - 1])
    /\ UNCHANGED <<supVars, held, frame, discoVars>>

\* connect_step: it comes up and has sent nothing, it fails, or it panics
Connect(s) ==
    LET t == thr[s] IN
    /\ Awake(s) /\ ~t.open /\ t.retry = 0
    /\ \/ Become(s, [t EXCEPT !.open = TRUE, !.status = "Ok",
                              !.delay = 1, !.age = Never])
       \/ \E light \in {"Disconnected", "Degraded"} :
            Become(s, [Down(t) EXCEPT !.status = light])
    /\ UNCHANGED <<supVars, held, frame, discoVars>>

\* terminate: only a stream that is running is ended, and only the receivers
\* that hear of it let go (SacnStream counts the packets)
Ended(t, got) ==
    IF t.kind = "sacn" /\ t.open /\ t.age # Never
    THEN Hears(t.of, Nothing, got) ELSE held

\* run: the stop is seen at the next step, and the output is shut down
Finish(s) ==
    /\ thr[s].at = "running" /\ thr[s].stop
    /\ \E got \in SUBSET Receivers : held' = Ended(thr[s], got)
    /\ Become(s, [thr[s] EXCEPT !.at = "done", !.status = "Disconnected"])
    /\ UNCHANGED <<supVars, frame, discoVars>>

\* The tick publishes to every buffer that is enrolled
Publish(look) ==
    /\ frame' = look
    /\ thr' = [s \in Slots |-> IF s \in taken THEN [thr[s] EXCEPT !.fed = TRUE] ELSE thr[s]]
    /\ thr' # thr \/ frame' # frame
    /\ UNCHANGED <<supVars, held, discoVars>>
------------------------------------------------------------------------------
(* outputs.rs: a command changes a row, and reconcile follows. *)

Idle == [at |-> "idle", leaving |-> {}, todo |-> {}, failed |-> {}]

\* needs_restart: every thread no row describes any more
Leaving(new) ==
    {s \in Running : [kind |-> thr[s].kind, enabled |-> TRUE] # new[thr[s].of]}

\* apply for AddOutput, ConfigureOutput, SetOutputEnabled and RemoveOutput
Command(o, row) ==
    /\ sup.at = "idle" /\ rig[o] # row /\ row.kind \in Offered[o] \cup {"absent"}
    /\ row = Absent \/ rig[o] = Absent \/ row.kind = rig[o].kind \/ row.enabled = rig[o].enabled
    /\ rig' = [rig EXCEPT ![o] = row]
    /\ sup' = [Idle EXCEPT !.at = "stopping", !.leaving = Leaving(rig'),
                           !.failed = sup.failed]
    /\ UNCHANGED <<taken, thr, held, frame, discoVars>>

\* stop_one: the place is given back, and the thread is asked to stop ...
StopOne(s) ==
    /\ sup.at = "stopping" /\ s \in sup.leaving
    /\ taken' = taken \ {s}
    /\ Become(s, [thr[s] EXCEPT !.stop = TRUE])
    /\ sup' = [sup EXCEPT !.at = "joining", !.leaving = @ \ {s}]
    /\ UNCHANGED <<rig, held, frame, discoVars>>

\* Mutant of Join: the thread is let go of without being waited for.
LetGo(s) ==
    /\ sup.at = "joining" /\ thr[s].at # "none" /\ thr[s].stop
    /\ sup' = [sup EXCEPT !.at = "stopping"]
    /\ Become(s, IF thr[s].at = "done" THEN NoThread ELSE thr[s])
    /\ UNCHANGED <<rig, taken, held, frame, discoVars>>

\* ... and waited for.  What its receivers were left with is not followed on.
Join(s) ==
    /\ sup.at = "joining" /\ thr[s].at = "done"
    /\ Become(s, NoThread)
    /\ sup' = [sup EXCEPT !.at = "stopping"]
    /\ held' = Hears(thr[s].of, Nothing, Receivers)
    /\ UNCHANGED <<rig, taken, frame, discoVars>>

AllStopped ==
    /\ sup.at = "stopping" /\ sup.leaving = {}
    /\ sup' = [sup EXCEPT !.at = "starting",
                          !.todo = {o \in Rows : rig[o].enabled /\ Driving(o) = {}}]
    /\ UNCHANGED <<rig, taken, thr, held, frame, discoVars>>

\* start_one: subscribe, open and spawn; a thread that cannot be made gives its
\* place back
StartOne(o) ==
    /\ sup.at = "starting" /\ o \in sup.todo
    /\ \/ /\ Cardinality(taken) < Places
          /\ \E s \in Slots \ Running :
               /\ Become(s, NewThread(o, rig[o].kind))
               /\ taken' = taken \cup {s}
          /\ sup' = [sup EXCEPT !.todo = @ \ {o}, !.failed = @ \ {o}]
       \/ /\ Cardinality(taken) >= Places
          /\ sup' = [sup EXCEPT !.todo = @ \ {o}]
          /\ UNCHANGED <<taken, thr>>
       \/ /\ sup' = [sup EXCEPT !.todo = @ \ {o}, !.failed = @ \cup {o}]
          /\ UNCHANGED <<taken, thr>>
    /\ UNCHANGED <<rig, held, frame, discoVars>>

\* start: the discovery's thread cannot be made, and the next command tries again
SpawnFails ==
    /\ ArtNet # {} /\ ~disco.handle
    /\ disco' = [disco EXCEPT !.run = FALSE]
    /\ table' = [table EXCEPT !.listening = FALSE]
    /\ sup' = [sup EXCEPT !.at = "idle"]

\* Mutant of Retarget: the thread is waited for and was never told to stop.
RetargetUntold ==
    /\ sup.at = "starting" /\ sup.todo = {}
    /\ \/ /\ disco' = [disco EXCEPT
                        !.run = @ \/ (ArtNet # {} /\ ~disco.handle),
                        !.handle = disco.handle \/ ArtNet # {},
                        !.at = IF ArtNet # {} /\ ~disco.handle THEN "opening" ELSE @]
          /\ sup' = [sup EXCEPT !.at = IF ArtNet = {} /\ disco.handle THEN "closing" ELSE "idle"]
          /\ UNCHANGED table
       \/ SpawnFails
    /\ UNCHANGED <<rig, taken, thr, held, frame>>

\* Discovery::retarget, after the threads: start, stop and wait, or go on
Retarget ==
    /\ sup.at = "starting" /\ sup.todo = {}
    /\ \/ /\ disco' = [disco EXCEPT
                        !.run = ArtNet # {} /\ (disco.handle => @),
                        !.handle = disco.handle \/ ArtNet # {},
                        !.at = IF ArtNet # {} /\ ~disco.handle THEN "opening" ELSE @]
          /\ sup' = [sup EXCEPT !.at = IF ArtNet = {} /\ disco.handle THEN "closing" ELSE "idle"]
          /\ UNCHANGED table
       \/ SpawnFails
    /\ UNCHANGED <<rig, taken, thr, held, frame>>

\* Discovery::stop, once its thread is joined
Closed ==
    /\ sup.at = "closing" /\ disco.at = "gone"
    /\ disco' = [disco EXCEPT !.handle = FALSE, !.at = "none"]
    /\ table' = [table EXCEPT !.listening = FALSE]
    /\ sup' = [sup EXCEPT !.at = "idle"]
    /\ UNCHANGED <<rig, taken, thr, held, frame>>
------------------------------------------------------------------------------
(* discovery.rs: the conversation with the nodes. *)

\* Mutant of Listen: the flag is set, and the table is what it was.
ListenWithMemory ==
    /\ disco.at = "opening"
    /\ disco' = [disco EXCEPT !.at = "serving", !.heard = Never]
    /\ table' = [table EXCEPT !.listening = TRUE]
    /\ UNCHANGED <<supVars, thr, held, frame>>

\* run: the port is opened with an empty table, or is somebody else's
Listen ==
    /\ disco.at = "opening"
    /\ \/ /\ disco' = [disco EXCEPT !.at = "serving", !.heard = Never]
          /\ table' = [listening |-> TRUE, heard |-> Never]
       \/ /\ disco' = [disco EXCEPT !.at = "gone", !.run = FALSE]
          /\ table' = [table EXCEPT !.listening = FALSE]
    /\ UNCHANGED <<supVars, thr, held, frame>>

\* service and publish: a node answered in this pass, or it did not
Serve ==
    /\ disco.at = "serving" /\ disco.run
    /\ \E heard \in {disco.heard, 0} :
         LET now == IF heard = Never \/ heard > Timeout THEN heard ELSE heard + 1 IN
         /\ disco' = [disco EXCEPT !.heard = now]
         /\ table' = [listening |-> TRUE, heard |-> now]
    /\ UNCHANGED <<supVars, thr, held, frame>>

StopServing ==
    /\ disco.at = "serving" /\ ~disco.run
    /\ disco' = [disco EXCEPT !.at = "gone", !.heard = Never]
    /\ table' = [listening |-> FALSE, heard |-> disco.heard]
    /\ UNCHANGED <<supVars, thr, held, frame>>

\* reported_health: the driver's, and the node's where one can be asked
Reported(s) ==
    LET t == thr[s] IN
    IF t.status = "Ok" /\ t.kind = "artnet" /\ table.listening
       /\ (table.heard = Never \/ table.heard > Timeout)
    THEN "Degraded" ELSE t.status
------------------------------------------------------------------------------
Init ==
    /\ rig = [o \in Rows |-> Absent]
    /\ sup = Idle /\ taken = {}
    /\ thr = [s \in Slots |-> NoThread]
    /\ held = [o \in Rows |-> [r \in Receivers |-> Nothing]]
    /\ frame = Dark
    /\ disco = [handle |-> FALSE, at |-> "none", run |-> FALSE, heard |-> Never]
    /\ table = [listening |-> FALSE, heard |-> Never]

Driver(s) ==
    Hold(s) \/ Send(s) \/ SendPanics(s) \/ Wait(s) \/ Connect(s) \/ Finish(s)
Reconcile ==
    \/ \E s \in Slots : StopOne(s) \/ Join(s)
    \/ AllStopped \/ (\E o \in Rows : StartOne(o)) \/ Retarget \/ Closed
Discover == Listen \/ Serve \/ StopServing

Next ==
    \/ \E o \in Rows, row \in Settings \cup {Absent} : Command(o, row)
    \/ Reconcile \/ Discover
    \/ \E s \in Slots : Driver(s)
    \/ \E look \in Looks : Publish(look)

\* Every thread goes on; nobody has to command, publish or answer
Fairness ==
    /\ WF_vars(Reconcile) /\ WF_vars(Listen \/ StopServing)
    /\ \A s \in Slots : WF_vars(Driver(s))

Spec == Init /\ [][Next]_vars /\ Fairness
------------------------------------------------------------------------------
Lights == {"Ok", "Degraded", "Disconnected"}

TypeOK ==
    /\ rig \in [Rows -> Settings \cup {Absent}]
    /\ sup \in [at : {"idle", "stopping", "joining", "starting", "closing"},
                leaving : SUBSET Slots, todo : SUBSET Rows, failed : SUBSET Rows]
    /\ taken \subseteq Slots /\ frame \in Looks
    /\ thr \in [Slots -> [of : Rows \cup {None}, kind : Kinds, stop : BOOLEAN,
                          fed : BOOLEAN, at : {"none", "running", "done"},
                          open : BOOLEAN, status : Lights,
                          retry : 0 .. MaxDelay, delay : 1 .. MaxDelay, look : Looks,
                          age : {Never} \cup 0 .. Refresh, wrong : 0 .. Refresh]]
    /\ held \in [Rows -> [Receivers -> Looks \cup {Nothing}]]
    /\ disco \in [handle : BOOLEAN, at : {"none", "opening", "serving", "gone"},
                  run : BOOLEAN, heard : {Never} \cup 0 .. Timeout + 1]
    /\ table \in [listening : BOOLEAN, heard : {Never} \cup 0 .. Timeout + 1]

\* stop_one: an output never has two threads, and so never two senders; what
\* was sent last is what the new thread sent.
OneSender ==
    \A s, q \in Slots :
        thr[s].at = "running" /\ thr[q].at = "running" /\ thr[s].of = thr[q].of => s = q

\* reconcile: when a command has been carried out, every enabled row is driven,
\* by one thread, with the settings it has now, unless the system refused the
\* thread or every place is a running thread's; nothing else is driven, and no
\* place is held by anything else.  And at no moment has an output two senders.
RigRuns == TypeOK /\ OneSender /\ (
    sup.at = "idle" =>
        /\ Running = taken
        /\ \A o \in Rows :
             \/ \E s \in Slots : Driving(o) = {s} /\ rig[o] = [kind |-> thr[s].kind, enabled |-> TRUE]
             \/ /\ Driving(o) = {}
                /\ ~rig[o].enabled \/ o \in sup.failed \/ Cardinality(Running) = Places)

\* artnet.rs and sacn.rs send_frame: a light is green over a receiver that holds
\* another look for less than a keep-alive; over an Art-Net node it never is.
GreenMeansHeld ==
    \A s \in Running :
        thr[s].wrong <= IF thr[s].kind = "sacn" THEN Refresh - 1 ELSE 0

\* discovery.rs stop and reported_health: with no Art-Net row the port is given
\* back, one thread holds it at most, and a green Art-Net light while listening
\* rests on an answer heard through the socket that is open.
AnswersAreCurrent ==
    /\ sup.at = "idle" /\ ArtNet = {} => disco.at = "none" /\ ~table.listening
    /\ disco.at = "serving" /\ table.listening => table.heard = disco.heard
    /\ \A s \in Running :
         Reported(s) = "Ok" /\ thr[s].kind = "artnet" /\ table.listening
            => disco.heard \in 0 .. Timeout

\* reconcile waits for threads under the core's lock: it comes to an end.
ReconcileEnds == sup.at # "idle" ~> sup.at = "idle"
==============================================================================
