----------------------------- MODULE ClientLink -----------------------------
(***************************************************************************)
(* The IPC server (prism-ipc server.rs, backpressure.rs), the desk behind   *)
(* it (prismd server.rs) and the client that mirrors the desk              *)
(* (ui/src/ipc/connection.ts and the mirror it feeds).                      *)
(*                                                                         *)
(* A connection is served by a task of its own: handshake, entry in the    *)
(* client list, snapshot, then the pump.  The task that applied a command  *)
(* broadcasts its delta to the connections one at a time; the daemon's own  *)
(* loop (surface, timers) is one more such task.  Nothing orders two tasks  *)
(* but the mutex around the core and the one around each queue.             *)
(*                                                                         *)
(* The document is a map from keys to the version that last wrote them, 0   *)
(* for a key that is not there.                                             *)
(***************************************************************************)
EXTENDS Naturals, Sequences, FiniteSets

CONSTANTS
    Clients,        \* interfaces: each holds one connection.ts Connection
    Keys,           \* members of the mirrored document
    Daemon,         \* the task of the daemon's own loop
    MaxConns,       \* bound: sockets opened in a behaviour
    MaxVersion,     \* bound: edits of the document
    ControlQueue,   \* ServerConfig::control_queue
    WireRoom        \* payloads the transport takes before the client reads

ASSUME LinkAssumption ==
    /\ {MaxConns, ControlQueue, WireRoom} \subseteq Nat \ {0}
    /\ MaxVersion \in Nat
    /\ Daemon \notin 1 .. MaxConns

Conns == 1 .. MaxConns
NoConn == 0
Tasks == Conns \cup {Daemon}
Versions == 0 .. MaxVersion
Docs == [Keys -> Versions]

VARIABLES
    doc,        \* the show, behind the core's mutex
    version,    \* how many edits it has had
    daemon,     \* "up", "stopping" or "down"
    telling,    \* connections Server::shutdown has still to tell
    clients,    \* Inner::clients: the connections broadcasts go to
    pc,         \* where each connection's serve task stands
    outbound,   \* each connection's Outbound
    wake,       \* the permit its Notify holds
    look,       \* what the pump saw of the queue before it waited
    taken,      \* the snapshot taken and not yet queued
    job,        \* the command a task applied and has not finished telling
    up,         \* payloads on their way to the daemon
    down,       \* payloads on their way to the client
    left,       \* sockets the client closed, or the network did
    ui          \* the clients

vars == <<doc, version, daemon, telling, clients, pc, outbound, wake, look,
          taken, job, up, down, left, ui>>
serverVars == <<doc, version, daemon, telling, clients, job, taken>>
------------------------------------------------------------------------------
(* Messages, and the queue of one connection. *)

Ops == [ver : Versions \ {0}, key : Keys, val : Versions,
        kind : {"Add", "Replace", "Remove"}]
Delta(op) == [t |-> "Delta", op |-> op]
Snapshot(s) == [t |-> "Snapshot", doc |-> s.doc, ver |-> s.ver]
Ack(ver) == [t |-> "Ack", ver |-> ver]
Reject(reason) == [t |-> "Reject", reason |-> reason]
Telemetry == [t |-> "Telemetry"]
Hello == [t |-> "Hello"]
Command(key, put) == [t |-> "Command", key |-> key, put |-> put]

\* ServerMessage::is_terminal
Terminal(m) ==
    m.t = "Reject" /\ m.reason \in {"OutOfOrder", "Backpressure", "ShuttingDown"}

EmptyOutbound == [control |-> <<>>, telemetry |-> FALSE, closed |-> FALSE]

\* Outbound::fail
Fail(o, m) == [control |-> <<m>>, telemetry |-> FALSE, closed |-> TRUE]

\* Mutant of Push: the queue holds one more than its limit.
PushOneMore(o, m) ==
    IF o.closed THEN o
    ELSE IF m.t = "Telemetry" THEN [o EXCEPT !.telemetry = TRUE]
    ELSE IF Len(o.control) > ControlQueue THEN Fail(o, Reject("Backpressure"))
    ELSE [o EXCEPT !.control = Append(@, m)]

\* Mutant of Push: a message that finds no room is dropped.
PushOrDrop(o, m) ==
    IF o.closed \/ (m.t # "Telemetry" /\ Len(o.control) >= ControlQueue) THEN o
    ELSE IF m.t = "Telemetry" THEN [o EXCEPT !.telemetry = TRUE]
    ELSE [o EXCEPT !.control = Append(@, m)]

\* Outbound::push, and the end Connection::push makes of a full queue
Push(o, m) ==
    IF o.closed THEN o
    ELSE IF m.t = "Telemetry" THEN [o EXCEPT !.telemetry = TRUE]
    ELSE IF Len(o.control) >= ControlQueue THEN Fail(o, Reject("Backpressure"))
    ELSE [o EXCEPT !.control = Append(@, m)]

\* Mutant of NextOut: the picture first.
PictureFirst(o) == IF o.telemetry THEN Telemetry ELSE Head(o.control)

\* Outbound::take: control first
NextOut(o) == IF o.control # <<>> THEN Head(o.control) ELSE Telemetry
Rest(o) == IF o.control # <<>> THEN [o EXCEPT !.control = Tail(@)]
           ELSE [o EXCEPT !.telemetry = FALSE]
Waiting(o) == o.control # <<>> \/ o.telemetry

\* Mutant of Ring: only the first message of an empty queue rings.
RingOnce(s) == wake' = [wake EXCEPT ![s] = @ \/ ~Waiting(outbound[s])]

\* Connection::push: queue it and ring
Ring(s) == wake' = [wake EXCEPT ![s] = TRUE]
PushTo(s, m) ==
    IF pc[s] = "ended" THEN UNCHANGED <<outbound, wake>>
    ELSE outbound' = [outbound EXCEPT ![s] = Push(@, m)] /\ Ring(s)
------------------------------------------------------------------------------
(* The document and its mirror. *)

\* An edit of the show and the operation that describes it.  A key that is
\* there is replaced, one that is not is added; taking away what is not
\* there is refused before anything is written.
Refused(key, put) == ~put /\ doc[key] = 0
OpFor(key, put) ==
    [ver |-> version + 1, key |-> key, val |-> IF put THEN version + 1 ELSE 0,
     kind |-> IF ~put THEN "Remove" ELSE IF doc[key] = 0 THEN "Add" ELSE "Replace"]

\* JsonMirror::apply: replace and remove are defined only where something is
Fits(mirror, op) == op.kind = "Add" \/ mirror[op.key] # 0
Applied(mirror, op) == [mirror EXCEPT ![op.key] = op.val]
------------------------------------------------------------------------------
(* The interface: connection.ts. *)

Idle == [running |-> FALSE, phase |-> "idle", socket |-> NoConn, retry |-> FALSE,
         base |-> 0, heard |-> {}, mirror |-> [k \in Keys |-> 0]]

Fresh == {s \in Conns : pc[s] = "none" /\ \A r \in Conns : r < s => pc[r] # "none"}

\* #dropSocket: the socket is closed, and nothing it says later is listened to
\* (DeskStore::disconnected empties the mirror.)
Dropped(u) == [Idle EXCEPT !.running = u.running, !.retry = u.retry]
Closed(S) == left' = left \cup S /\ down' = [s \in Conns |-> IF s \in S THEN <<>> ELSE down[s]]
Socket(u) == {u.socket} \ {NoConn}
\* #scheduleRetry and #arm: the timer replaces one that is waiting
Scheduled(u) == [u EXCEPT !.retry = u.running]

\* #connect: a socket is opened; the one before it is not looked at
Connect(c, u) ==
    \E s \in Fresh :
        /\ ui' = [ui EXCEPT ![c] = [u EXCEPT !.socket = s, !.phase = "opening"]]
        /\ pc' = [pc EXCEPT ![s] = "opening"]

Start(c) ==
    /\ ~ui[c].running
    /\ Connect(c, [ui[c] EXCEPT !.running = TRUE])
    /\ UNCHANGED <<serverVars, outbound, wake, look, up, down, left>>

Stop(c) ==
    /\ ui[c].running
    /\ ui' = [ui EXCEPT ![c] = [Dropped(@) EXCEPT !.running = FALSE, !.retry = FALSE]]
    /\ Closed(Socket(ui[c]))
    /\ UNCHANGED <<serverVars, pc, outbound, wake, look, up>>

\* The timer #arm set
Retry(c) ==
    /\ ui[c].retry /\ ui[c].running
    /\ Connect(c, [ui[c] EXCEPT !.retry = FALSE])
    /\ UNCHANGED <<serverVars, outbound, wake, look, up, down, left>>

\* #onOpen: the daemon accepted the socket and the client says hello
OnOpen(c) ==
    LET s == ui[c].socket IN
    /\ ui[c].phase = "opening" /\ s \notin left /\ daemon = "up"
    /\ ui' = [ui EXCEPT ![c].phase = "waiting-for-snapshot"]
    /\ up' = [up EXCEPT ![s] = <<Hello>>]
    /\ pc' = [pc EXCEPT ![s] = "handshake"]
    /\ UNCHANGED <<serverVars, outbound, wake, look, down, left>>

\* #onClose: for a socket that is still the client's
OnClose(c) ==
    LET s == ui[c].socket IN
    /\ s # NoConn
    /\ \/ s \in left
       \/ pc[s] = "ended" /\ down[s] = <<>>
       \/ pc[s] = "opening" /\ daemon # "up"
    /\ ui' = [ui EXCEPT ![c] = Scheduled(Dropped(@))]
    /\ Closed(Socket(ui[c]))
    /\ UNCHANGED <<serverVars, pc, outbound, wake, look, up>>

\* Commands on their way (for the bound on edits)
InFlight == UNION {{s} \X {i \in DOMAIN up[s] : up[s][i].t = "Command"} : s \in Conns}
Asked == Cardinality(InFlight)

\* send: nothing is kept for a later connection
Send(c, key, put) ==
    LET s == ui[c].socket IN
    /\ ui[c].phase = "ready" /\ s \notin left /\ pc[s] # "ended"
    /\ version + Asked < MaxVersion
    /\ up' = [up EXCEPT ![s] = Append(@, Command(key, put))]
    /\ UNCHANGED <<serverVars, pc, outbound, wake, look, down, left, ui>>

\* #onMessage, with #onHandshakeAnswer while the snapshot is awaited
AfterAnswer(u, m) ==
    IF m.t = "Snapshot"
    THEN [u EXCEPT !.phase = "ready", !.base = m.ver, !.heard = {}, !.mirror = m.doc]
    ELSE Scheduled(Dropped(u))

\* Mutant of AfterMessage: the retry is left to the closed socket's onClose.
AfterMessageLeft(u, m) ==
    CASE m.t = "Delta" /\ Fits(u.mirror, m.op) ->
            [u EXCEPT !.mirror = Applied(@, m.op), !.heard = @ \cup {m.op.ver}]
      [] m.t = "Delta" /\ ~Fits(u.mirror, m.op) -> Scheduled(Dropped(u))
      [] Terminal(m) -> Dropped(u)
      [] OTHER -> u

AfterMessage(u, m) ==
    CASE m.t = "Delta" /\ Fits(u.mirror, m.op) ->
            [u EXCEPT !.mirror = Applied(@, m.op), !.heard = @ \cup {m.op.ver}]
      [] m.t = "Delta" /\ ~Fits(u.mirror, m.op) -> Scheduled(Dropped(u))
      [] Terminal(m) -> Scheduled(Dropped(u))
      [] m.t = "Snapshot" -> Scheduled(Dropped(u))
      [] OTHER -> u

OnMessage(c) ==
    LET s == ui[c].socket
        m == Head(down[s])
        after == IF ui[c].phase = "waiting-for-snapshot"
                 THEN AfterAnswer(ui[c], m) ELSE AfterMessage(ui[c], m)
    IN  /\ s # NoConn /\ s \notin left /\ down[s] # <<>>
        /\ ui' = [ui EXCEPT ![c] = after]
        /\ IF after.socket = NoConn THEN Closed({s})
           ELSE down' = [down EXCEPT ![s] = Tail(@)] /\ UNCHANGED left
        /\ UNCHANGED <<serverVars, pc, outbound, wake, look, up>>

\* The network loses a connection
Cut(s) ==
    /\ pc[s] \notin {"none", "ended"} /\ s \notin left
    /\ Closed({s})
    /\ UNCHANGED <<serverVars, pc, outbound, wake, look, up, ui>>
------------------------------------------------------------------------------
(* ServerHandle::serve, one task a connection. *)

NotTaken == [doc |-> [k \in Keys |-> 0], ver |-> 0]
NotLooked == [waiting |-> FALSE, closing |-> FALSE]
Blind(s) == look' = [look EXCEPT ![s] = NotLooked]

\* A task that ends takes its queues with it
Freed(S) ==
    /\ outbound' = [s \in Conns |-> IF s \in S THEN EmptyOutbound ELSE outbound[s]]
    /\ wake' = [s \in Conns |-> wake[s] /\ s \notin S]
    /\ up' = [s \in Conns |-> IF s \in S THEN <<>> ELSE up[s]]

At(s, label) == daemon # "down" /\ pc[s] = label
Go(s, label) == pc' = [pc EXCEPT ![s] = label]

\* handshake, then the entry in the client list
Enter(s) ==
    /\ At(s, "handshake") /\ up[s] # <<>>
    /\ up' = [up EXCEPT ![s] = Tail(@)]
    /\ clients' = clients \cup {s}
    /\ Go(s, "entered")
    /\ UNCHANGED <<doc, version, daemon, telling, outbound, wake, look, taken,
                   job, down, left, ui>>

\* The desk's snapshot, under the core's lock
TakeSnapshot(s) ==
    /\ At(s, "entered")
    /\ taken' = [taken EXCEPT ![s] = [doc |-> doc, ver |-> version]]
    /\ Go(s, "snapshot")
    /\ UNCHANGED <<doc, version, daemon, telling, clients, outbound, wake, look,
                   job, up, down, left, ui>>

QueueSnapshot(s) ==
    /\ At(s, "snapshot")
    /\ PushTo(s, Snapshot(taken[s]))
    /\ taken' = [taken EXCEPT ![s] = NotTaken]
    /\ Go(s, "look")
    /\ UNCHANGED <<doc, version, daemon, telling, clients, job, look, up, down,
                   left, ui>>

\* The head of the pump's loop: the wait is prepared, then the queue read
Look(s) ==
    /\ At(s, "look")
    /\ look' = [look EXCEPT ![s] = [waiting |-> Waiting(outbound[s]),
                                    closing |-> outbound[s].closed]]
    /\ Go(s, "select")
    /\ UNCHANGED <<serverVars, outbound, wake, up, down, left, ui>>

Room(s) == Len(down[s]) < WireRoom

\* First arm: a payload is read before anything is sent
ReceiveCommand(s) ==
    /\ At(s, "select") /\ up[s] # <<>>
    /\ up' = [up EXCEPT ![s] = Tail(@)]
    /\ LET m == Head(up[s]) IN
         IF Refused(m.key, m.put)
         THEN /\ PushTo(s, Reject("CommandRefused"))
              /\ Go(s, "look")
              /\ UNCHANGED <<doc, version, job>>
         ELSE LET op == OpFor(m.key, m.put) IN
              /\ doc' = Applied(doc, op)
              /\ version' = version + 1
              /\ job' = [job EXCEPT ![s] = [op |-> {op}, listed |-> FALSE, to |-> {}]]
              /\ Go(s, "tell")
              /\ UNCHANGED <<outbound, wake>>
    /\ Blind(s)
    /\ UNCHANGED <<daemon, telling, clients, taken, down, left, ui>>

\* Second arm: the transport has room and the queue is asked what goes next
SendNext(s) ==
    /\ At(s, "select") /\ up[s] = <<>> /\ look[s].waiting /\ Room(s)
    /\ LET m == NextOut(outbound[s]) IN
         IF Waiting(outbound[s])
         THEN /\ down' = IF s \in left THEN down ELSE [down EXCEPT ![s] = Append(@, m)]
              /\ outbound' = [outbound EXCEPT ![s] = Rest(@)]
              /\ Go(s, IF Terminal(m) THEN "closing" ELSE "look")
         ELSE Go(s, "look") /\ UNCHANGED <<down, outbound>>
    /\ Blind(s)
    /\ UNCHANGED <<serverVars, wake, up, left, ui>>

\* room_to_send gives up on a client that does not read its last message
Goodbye(s) ==
    /\ At(s, "select") /\ up[s] = <<>> /\ look[s].waiting /\ ~Room(s)
    /\ look[s].closing
    /\ Go(s, "closing")
    /\ Blind(s)
    /\ UNCHANGED <<serverVars, outbound, wake, up, down, left, ui>>

\* Third arm: something was queued since the queue was read
Woken(s) ==
    /\ At(s, "select") /\ up[s] = <<>> /\ ~(look[s].waiting /\ Room(s))
    /\ wake[s]
    /\ wake' = [wake EXCEPT ![s] = FALSE]
    /\ Go(s, "look")
    /\ Blind(s)
    /\ UNCHANGED <<serverVars, outbound, up, down, left, ui>>

\* The wire answers that the other end has gone
Gone(s) ==
    /\ At(s, "select") /\ s \in left /\ up[s] = <<>>
    /\ Go(s, "closing")
    /\ Blind(s)
    /\ UNCHANGED <<serverVars, outbound, wake, up, down, left, ui>>

HandshakeLost(s) ==
    /\ At(s, "handshake") /\ s \in left
    /\ Go(s, "ended")
    /\ Freed({s})
    /\ UNCHANGED <<serverVars, look, down, left, ui>>

\* Out of the list, and the socket is shut
Leave(s) ==
    /\ At(s, "closing")
    /\ clients' = clients \ {s}
    /\ Go(s, "ended")
    /\ Freed({s})
    /\ UNCHANGED <<doc, version, daemon, telling, look, taken, job, down, left, ui>>
------------------------------------------------------------------------------
(* Broadcasting, the daemon's own edits, and its end. *)

NoJob == [op |-> {}, listed |-> FALSE, to |-> {}]

\* A surface gesture or a timer edits the show through the same core
DaemonEdit(key, put) ==
    /\ daemon = "up" /\ job[Daemon].op = {} /\ version + Asked < MaxVersion
    /\ ~Refused(key, put)
    /\ LET op == OpFor(key, put) IN
         /\ doc' = Applied(doc, op)
         /\ version' = version + 1
         /\ job' = [job EXCEPT ![Daemon] = [op |-> {op}, listed |-> FALSE, to |-> {}]]
    /\ UNCHANGED <<daemon, telling, clients, pc, outbound, wake, look, taken, up,
                   down, left, ui>>

\* broadcast: who is connected is read once, and each is told in its turn
List(t) ==
    /\ daemon # "down" /\ job[t].op # {} /\ ~job[t].listed
    /\ job' = [job EXCEPT ![t].listed = TRUE, ![t].to = clients]
    /\ UNCHANGED <<doc, version, daemon, telling, clients, pc, outbound, wake,
                   look, taken, up, down, left, ui>>

Tell(t, s) ==
    /\ daemon # "down" /\ s \in job[t].to
    /\ \E op \in job[t].op : PushTo(s, Delta(op))
    /\ job' = [job EXCEPT ![t].to = @ \ {s}]
    /\ UNCHANGED <<doc, version, daemon, telling, clients, pc, look, taken, up,
                   down, left, ui>>

\* The receipt follows the last delta, on the connection that asked
Told(t) ==
    /\ daemon # "down" /\ job[t].listed /\ job[t].to = {}
    /\ job' = [job EXCEPT ![t] = NoJob]
    /\ IF t = Daemon
       THEN UNCHANGED <<outbound, wake, pc>>
       ELSE /\ \E op \in job[t].op : PushTo(t, Ack(op.ver))
            /\ Go(t, "look")
    /\ UNCHANGED <<doc, version, daemon, telling, clients, look, taken, up, down,
                   left, ui>>

\* telemetry: replaces the frame that waits
Picture(s) ==
    /\ daemon = "up" /\ s \in clients
    /\ PushTo(s, Telemetry)
    /\ UNCHANGED <<serverVars, pc, look, up, down, left, ui>>

\* Server::shutdown: the list is read once and every queue in it failed
Shutdown ==
    /\ daemon = "up" /\ job[Daemon] = NoJob
    /\ daemon' = "stopping" /\ telling' = clients
    /\ UNCHANGED <<doc, version, clients, pc, outbound, wake, look, taken, job,
                   up, down, left, ui>>

TellShutdown(s) ==
    /\ daemon = "stopping" /\ s \in telling
    /\ telling' = telling \ {s}
    /\ outbound' = [outbound EXCEPT ![s] = Fail(@, Reject("ShuttingDown"))]
    /\ Ring(s)
    /\ UNCHANGED <<doc, version, daemon, clients, pc, look, taken, job, up, down,
                   left, ui>>

\* The process ends: its tasks with it
Exit ==
    /\ daemon = "stopping" /\ telling = {}
    /\ daemon' = "down"
    /\ pc' = [s \in Conns |-> IF pc[s] \in {"none", "opening"} THEN pc[s] ELSE "ended"]
    /\ clients' = {}
    /\ job' = [t \in Tasks |-> NoJob]
    /\ Freed(Conns)
    /\ look' = [s \in Conns |-> NotLooked]
    /\ taken' = [s \in Conns |-> NotTaken]
    /\ UNCHANGED <<doc, version, telling, down, left, ui>>
------------------------------------------------------------------------------
Init ==
    /\ doc = [k \in Keys |-> 0] /\ version = 0
    /\ daemon = "up" /\ telling = {} /\ clients = {}
    /\ pc = [s \in Conns |-> "none"]
    /\ outbound = [s \in Conns |-> EmptyOutbound]
    /\ wake = [s \in Conns |-> FALSE]
    /\ look = [s \in Conns |-> NotLooked]
    /\ taken = [s \in Conns |-> NotTaken]
    /\ job = [t \in Tasks |-> NoJob]
    /\ up = [s \in Conns |-> <<>>]
    /\ down = [s \in Conns |-> <<>>]
    /\ left = {}
    /\ ui = [c \in Clients |-> Idle]

Serve(s) ==
    \/ Enter(s) \/ TakeSnapshot(s) \/ QueueSnapshot(s) \/ Look(s)
    \/ ReceiveCommand(s) \/ SendNext(s) \/ Goodbye(s) \/ Woken(s) \/ Gone(s)
    \/ HandshakeLost(s) \/ Leave(s)
Broadcast(t) == List(t) \/ (\E s \in Conns : Tell(t, s)) \/ Told(t)
Timers(c) == Retry(c) \/ OnOpen(c) \/ OnClose(c)

Next ==
    \/ \E s \in Conns : Serve(s) \/ Cut(s) \/ Picture(s) \/ TellShutdown(s)
    \/ \E t \in Tasks : Broadcast(t)
    \/ \E c \in Clients : Timers(c) \/ OnMessage(c) \/ Start(c) \/ Stop(c)
    \/ \E k \in Keys, put \in BOOLEAN :
          DaemonEdit(k, put) \/ \E c \in Clients : Send(c, k, put)
    \/ Shutdown \/ Exit

Spec == Init /\ [][Next]_vars
------------------------------------------------------------------------------
Messages ==
    {Telemetry, Hello} \cup {Delta(op) : op \in Ops} \cup {Ack(v) : v \in Versions}
      \cup {Reject(r) : r \in {"Backpressure", "ShuttingDown", "CommandRefused"}}
      \cup [t : {"Snapshot"}, doc : Docs, ver : Versions]
      \cup [t : {"Command"}, key : Keys, put : BOOLEAN]
\* Every queue of the link keeps to its bound: the control queue to the
\* server's limit, the transport to the room it has (Outbound, Wire::pair).
TypeOK ==
    /\ doc \in Docs /\ version \in Versions
    /\ daemon \in {"up", "stopping", "down"}
    /\ telling \subseteq Conns /\ clients \subseteq Conns /\ left \subseteq Conns
    /\ \A s \in Conns :
         /\ Len(outbound[s].control) <= ControlQueue
         /\ \A i \in 1 .. Len(outbound[s].control) : outbound[s].control[i] \in Messages
         /\ Len(down[s]) <= WireRoom
         /\ \A i \in 1 .. Len(down[s]) : down[s][i] \in Messages
         /\ s \in clients => pc[s] \in {"entered", "snapshot", "look", "select", "tell", "closing"}
    /\ \A c \in Clients :
         /\ ui[c].phase \in {"idle", "opening", "waiting-for-snapshot", "ready"}
         /\ ui[c].mirror \in Docs /\ ui[c].heard \subseteq Versions

\* Nothing of what the daemon said is still on its way to a client.
AllTold == \A t \in Tasks : job[t] = NoJob
Caught(c) ==
    LET s == ui[c].socket IN
    /\ ui[c].phase = "ready" /\ AllTold
    /\ pc[s] \in {"look", "select"} /\ s \notin left
    /\ outbound[s] = EmptyOutbound /\ down[s] = <<>>

\* "Control messages are never dropped": a client that is still connected and
\* has read what there was to read has been told of every edit since its
\* snapshot, whatever joined, left or fell behind meanwhile (serve enters a
\* connection in the list before it takes its snapshot).
NothingIsMissed ==
    \A c \in Clients : Caught(c) => (ui[c].base + 1) .. version \subseteq ui[c].heard

\* The fact first, then the receipt: a client that reads the receipt of its
\* command has the command's effect in its mirror already.
FactBeforeReceipt ==
    \A c \in Clients :
        LET s == ui[c].socket IN
        ui[c].phase = "ready" /\ down[s] # <<>> =>
            LET m == Head(down[s]) IN
            m.t = "Ack" => m.ver \in ui[c].heard \cup 0 .. ui[c].base

\* A picture never answers the handshake: a snapshot, a delta that overtook
\* it or the reason of a refusal does.
NoPictureFirst ==
    \A c \in Clients :
        LET s == ui[c].socket IN
        ui[c].phase = "waiting-for-snapshot" /\ down[s] # <<>> =>
            Head(down[s]).t # "Telemetry"

\* A client that runs has a socket or a timer that will open one, and never
\* both; and every socket that was opened and is not closed is the one some
\* client listens to.
NeverStranded ==
    /\ \A c \in Clients :
         ui[c].running => (ui[c].socket = NoConn <=> ui[c].retry)
    /\ \A s \in Conns :
         pc[s] # "none" /\ s \notin left => \E c \in Clients : ui[c].socket = s

\* The pump never waits on a queue that changed under it without having been
\* rung: a message queued, or the end of the connection declared, between its
\* look at the queue and its wait wakes it (so room_to_send, which decides
\* before it waits whether the wait is bounded, is asked again).
NoLostRing ==
    \A s \in Conns :
        pc[s] = "select" /\ (\/ Waiting(outbound[s]) # look[s].waiting
                            \/ outbound[s].closed # look[s].closing) => wake[s]

\* What a client reads next is what may come next: receipts after facts, a
\* picture only to a client that has its snapshot (outbound queue, pump).
ArrivesInOrder == TypeOK /\ FactBeforeReceipt /\ NoPictureFirst
==============================================================================
