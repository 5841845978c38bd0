-------------------------- MODULE ClientLinkProofs --------------------------
(***************************************************************************)
(* The link between the desk and its clients, for any number of clients,    *)
(* sockets, edits and keys and any limits of the queues: no task waits      *)
(* unrung, no client is stranded, receipts follow facts, and nothing is     *)
(* missed.                                                                  *)
(***************************************************************************)
EXTENDS ClientLink, FiniteSetTheorems, TLAPS

-----------------------------------------------------------------------------
(* Messages and what a queue holds                                         *)

Commands == [t : {"Command"}, key : Keys, put : BOOLEAN]
Reasons == {"Backpressure", "ShuttingDown", "CommandRefused"}
Queued == {Delta(op) : op \in Ops} \cup {Ack(v) : v \in Versions}
            \cup {Reject(r) : r \in Reasons}
            \cup [t : {"Snapshot"}, doc : Docs, ver : Versions]
Sent == Queued \cup {Telemetry}
Outbounds == [control : Seq(Queued), telemetry : BOOLEAN, closed : BOOLEAN]

\* The commands on their way, and how many they are.
Flying(u) == UNION {{s} \X {i \in DOMAIN u[s] : u[s][i].t = "Command"} : s \in Conns}
Uploads == [Conns -> Seq(Commands \cup {Hello})]
Asking(u) == Cardinality(Flying(u))

\* The messages in a queue, and the edits a set of messages tells of.
Contents(q) == {q[i] : i \in DOMAIN q}
Facts(M) == {m.op.ver : m \in {n \in M : n.t = "Delta"}}

-----------------------------------------------------------------------------
(* The inductive invariant                                                 *)

Labels == {"none", "opening", "handshake", "entered", "snapshot", "look",
           "select", "tell", "closing", "ended"}
Pumped == {"look", "select", "tell", "closing"}
Listed == {"entered", "snapshot"} \cup Pumped

DeskTyped ==
    /\ doc \in Docs /\ version \in Nat /\ version + Asking(up) <= MaxVersion
    /\ daemon \in {"up", "stopping", "down"}
    /\ telling \subseteq Conns /\ clients \subseteq Conns /\ left \subseteq Conns
    /\ job \in [Tasks -> [op : SUBSET Ops, listed : BOOLEAN, to : SUBSET Conns]]
    /\ \A t \in Tasks : \A p, q \in job[t].op : p = q
OutTyped == /\ outbound \in [Conns -> Outbounds] /\ wake \in [Conns -> BOOLEAN]
            /\ \A s \in Conns : Len(outbound[s].control) <= ControlQueue
LinkTyped ==
    /\ pc \in [Conns -> Labels]
    /\ OutTyped
    /\ look \in [Conns -> [waiting : BOOLEAN, closing : BOOLEAN]]
    /\ taken \in [Conns -> [doc : Docs, ver : Versions]]
    /\ up \in Uploads
    /\ down \in [Conns -> Seq(Sent)]
    /\ \A s \in Conns : Len(down[s]) <= WireRoom
Phases == {"idle", "opening", "waiting-for-snapshot", "ready"}
Interfaces == [running : BOOLEAN, phase : Phases, socket : Conns \cup {NoConn}, retry : BOOLEAN,
               base : Versions, heard : SUBSET Versions, mirror : Docs]
UiTyped == ui \in [Clients -> Interfaces]

\* Where a task stands says what it has received and sent, and whose turn it is.
TaskInv ==
    \A s \in Conns :
        /\ s \in clients <=> pc[s] \in Listed
        /\ pc[s] = "handshake" => up[s] = <<Hello>>
        /\ pc[s] \in Listed => up[s] \in Seq(Commands)
        /\ down[s] # << >> => pc[s] \in Pumped \cup {"ended"}
        /\ job[s].op # {} <=> pc[s] = "tell"

\* A client and its socket.
SocketInv ==
    /\ \A c \in Clients :
        LET u == ui[c] IN
        /\ ~ u.running => u.socket = NoConn /\ ~ u.retry
        /\ u.running => (u.socket = NoConn <=> u.retry)
        /\ u.phase = "idle" <=> u.socket = NoConn
        /\ u.phase = "opening" => pc[u.socket] = "opening"
        /\ u.phase = "waiting-for-snapshot" => pc[u.socket] \notin {"none", "opening"}
        /\ u.phase = "ready" => pc[u.socket] \in Pumped \cup {"ended"}
    /\ \A c, d \in Clients : ui[c].socket = ui[d].socket /\ ui[c].socket # NoConn => c = d
    /\ \A s \in Conns :
         pc[s] # "none" /\ s \notin left => \E c \in Clients : ui[c].socket = s
TypeInv == DeskTyped /\ LinkTyped /\ UiTyped
WireInv == TypeInv /\ TaskInv /\ SocketInv

\* The socket of a client that awaits its snapshot, and of one that is ready.
Awaits(c, s) == ui[c].socket = s /\ ui[c].phase = "waiting-for-snapshot"
Reads(c, s) == ui[c].socket = s /\ ui[c].phase = "ready"

\* While the snapshot is awaited there is something to read before a picture; what
\* a closed socket still held is gone.
HasLast(s) == outbound[s].closed /\ pc[s] \notin Pumped => outbound[s].control # << >>
Answering(s) ==
    /\ down[s] = << >> /\ pc[s] \in Pumped => outbound[s].control # << >>
    /\ down[s] # << >> => down[s][1] # Telemetry
AnswerInv ==
    /\ \A s \in left : down[s] = << >>
    /\ \A s \in Conns \ left : HasLast(s)
    /\ \A c \in Clients, s \in Conns \ left : Awaits(c, s) => Answering(s)

\* A receipt stands behind its fact, all the way to the client; before the
\* client is ready it has asked for nothing.
Behind(q, K) ==
    \A i \in DOMAIN q : q[i].t = "Ack" =>
        q[i].ver \in K \/ \E j \in DOMAIN q : j < i /\ q[j].t = "Delta" /\ q[j].op.ver = q[i].ver
NoReceipt(q) == \A i \in DOMAIN q : q[i].t # "Ack"
Early(q) == \A i \in DOMAIN q : q[i].t \notin {"Ack", "Snapshot"}
Unasked(s) ==
    /\ up[s] \in {<< >>, <<Hello>>} /\ pc[s] # "tell"
    /\ NoReceipt(outbound[s].control) /\ NoReceipt(down[s])
\* The socket of a client that is ready and has heard K.
InOrder(s, K) ==
    LET L == K \cup Facts(Contents(down[s])) IN
    /\ Behind(down[s], K) /\ Behind(outbound[s].control, L)
    /\ job[s].listed /\ s \notin job[s].to /\ ~ outbound[s].closed =>
         \A op \in job[s].op : op.ver \in L \cup Facts(Contents(outbound[s].control))
FactInv ==
    /\ \A s \in Conns \ left :
         pc[s] \notin Pumped \cup {"ended"} => Early(outbound[s].control)
    /\ \A c \in Clients, s \in Conns \ left :
         /\ Awaits(c, s) => Unasked(s)
         /\ \A K \in SUBSET Versions : Reads(c, s) /\ ui[c].heard = K => InOrder(s, K)

\* Every edit since a client's snapshot was heard, is on its way or is still to
\* be told.
Owed(s) ==
    {v \in Versions : \E t \in Tasks : /\ s \in job[t].to \/ ~ job[t].listed
                                       /\ \E op \in job[t].op : op.ver = v}
Pipe(s) == Contents(down[s]) \cup Contents(outbound[s].control)
Coming(s) == Facts(Pipe(s)) \cup Owed(s)
Covers(s, b, K) == \A v \in Versions : b < v /\ v <= version => v \in K \cup Coming(s)
\* A snapshot of edit b is taken, or queued, and b is what a client's own is of.
HasTaken(c, s, b) == Awaits(c, s) /\ pc[s] = "snapshot" /\ taken[s].ver = b
HasQueued(c, s, b) == /\ Awaits(c, s) /\ pc[s] \in Pumped
                      /\ \E m \in Pipe(s) : m.t = "Snapshot" /\ m.ver = b
Since(c, s, b, K) == Reads(c, s) /\ pc[s] \in Pumped /\ ui[c].base = b /\ ui[c].heard = K
CoverInv ==
    \A c \in Clients, s \in Conns \ left, b \in Versions, K \in SUBSET Versions :
        ~ outbound[s].closed =>
            /\ HasTaken(c, s, b) \/ HasQueued(c, s, b) => Covers(s, b, {})
            /\ Since(c, s, b, K) => Covers(s, b, K)

LEMMA Constants ==
    /\ MaxConns \in Nat \ {0} /\ ControlQueue \in Nat \ {0} /\ WireRoom \in Nat \ {0}
    /\ MaxVersion \in Nat /\ Daemon \notin Conns /\ NoConn \notin Conns
    /\ 0 \in Versions /\ Versions \subseteq Nat /\ Conns \subseteq Tasks
    /\ Daemon \in Tasks /\ \A t \in Tasks : t \in Conns \/ t = Daemon
  BY LinkAssumption DEF Conns, NoConn, Versions, Tasks

\* The kinds of messages.
LEMMA Kinds ==
    /\ \A m \in Sent :
        /\ m.t \in {"Delta", "Ack", "Reject", "Snapshot", "Telemetry"}
        /\ m.t = "Delta" => m.op \in Ops
        /\ m.t = "Ack" => m.ver \in Versions
        /\ m.t = "Snapshot" => m.doc \in Docs /\ m.ver \in Versions
        /\ m.t = "Telemetry" <=> m = Telemetry
        /\ m # Telemetry => m \in Queued
    /\ \A m \in Queued : m \in Sent /\ m.t # "Telemetry" /\ m # Telemetry
    /\ \A op \in Ops : Delta(op) \in Queued /\ Delta(op).t = "Delta" /\ Delta(op).op = op
    /\ \A v \in Versions : Ack(v) \in Queued /\ Ack(v).t = "Ack" /\ Ack(v).ver = v
    /\ \A r \in Reasons : Reject(r) \in Queued /\ Reject(r).t = "Reject"
    /\ Telemetry \in Sent /\ Telemetry.t = "Telemetry"
    /\ Queued \subseteq Sent
    /\ Hello.t = "Hello" /\ Hello \notin Commands
    /\ \A m \in Commands : m.t = "Command" /\ m.key \in Keys /\ m.put \in BOOLEAN
  <1>1. \A m \in Queued :
        /\ m.t \in {"Delta", "Ack", "Reject", "Snapshot"}
        /\ m.t = "Delta" => m.op \in Ops
        /\ m.t = "Ack" => m.ver \in Versions
        /\ m.t = "Snapshot" => m.doc \in Docs /\ m.ver \in Versions
    BY DEF Queued, Delta, Ack, Reject
  <1>2. Telemetry.t = "Telemetry"
    BY DEF Telemetry
  <1>3. \A op \in Ops : Delta(op) \in Queued /\ Delta(op).t = "Delta" /\ Delta(op).op = op
    BY DEF Queued, Delta
  <1>4. \A v \in Versions : Ack(v) \in Queued /\ Ack(v).t = "Ack" /\ Ack(v).ver = v
    BY DEF Queued, Ack
  <1>5. \A r \in Reasons : Reject(r) \in Queued /\ Reject(r).t = "Reject"
    BY DEF Queued, Reject
  <1>6. Hello.t = "Hello" /\ \A m \in Commands : m.t = "Command" /\ m.key \in Keys /\ m.put \in BOOLEAN
    BY DEF Hello, Commands
  <1>7. Hello \notin Commands
    BY <1>6
  <1> QED BY <1>1, <1>2, <1>3, <1>4, <1>5, <1>6, <1>7 DEF Sent

-----------------------------------------------------------------------------
(* Queues                                                                  *)

LEMMA AppendContents ==
    ASSUME NEW M, NEW q \in Seq(M), NEW m \in M
    PROVE  /\ Append(q, m) \in Seq(M) /\ Len(Append(q, m)) = Len(q) + 1
           /\ Len(q) \in Nat /\ Append(q, m) # << >>
           /\ Contents(Append(q, m)) = Contents(q) \cup {m}
           /\ q = << >> => Append(q, m)[1] = m
           /\ q # << >> => Append(q, m)[1] = q[1]
<1> DEFINE t == Append(q, m)
<1>1. /\ t \in Seq(M) /\ Len(t) = Len(q) + 1 /\ Len(q) \in Nat /\ t[Len(q) + 1] = m
      /\ \A i \in 1 .. Len(q) : t[i] = q[i]
      /\ DOMAIN q = 1 .. Len(q) /\ q # << >> => Len(q) >= 1
      /\ q = << >> => Len(q) = 0
  OBVIOUS
<1>2. DOMAIN t = 1 .. Len(q) + 1 /\ t # << >>
  BY <1>1
<1>3. q # << >> => Len(q) >= 1
  OBVIOUS
<1> HIDE DEF t
<1>4. Contents(t) = Contents(q) \cup {m}
  BY <1>1, <1>2 DEF Contents
<1>5. /\ q = << >> => t[1] = m
      /\ q # << >> => t[1] = q[1]
  BY <1>1, <1>3
<1> QED BY <1>1, <1>2, <1>4, <1>5 DEF t

LEMMA TailContents ==
    ASSUME NEW M, NEW q \in Seq(M), q # << >>
    PROVE  /\ Tail(q) \in Seq(M) /\ Len(Tail(q)) = Len(q) - 1 /\ Len(q) \in Nat
           /\ Head(q) \in M /\ Head(q) = q[1] /\ Head(q) \in Contents(q)
           /\ Contents(q) = Contents(Tail(q)) \cup {Head(q)}
<1> DEFINE t == Tail(q)
<1>1. /\ t \in Seq(M) /\ Len(t) = Len(q) - 1 /\ Len(q) \in Nat \ {0} /\ Head(q) = q[1]
      /\ \A i \in 1 .. Len(t) : t[i] = q[i + 1]
      /\ DOMAIN q = 1 .. Len(q)
  OBVIOUS
<1>2. DOMAIN t = 1 .. Len(q) - 1 /\ 1 \in DOMAIN q /\ Head(q) \in M
  BY <1>1
<1> HIDE DEF t
<1>3. ASSUME NEW m \in Contents(q) PROVE m \in Contents(t) \cup {Head(q)}
  <2>1. PICK i \in 1 .. Len(q) : m = q[i]
    BY <1>1, <1>3 DEF Contents
  <2>2. i = 1 \/ (i - 1 \in 1 .. Len(q) - 1 /\ t[i - 1] = m)
    BY <1>1, <2>1
  <2> QED BY <1>1, <1>2, <2>1, <2>2 DEF Contents
<1>4. ASSUME NEW m \in Contents(t) PROVE m \in Contents(q)
  <2>1. PICK i \in 1 .. Len(q) - 1 : m = t[i]
    BY <1>2, <1>4 DEF Contents
  <2>2. i + 1 \in 1 .. Len(q) /\ q[i + 1] = m
    BY <1>1, <2>1
  <2> QED BY <1>1, <2>2 DEF Contents
<1>5. Head(q) \in Contents(q)
  BY <1>1, <1>2 DEF Contents
<1> QED BY <1>1, <1>2, <1>3, <1>4, <1>5 DEF t

LEMMA EmptyContents == Contents(<< >>) = {} /\ \A m : Contents(<<m>>) = {m}
<1>1. Contents(<< >>) = {}
  BY DEF Contents
<1>2. ASSUME NEW m PROVE Contents(<<m>>) = {m}
  <2>1. DOMAIN <<m>> = {1} /\ <<m>>[1] = m
    OBVIOUS
  <2> QED BY <2>1 DEF Contents
<1> QED BY <1>1, <1>2

\* What is known of a set of messages grows by what a message tells.
LEMMA FactsAdd ==
    ASSUME NEW M, NEW m
    PROVE  /\ m.t = "Delta" => Facts(M \cup {m}) = Facts(M) \cup {m.op.ver}
           /\ m.t # "Delta" => Facts(M \cup {m}) = Facts(M)
           /\ Facts(M) \subseteq Facts(M \cup {m})
           /\ Facts({}) = {}
  BY DEF Facts

\* A receipt that comes after its fact stays behind it.
LEMMA BehindAppend ==
    ASSUME NEW q \in Seq(Sent), NEW m \in Sent, NEW K, Behind(q, K),
           m.t = "Ack" => m.ver \in K \cup Facts(Contents(q))
    PROVE  Behind(Append(q, m), K)
<1> DEFINE t == Append(q, m)
<1>1. /\ Len(q) \in Nat /\ t[Len(q) + 1] = m /\ \A i \in 1 .. Len(q) : t[i] = q[i]
      /\ DOMAIN q = 1 .. Len(q) /\ DOMAIN t = 1 .. Len(q) + 1
  OBVIOUS
<1> HIDE DEF t
<1>2. ASSUME NEW i \in DOMAIN t, t[i].t = "Ack"
      PROVE  t[i].ver \in K
               \/ \E j \in DOMAIN t : j < i /\ t[j].t = "Delta" /\ t[j].op.ver = t[i].ver
  <2>1. CASE i \in DOMAIN q
    <3>1. t[i] = q[i]
      BY <1>1, <2>1
    <3>2. q[i].ver \in K
            \/ \E j \in DOMAIN q : j < i /\ q[j].t = "Delta" /\ q[j].op.ver = q[i].ver
      BY <1>2, <2>1, <3>1 DEF Behind
    <3> QED BY <1>1, <3>1, <3>2
  <2>2. CASE i = Len(q) + 1
    <3>1. t[i] = m /\ (m.ver \in K \/ m.ver \in Facts(Contents(q)))
      BY <1>1, <1>2, <2>2
    <3>2. ASSUME m.ver \in Facts(Contents(q))
          PROVE  \E j \in DOMAIN q : q[j].t = "Delta" /\ q[j].op.ver = m.ver
      BY <3>2 DEF Facts, Contents
    <3> QED BY <1>1, <2>2, <3>1, <3>2
  <2> QED BY <1>1, <2>1, <2>2
<1> QED BY <1>2 DEF Behind, t

\* What leaves the front of a queue is known behind it.
LEMMA BehindTail ==
    ASSUME NEW q \in Seq(Sent), q # << >>, NEW K, NEW L, Behind(q, K), K \subseteq L,
           Head(q).t = "Delta" => Head(q).op.ver \in L
    PROVE  Behind(Tail(q), L)
<1> DEFINE t == Tail(q)
<1>1. /\ Len(q) \in Nat \ {0} /\ Head(q) = q[1] /\ \A i \in 1 .. Len(q) - 1 : t[i] = q[i + 1]
      /\ DOMAIN q = 1 .. Len(q) /\ DOMAIN t = 1 .. Len(q) - 1
  OBVIOUS
<1> HIDE DEF t
<1>2. ASSUME NEW i \in DOMAIN t, t[i].t = "Ack"
      PROVE  t[i].ver \in L
               \/ \E j \in DOMAIN t : j < i /\ t[j].t = "Delta" /\ t[j].op.ver = t[i].ver
  <2>1. i + 1 \in DOMAIN q /\ t[i] = q[i + 1]
    BY <1>1
  <2>2. CASE q[i + 1].ver \in K
    BY <2>1, <2>2
  <2>3. CASE \E j \in DOMAIN q : j < i + 1 /\ q[j].t = "Delta" /\ q[j].op.ver = q[i + 1].ver
    <3>1. PICK j \in DOMAIN q : j < i + 1 /\ q[j].t = "Delta" /\ q[j].op.ver = q[i + 1].ver
      BY <2>3
    <3>2. CASE j = 1
      BY <1>1, <2>1, <3>1, <3>2
    <3>3. CASE j > 1
      <4>1. j - 1 \in DOMAIN t /\ j - 1 < i /\ t[j - 1] = q[j]
        BY <1>1, <3>1, <3>3
      <4> QED BY <2>1, <3>1, <4>1
    <3> QED BY <1>1, <3>2, <3>3
  <2> QED BY <1>2, <2>1, <2>2, <2>3 DEF Behind
<1> QED BY <1>2 DEF Behind, t

LEMMA BehindMore ==
    ASSUME NEW q, NEW K, NEW L, Behind(q, K), K \subseteq L
    PROVE  Behind(q, L)
  BY DEF Behind

LEMMA Receipts ==
    ASSUME NEW q \in Seq(Sent), NEW m \in Sent, NoReceipt(q)
    PROVE  /\ m.t # "Ack" => NoReceipt(Append(q, m))
           /\ q # << >> => NoReceipt(Tail(q))
           /\ \A K : Behind(q, K)
           /\ m.t # "Ack" => NoReceipt(<<m>>) /\ \A K : Behind(<<m>>, K)
<1>1. m.t # "Ack" => NoReceipt(Append(q, m))
  <2>1. Contents(Append(q, m)) = Contents(q) \cup {m}
    BY AppendContents
  <2> QED BY <2>1 DEF NoReceipt, Contents
<1>2. q # << >> => NoReceipt(Tail(q))
  <2>1. q # << >> => Contents(Tail(q)) \subseteq Contents(q)
    BY TailContents
  <2> QED BY <2>1 DEF NoReceipt, Contents
<1>3. m.t # "Ack" => NoReceipt(<<m>>)
  <2>1. Contents(<<m>>) = {m}
    BY EmptyContents
  <2> QED BY <2>1 DEF NoReceipt, Contents
<1> QED BY <1>1, <1>2, <1>3 DEF NoReceipt, Behind

-----------------------------------------------------------------------------
(* What a push does                                                        *)

\* A queue that has ended or is closed stays; a picture replaces a picture; a
\* message that finds no room ends the queue; any other goes to its end.
Pushed(s, m) ==
    LET o == outbound[s] n == outbound'[s] IN
    \/ (pc[s] = "ended" \/ o.closed) /\ n = o
    \/ m = Telemetry /\ n.control = o.control /\ n.closed = o.closed
    \/ ~ o.closed /\ n.closed /\ n.control = <<Reject("Backpressure")>>
    \/ ~ o.closed /\ ~ n.closed /\ m \in Queued /\ n.control = Append(o.control, m)

LEMMA Singletons ==
    ASSUME NEW m \in Queued
    PROVE  /\ <<m>> \in Seq(Queued) /\ Len(<<m>>) = 1 /\ <<m>> # << >>
           /\ \A o : Fail(o, m) \in Outbounds
  BY DEF Fail, Outbounds

LEMMA PushDoes ==
    ASSUME OutTyped, NEW s \in Conns, NEW m \in Sent, PushTo(s, m)
    PROVE  /\ OutTyped' /\ Pushed(s, m)
           /\ \A r \in Conns \ {s} : outbound'[r] = outbound[r] /\ wake'[r] = wake[r]
           /\ pc[s] # "ended" => wake'[s]
           /\ pc[s] = "ended" => outbound' = outbound /\ wake' = wake
<1>1. CASE pc[s] = "ended"
  BY <1>1 DEF PushTo, OutTyped, Pushed
<1>2. CASE pc[s] # "ended"
  <2> DEFINE o == outbound[s]
             n == Push(o, m)
  <2>1. outbound' = [outbound EXCEPT ![s] = n] /\ wake' = [wake EXCEPT ![s] = TRUE]
    BY <1>2 DEF PushTo, Ring
  <2>2. o \in Outbounds /\ o.control \in Seq(Queued) /\ o.closed \in BOOLEAN
        /\ Len(o.control) \in Nat /\ Len(o.control) <= ControlQueue
    BY DEF OutTyped, Outbounds
  <2> HIDE DEF o
  <2>3. /\ n \in Outbounds /\ Len(n.control) <= ControlQueue
        /\ \/ o.closed /\ n = o
           \/ m = Telemetry /\ n.control = o.control /\ n.closed = o.closed
           \/ ~ o.closed /\ n.closed /\ n.control = <<Reject("Backpressure")>>
           \/ ~ o.closed /\ ~ n.closed /\ m \in Queued /\ n.control = Append(o.control, m)
    <3>1. CASE o.closed
      BY <2>2, <3>1 DEF Push
    <3>2. CASE ~ o.closed /\ m.t = "Telemetry"
      <4>1. m = Telemetry /\ n = [o EXCEPT !.telemetry = TRUE]
        BY <3>2, Kinds DEF Push
      <4> QED BY <2>2, <4>1 DEF Outbounds
    <3>3. CASE ~ o.closed /\ m.t # "Telemetry" /\ Len(o.control) >= ControlQueue
      <4>1. n = Fail(o, Reject("Backpressure")) /\ Reject("Backpressure") \in Queued
        BY <3>3, Kinds DEF Push, Reasons
      <4> HIDE DEF n
      <4>2. n \in Outbounds /\ n.control = <<Reject("Backpressure")>> /\ n.closed
        BY <4>1, Singletons DEF Fail
      <4>3. Len(n.control) = 1
        <5>1. Len(<<Reject("Backpressure")>>) = 1
          BY <4>1, Singletons
        <5> QED BY <4>2, <5>1
      <4>4. Len(n.control) <= ControlQueue
        BY <4>3, Constants
      <4> QED BY <3>3, <4>2, <4>4
    <3>4. CASE ~ o.closed /\ m.t # "Telemetry" /\ ~ (Len(o.control) >= ControlQueue)
      <4>1. n = [o EXCEPT !.control = Append(o.control, m)] /\ m \in Queued
        BY <3>4, Kinds DEF Push
      <4>2. Append(o.control, m) \in Seq(Queued)
            /\ Len(Append(o.control, m)) = Len(o.control) + 1
        BY <2>2, <4>1
      <4> HIDE DEF n
      <4>3. n \in Outbounds /\ n.control = Append(o.control, m) /\ n.closed = o.closed
        BY <2>2, <4>1, <4>2 DEF Outbounds
      <4>4. Len(n.control) <= ControlQueue
        BY <2>2, <3>4, <4>2, <4>3, Constants
      <4> QED BY <3>4, <4>1, <4>3, <4>4
    <3> QED BY <3>1, <3>2, <3>3, <3>4
  <2> HIDE DEF n
  <2>4. outbound'[s] = n /\ wake'[s] = TRUE
        /\ \A r \in Conns \ {s} : outbound'[r] = outbound[r] /\ wake'[r] = wake[r]
    BY <2>1 DEF OutTyped
  <2>5. OutTyped'
    <3>1. outbound' \in [Conns -> Outbounds] /\ wake' \in [Conns -> BOOLEAN]
      BY <2>1, <2>3 DEF OutTyped
    <3>2. \A r \in Conns : Len(outbound'[r].control) <= ControlQueue
      BY <2>3, <2>4 DEF OutTyped
    <3> QED BY <3>1, <3>2 DEF OutTyped
  <2> QED BY <1>2, <2>3, <2>4, <2>5 DEF Pushed, o
<1> QED BY <1>1, <1>2

-----------------------------------------------------------------------------
(* Commands on their way                                                   *)

LEMMA FlyingIn ==
    ASSUME NEW u
    PROVE  \A p : p \in Flying(u) <=> \E s \in Conns : \E i \in DOMAIN u[s] :
                     p = <<s, i>> /\ u[s][i].t = "Command"
  BY DEF Flying

LEMMA FlyingIsFinite ==
    ASSUME NEW u \in Uploads
    PROVE  IsFiniteSet(Flying(u)) /\ Cardinality(Flying(u)) \in Nat
<1> DEFINE Of(s) == {s} \X {i \in DOMAIN u[s] : u[s][i].t = "Command"}
           f == [s \in Conns |-> Of(s)]
           T == {Of(s) : s \in Conns}
<1>1. \A s \in Conns : IsFiniteSet(Of(s))
  <2> TAKE s \in Conns
  <2>1. DOMAIN u[s] = 1 .. Len(u[s]) /\ Len(u[s]) \in Nat
    BY DEF Uploads
  <2>2. IsFiniteSet(1 .. Len(u[s]))
    <3>1. \A n \in Int : IsFiniteSet(1 .. n)
      BY FS_Interval
    <3> QED BY <2>1, <3>1
  <2>3. IsFiniteSet({i \in DOMAIN u[s] : u[s][i].t = "Command"})
    BY <2>1, <2>2, FS_Subset
  <2>4. IsFiniteSet({s})
    BY FS_Singleton
  <2> QED BY <2>3, <2>4, FS_Product
<1>2. IsFiniteSet(Conns)
  BY Constants, FS_Interval DEF Conns
<1>3. Flying(u) = UNION T
  BY DEF Flying
<1> HIDE DEF Of
<1>4. f \in Surjection(Conns, T)
  BY DEF Surjection
<1> HIDE DEF f
<1>5. IsFiniteSet(T)
  BY <1>2, <1>4, FS_Surjection
<1>6. \A X \in T : IsFiniteSet(X)
  BY <1>1
<1> HIDE DEF T
<1>7. IsFiniteSet(Flying(u))
  BY <1>3, <1>5, <1>6, FS_UNION
<1> QED BY <1>7, FS_CardinalityType

\* Fewer payloads are fewer commands.
LEMMA FlyingFewer ==
    ASSUME NEW u \in Uploads, NEW w \in Uploads,
           \A s \in Conns : w[s] = u[s] \/ (\A i \in DOMAIN w[s] : w[s][i].t # "Command")
    PROVE  Cardinality(Flying(w)) <= Cardinality(Flying(u))
<1>1. Flying(w) \subseteq Flying(u)
  BY FlyingIn
<1> QED BY <1>1, FlyingIsFinite, FS_Subset

\* Sending a command is one more.
LEMMA FlyingMore ==
    ASSUME NEW u \in Uploads, NEW s \in Conns, NEW m \in Commands
    PROVE  LET w == [u EXCEPT ![s] = Append(@, m)] IN
           w \in Uploads /\ Cardinality(Flying(w)) <= Cardinality(Flying(u)) + 1
<1> DEFINE w == [u EXCEPT ![s] = Append(@, m)]
           p == <<s, Len(u[s]) + 1>>
<1>1. u[s] \in Seq(Commands \cup {Hello}) /\ Len(u[s]) \in Nat
  BY DEF Uploads
<1>2. /\ Append(u[s], m) \in Seq(Commands \cup {Hello})
      /\ DOMAIN Append(u[s], m) = 1 .. Len(u[s]) + 1
      /\ DOMAIN u[s] = 1 .. Len(u[s])
      /\ \A i \in 1 .. Len(u[s]) : Append(u[s], m)[i] = u[s][i]
  BY <1>1
<1>3. w \in Uploads /\ w[s] = Append(u[s], m) /\ \A r \in Conns \ {s} : w[r] = u[r]
  BY <1>2 DEF Uploads
<1> HIDE DEF w
<1>4. Flying(w) \subseteq Flying(u) \cup {p}
  <2> SUFFICES ASSUME NEW r \in Conns, NEW i \in DOMAIN w[r], w[r][i].t = "Command",
                      <<r, i>> # p
               PROVE  <<r, i>> \in Flying(u)
    BY FlyingIn
  <2>1. i \in DOMAIN u[r] /\ u[r][i] = w[r][i]
    BY <1>1, <1>2, <1>3
  <2> QED BY <2>1, FlyingIn
<1>5. IsFiniteSet(Flying(u) \cup {p})
      /\ Cardinality(Flying(u) \cup {p}) <= Cardinality(Flying(u)) + 1
  <2>1. IsFiniteSet(Flying(u)) /\ Cardinality(Flying(u)) \in Nat
    BY FlyingIsFinite
  <2> HIDE DEF p
  <2>2. /\ IsFiniteSet(Flying(u) \cup {p})
        /\ Cardinality(Flying(u) \cup {p})
             = IF p \in Flying(u) THEN Cardinality(Flying(u)) ELSE Cardinality(Flying(u)) + 1
    BY <2>1, FS_AddElement
  <2>3. CASE p \in Flying(u)
    BY <2>1, <2>2, <2>3
  <2>4. CASE p \notin Flying(u)
    BY <2>1, <2>2, <2>4
  <2> QED BY <2>3, <2>4
<1>6. Cardinality(Flying(w)) <= Cardinality(Flying(u) \cup {p})
  BY <1>4, <1>5, FS_Subset
<1>7. Cardinality(Flying(w)) \in Nat /\ Cardinality(Flying(u)) \in Nat
      /\ Cardinality(Flying(u) \cup {p}) \in Nat
  BY <1>3, <1>5, FlyingIsFinite, FS_CardinalityType
<1> QED BY <1>3, <1>5, <1>6, <1>7 DEF w

\* Receiving a command is one fewer.
LEMMA FlyingTail ==
    ASSUME NEW u \in Uploads, NEW s \in Conns, u[s] # << >>, Head(u[s]).t = "Command"
    PROVE  LET w == [u EXCEPT ![s] = Tail(@)] IN
           w \in Uploads /\ Cardinality(Flying(w)) + 1 <= Cardinality(Flying(u))
<1> DEFINE w == [u EXCEPT ![s] = Tail(@)]
           p == <<s, 1>>
           rest == Flying(u) \ {p}
           f == [q \in Flying(w) |-> IF q[1] = s THEN <<s, q[2] + 1>> ELSE q]
<1>1. u[s] \in Seq(Commands \cup {Hello}) /\ Len(u[s]) \in Nat \ {0}
  BY DEF Uploads
<1>2. /\ Tail(u[s]) \in Seq(Commands \cup {Hello})
      /\ DOMAIN Tail(u[s]) = 1 .. Len(u[s]) - 1
      /\ DOMAIN u[s] = 1 .. Len(u[s]) /\ Head(u[s]) = u[s][1]
      /\ \A i \in 1 .. Len(u[s]) - 1 : Tail(u[s])[i] = u[s][i + 1]
  BY <1>1
<1>3. w \in Uploads /\ w[s] = Tail(u[s]) /\ \A r \in Conns \ {s} : w[r] = u[r]
  BY <1>2 DEF Uploads
<1> HIDE DEF w
<1>4. ASSUME NEW q \in Flying(w)
      PROVE  /\ q = <<q[1], q[2]>> /\ q[1] \in Conns /\ q[2] \in Nat \ {0}
             /\ f[q] \in rest
  <2>0. PICK r \in Conns : \E i \in DOMAIN w[r] : q = <<r, i>> /\ w[r][i].t = "Command"
    BY <1>4, FlyingIn
  <2>1. PICK i \in DOMAIN w[r] : q = <<r, i>> /\ w[r][i].t = "Command"
    BY <2>0
  <2>2. q[1] = r /\ q[2] = i /\ i \in Nat \ {0}
    BY <1>3, <2>1 DEF Uploads
  <2>3. CASE r = s
    <3>0. i \in 1 .. Len(u[s]) - 1 /\ w[r][i] = u[s][i + 1]
      BY <1>2, <1>3, <2>1, <2>3
    <3>1. f[q] = <<s, i + 1>> /\ i + 1 \in DOMAIN u[s] /\ u[s][i + 1].t = "Command" /\ i + 1 # 1
      <4>1. f[q] = <<s, i + 1>>
        BY <1>4, <2>2, <2>3
      <4>2. i + 1 \in 1 .. Len(u[s]) /\ i + 1 # 1
        BY <1>1, <3>0
      <4> QED BY <1>2, <2>1, <3>0, <4>1, <4>2
    <3>2. <<s, i + 1>> \in Flying(u)
      BY <3>1, FlyingIn
    <3> QED BY <2>1, <2>2, <3>1, <3>2
  <2>4. CASE r # s
    <3>1. f[q] = q /\ w[r] = u[r]
      BY <1>3, <2>2, <2>4
    <3>2. q \in Flying(u)
      BY <2>1, <3>1, FlyingIn
    <3> QED BY <2>1, <2>2, <2>4, <3>1, <3>2
  <2> QED BY <2>3, <2>4
<1>5. ASSUME NEW q \in Flying(w), NEW z \in Flying(w), f[q] = f[z] PROVE q = z
  <2>1. /\ q = <<q[1], q[2]>> /\ q[2] \in Nat /\ z = <<z[1], z[2]>> /\ z[2] \in Nat
    BY <1>4
  <2>2. /\ f[q] = IF q[1] = s THEN <<s, q[2] + 1>> ELSE q
        /\ f[z] = IF z[1] = s THEN <<s, z[2] + 1>> ELSE z
    OBVIOUS
  <2>3. CASE q[1] = s /\ z[1] = s
    BY <1>5, <2>1, <2>2, <2>3
  <2>4. CASE q[1] # s /\ z[1] # s
    BY <1>5, <2>2, <2>4
  <2>5. CASE (q[1] = s) # (z[1] = s)
    <3>1. f[q][1] = q[1] /\ f[z][1] = z[1]
      BY <2>2
    <3> QED BY <1>5, <2>5, <3>1
  <2> QED BY <2>3, <2>4, <2>5
<1>6. f \in Injection(Flying(w), rest)
  <2>1. DOMAIN f = Flying(w) /\ f = [q \in DOMAIN f |-> f[q]]
    OBVIOUS
  <2>2. \A q \in Flying(w) : f[q] \in rest
    BY <1>4
  <2>3. \A q, z \in Flying(w) : f[q] = f[z] => q = z
    BY <1>5
  <2> HIDE DEF f, rest
  <2>4. f \in [Flying(w) -> rest]
    BY <2>1, <2>2
  <2> QED BY <2>3, <2>4 DEF Injection, IsInjective
<1>7. p \in Flying(u)
  <2>1. 1 \in DOMAIN u[s] /\ u[s][1].t = "Command"
    BY <1>1, <1>2
  <2> QED BY <2>1, FlyingIn
<1>8. IsFiniteSet(Flying(u)) /\ Cardinality(Flying(u)) \in Nat /\ Cardinality(Flying(w)) \in Nat
  BY <1>3, FlyingIsFinite
<1> HIDE DEF f, p
<1>9. IsFiniteSet(rest) /\ Cardinality(rest) = Cardinality(Flying(u)) - 1
  BY <1>7, <1>8, FS_RemoveElement
<1> HIDE DEF rest
<1>10. Cardinality(Flying(w)) <= Cardinality(rest)
  BY <1>6, <1>9, FS_Injection
<1>11. Cardinality(Flying(w)) + 1 <= Cardinality(Flying(u))
  BY <1>8, <1>9, <1>10
<1> QED BY <1>3, <1>11 DEF w

LEMMA AskedIs == Asked = Asking(up) /\ Asked' = Asking(up')
  BY DEF Asked, InFlight, Asking, Flying

LEMMA AskingIsNatural == \A u \in Uploads : Asking(u) \in Nat
  BY FlyingIsFinite DEF Asking

LEMMA AskingFewer ==
    ASSUME NEW u \in Uploads, NEW w \in Uploads,
           \A s \in Conns : w[s] = u[s] \/ (\A i \in DOMAIN w[s] : w[s][i].t # "Command")
    PROVE  Asking(w) <= Asking(u)
  BY FlyingFewer DEF Asking

-----------------------------------------------------------------------------
(* Types                                                                   *)

\* The members of what is typed as a whole.
LEMMA Members ==
    ASSUME TypeInv, NEW s \in Conns
    PROVE  /\ outbound[s] \in Outbounds /\ outbound[s].control \in Seq(Queued)
           /\ outbound[s].closed \in BOOLEAN /\ outbound[s].telemetry \in BOOLEAN
           /\ outbound[s].control \in Seq(Sent)
           /\ down[s] \in Seq(Sent) /\ Len(down[s]) <= WireRoom /\ Len(down[s]) \in Nat
           /\ up[s] \in Seq(Commands \cup {Hello}) /\ pc[s] \in Labels
           /\ taken[s].doc \in Docs /\ taken[s].ver \in Versions
           /\ look[s].waiting \in BOOLEAN /\ look[s].closing \in BOOLEAN
           /\ wake[s] \in BOOLEAN /\ s \in Tasks
<1>1. Queued \subseteq Sent
  BY Kinds
<1>2. outbound[s] \in Outbounds
  BY DEF TypeInv, LinkTyped, OutTyped
<1>3. outbound[s].control \in Seq(Queued) /\ outbound[s].closed \in BOOLEAN
      /\ outbound[s].telemetry \in BOOLEAN
  BY <1>2 DEF Outbounds
<1>4. outbound[s].control \in Seq(Sent)
  BY <1>1, <1>3
<1>5. down[s] \in Seq(Sent) /\ Len(down[s]) <= WireRoom
  BY DEF TypeInv, LinkTyped
<1> QED BY <1>2, <1>3, <1>4, <1>5, Constants DEF TypeInv, LinkTyped, OutTyped, Uploads

LEMMA JobMembers ==
    ASSUME TypeInv, NEW t \in Tasks
    PROVE  /\ job[t].op \subseteq Ops /\ job[t].listed \in BOOLEAN /\ job[t].to \subseteq Conns
           /\ \A op \in job[t].op : /\ op.ver \in Versions /\ Delta(op) \in Sent
                                    /\ Ack(op.ver) \in Sent /\ job[t].op = {op}
<1>1. job[t].op \subseteq Ops /\ job[t].listed \in BOOLEAN /\ job[t].to \subseteq Conns
      /\ \A p, q \in job[t].op : p = q
  BY DEF TypeInv, DeskTyped
<1>2. ASSUME NEW op \in job[t].op
      PROVE  op.ver \in Versions /\ Delta(op) \in Sent /\ Ack(op.ver) \in Sent
  <2>1. op \in Ops /\ op.ver \in Versions
    BY <1>1 DEF Ops
  <2> QED BY <2>1, Kinds
<1> QED BY <1>1, <1>2

LEMMA UiMembers ==
    ASSUME TypeInv, NEW c \in Clients
    PROVE  /\ ui[c].running \in BOOLEAN /\ ui[c].retry \in BOOLEAN /\ ui[c].phase \in Phases
           /\ ui[c].socket \in Conns \cup {NoConn} /\ ui[c].base \in Versions
           /\ ui[c].heard \subseteq Versions /\ ui[c].mirror \in Docs
           /\ ui[c] \in Interfaces
  BY DEF TypeInv, UiTyped, Interfaces

\* What closing a set of sockets does.
LEMMA ClosedDoes ==
    ASSUME LinkTyped, left \subseteq Conns, NEW S \in SUBSET Conns, Closed(S)
    PROVE  /\ left' = left \cup S /\ left' \subseteq Conns
           /\ down' \in [Conns -> Seq(Sent)]
           /\ \A s \in Conns : down'[s] = IF s \in S THEN << >> ELSE down[s]
           /\ \A s \in Conns : Len(down'[s]) <= WireRoom
<1>1. \A s \in Conns : down[s] \in Seq(Sent) /\ Len(down[s]) <= WireRoom
  BY DEF LinkTyped
<1>2. << >> \in Seq(Sent) /\ Len(<< >>) <= WireRoom
  BY Constants
<1>3. down' = [s \in Conns |-> IF s \in S THEN << >> ELSE down[s]] /\ left' = left \cup S
  BY DEF Closed
<1> QED BY <1>1, <1>2, <1>3

LEMMA FreedDoes ==
    ASSUME OutTyped, up \in Uploads, NEW S \in SUBSET Conns, Freed(S)
    PROVE  /\ OutTyped' /\ up' \in Uploads /\ Asking(up') <= Asking(up)
           /\ \A s \in Conns : outbound'[s] = IF s \in S THEN EmptyOutbound ELSE outbound[s]
           /\ \A s \in Conns \ S : wake'[s] = wake[s]
           /\ \A s \in Conns : up'[s] = IF s \in S THEN << >> ELSE up[s]
           /\ EmptyOutbound.control = << >> /\ ~ EmptyOutbound.closed /\ ~ EmptyOutbound.telemetry
<1>1. EmptyOutbound \in Outbounds /\ EmptyOutbound.control = << >> /\ Len(<< >>) = 0
      /\ ~ EmptyOutbound.closed /\ ~ EmptyOutbound.telemetry
  BY DEF EmptyOutbound, Outbounds
<1>2. /\ outbound' = [s \in Conns |-> IF s \in S THEN EmptyOutbound ELSE outbound[s]]
      /\ wake' = [s \in Conns |-> wake[s] /\ s \notin S]
      /\ up' = [s \in Conns |-> IF s \in S THEN << >> ELSE up[s]]
  BY DEF Freed
<1>3. up' \in Uploads
  BY <1>2 DEF Uploads
<1>4. \A s \in Conns : up'[s] = up[s] \/ (\A i \in DOMAIN up'[s] : up'[s][i].t # "Command")
  BY <1>2
<1>5. Asking(up') <= Asking(up)
  BY <1>3, <1>4, AskingFewer
<1>6. outbound' \in [Conns -> Outbounds] /\ wake' \in [Conns -> BOOLEAN]
  BY <1>1, <1>2 DEF OutTyped
<1>7. \A s \in Conns : Len(outbound'[s].control) <= ControlQueue
  BY <1>1, <1>2, Constants DEF OutTyped
<1>8. \A s \in Conns \ S : wake'[s] = wake[s]
  BY <1>2 DEF OutTyped
<1> QED BY <1>1, <1>2, <1>3, <1>5, <1>6, <1>7, <1>8 DEF OutTyped

\* What becomes of an interface.
LEMMA IdleTyped ==
    /\ Idle \in Interfaces /\ ~ Idle.running /\ ~ Idle.retry /\ Idle.phase = "idle"
    /\ Idle.socket = NoConn
  BY Constants DEF Idle, Interfaces, Phases, Docs

LEMMA InterfacesTyped ==
    ASSUME NEW u \in Interfaces
    PROVE  /\ Dropped(u) \in Interfaces /\ Scheduled(u) \in Interfaces
           /\ Scheduled(Dropped(u)) \in Interfaces
           /\ Dropped(u).socket = NoConn /\ Dropped(u).phase = "idle"
           /\ Dropped(u).running = u.running /\ Dropped(u).retry = u.retry
           /\ Scheduled(Dropped(u)).socket = NoConn /\ Scheduled(Dropped(u)).phase = "idle"
           /\ Scheduled(Dropped(u)).running = u.running
           /\ Scheduled(Dropped(u)).retry = u.running
<1>1. Idle \in Interfaces /\ Idle.phase = "idle" /\ Idle.socket = NoConn
  BY IdleTyped
<1> DEFINE v == Dropped(u)
<1>2. v = [Idle EXCEPT !.running = u.running, !.retry = u.retry]
  BY DEF Dropped
<1> HIDE DEF v
<1>3. /\ v \in Interfaces /\ v.socket = NoConn /\ v.phase = "idle"
      /\ v.running = u.running /\ v.retry = u.retry
  BY <1>1, <1>2 DEF Interfaces
<1>4. \A w \in Interfaces : /\ Scheduled(w) \in Interfaces
                            /\ Scheduled(w).socket = w.socket /\ Scheduled(w).phase = w.phase
                            /\ Scheduled(w).running = w.running /\ Scheduled(w).retry = w.running
  BY DEF Scheduled, Interfaces
<1> QED BY <1>3, <1>4 DEF v

\* A message leaves the interface where it is or drops the socket.
Landed(u, v, m) ==
    \/ v = Scheduled(Dropped(u))
    \/ /\ u.phase = "waiting-for-snapshot" /\ m.t = "Snapshot"
       /\ v = [u EXCEPT !.phase = "ready", !.base = m.ver, !.heard = {}, !.mirror = m.doc]
    \/ /\ u.phase # "waiting-for-snapshot" /\ m.t = "Delta"
       /\ v = [u EXCEPT !.mirror = Applied(@, m.op), !.heard = @ \cup {m.op.ver}]
    \/ u.phase # "waiting-for-snapshot" /\ m.t \notin {"Snapshot", "Delta"} /\ v = u

LEMMA MessageLands ==
    ASSUME NEW u \in Interfaces, NEW m \in Sent
    PROVE  /\ u.phase = "waiting-for-snapshot" => Landed(u, AfterAnswer(u, m), m)
           /\ u.phase # "waiting-for-snapshot" => Landed(u, AfterMessage(u, m), m)
           /\ \A v : Landed(u, v, m) => v \in Interfaces
<1>1. u.phase = "waiting-for-snapshot" => Landed(u, AfterAnswer(u, m), m)
  BY DEF AfterAnswer, Landed
<1>2. u.phase # "waiting-for-snapshot" => Landed(u, AfterMessage(u, m), m)
  <2>1. m.t = "Delta" => ~ Terminal(m) /\ m.t # "Snapshot"
    BY DEF Terminal
  <2>2. Terminal(m) => m.t \notin {"Snapshot", "Delta"}
    BY DEF Terminal
  <2>3. CASE m.t = "Delta" /\ Fits(u.mirror, m.op)
    BY <2>1, <2>3 DEF AfterMessage, Landed
  <2>4. CASE m.t = "Delta" /\ ~ Fits(u.mirror, m.op)
    BY <2>1, <2>4 DEF AfterMessage, Landed
  <2>5. CASE Terminal(m)
    BY <2>2, <2>5 DEF AfterMessage, Landed
  <2>6. CASE m.t = "Snapshot"
    BY <2>2, <2>6 DEF AfterMessage, Landed
  <2>7. CASE m.t \notin {"Snapshot", "Delta"} /\ ~ Terminal(m)
    BY <2>7 DEF AfterMessage, Landed
  <2> QED BY <2>3, <2>4, <2>5, <2>6, <2>7
<1>3. ASSUME NEW v, Landed(u, v, m) PROVE v \in Interfaces
  <2>1. CASE v = Scheduled(Dropped(u))
    BY <2>1, InterfacesTyped
  <2>2. CASE m.t = "Snapshot" /\ v = [u EXCEPT !.phase = "ready", !.base = m.ver, !.heard = {}, !.mirror = m.doc]
    <3>1. m.ver \in Versions /\ m.doc \in Docs
      BY <2>2, Kinds
    <3> QED BY <2>2, <3>1 DEF Interfaces, Phases
  <2>3. CASE m.t = "Delta" /\ v = [u EXCEPT !.mirror = Applied(@, m.op), !.heard = @ \cup {m.op.ver}]
    <3>1. m.op \in Ops
      BY <2>3, Kinds
    <3>2. m.op.ver \in Versions /\ m.op.val \in Versions /\ u.mirror \in Docs
      BY <3>1 DEF Ops, Interfaces
    <3>3. Applied(u.mirror, m.op) \in Docs
      BY <3>2 DEF Applied, Docs
    <3> DEFINE d == Applied(u.mirror, m.op)
    <3>4. v = [u EXCEPT !.mirror = d, !.heard = u.heard \cup {m.op.ver}]
      BY <2>3
    <3> HIDE DEF d
    <3>5. d \in Docs
      BY <3>3 DEF d
    <3> QED BY <3>2, <3>4, <3>5 DEF Interfaces
  <2> QED BY <1>3, <2>1, <2>2, <2>3 DEF Landed
<1> QED BY <1>1, <1>2, <1>3

-----------------------------------------------------------------------------

LEMMA TypeInit == Init => TypeInv
<1> SUFFICES ASSUME Init PROVE TypeInv
  OBVIOUS
<1>1. EmptyOutbound \in Outbounds /\ Len(EmptyOutbound.control) = 0
  BY DEF EmptyOutbound, Outbounds
<1>2. OutTyped
  BY <1>1, Constants DEF Init, OutTyped
<1>3. up \in Uploads /\ \A s \in Conns : up[s] = << >>
  BY DEF Init, Uploads
<1>4. Asking(up) = 0
  <2>1. Flying(up) = {}
    BY <1>3, FlyingIn
  <2> QED BY <2>1, FS_EmptySet DEF Asking
<1>5. LinkTyped
  <2>1. NotLooked \in [waiting : BOOLEAN, closing : BOOLEAN]
        /\ NotTaken \in [doc : Docs, ver : Versions]
    BY Constants DEF NotLooked, NotTaken, Docs
  <2>2. down \in [Conns -> Seq(Sent)] /\ \A s \in Conns : Len(down[s]) <= WireRoom
    BY Constants DEF Init
  <2> QED BY <1>2, <1>3, <2>1, <2>2 DEF Init, LinkTyped, Labels
<1>6. DeskTyped
  BY <1>4, Constants DEF Init, DeskTyped, Docs, NoJob
<1>7. UiTyped
  BY IdleTyped DEF Init, UiTyped
<1> QED BY <1>5, <1>6, <1>7 DEF TypeInv

\* A client's step leaves the daemon's task and takes nothing out of its hands.
LEMMA TypeClient ==
    ASSUME TypeInv, TaskInv, NEW c \in Clients,
           Timers(c) \/ OnMessage(c) \/ Start(c) \/ Stop(c)
    PROVE  TypeInv'
<1>1. /\ ui \in [Clients -> Interfaces] /\ ui[c] \in Interfaces /\ LinkTyped
      /\ left \subseteq Conns
  BY DEF TypeInv, UiTyped, DeskTyped
<1>2. ASSUME NEW u \in Interfaces, Connect(c, u),
             UNCHANGED <<serverVars, outbound, wake, look, up, down, left>>
      PROVE  TypeInv'
  <2>1. PICK s \in Conns :
          /\ ui' = [ui EXCEPT ![c] = [u EXCEPT !.socket = s, !.phase = "opening"]]
          /\ pc' = [pc EXCEPT ![s] = "opening"]
    BY <1>2 DEF Connect, Fresh
  <2>2. [u EXCEPT !.socket = s, !.phase = "opening"] \in Interfaces
    BY DEF Interfaces, Phases
  <2>3. UiTyped'
    BY <1>1, <2>1, <2>2 DEF UiTyped
  <2>4. LinkTyped'
    BY <1>2, <2>1 DEF TypeInv, LinkTyped, OutTyped, Labels, serverVars
  <2>5. DeskTyped'
    BY <1>2 DEF TypeInv, DeskTyped, serverVars
  <2> QED BY <2>3, <2>4, <2>5 DEF TypeInv
<1>3. CASE Start(c)
  <2>1. [ui[c] EXCEPT !.running = TRUE] \in Interfaces
    BY <1>1 DEF Interfaces
  <2> QED BY <1>2, <1>3, <2>1 DEF Start
<1>4. CASE Retry(c)
  <2>1. [ui[c] EXCEPT !.retry = FALSE] \in Interfaces
    BY <1>1 DEF Interfaces
  <2> QED BY <1>2, <1>4, <2>1 DEF Retry
<1>5. ASSUME NEW u \in Interfaces, ui' = [ui EXCEPT ![c] = u], Closed(Socket(ui[c])),
             UNCHANGED <<serverVars, pc, outbound, wake, look, up>>
      PROVE  TypeInv'
  <2>1. Socket(ui[c]) \in SUBSET Conns
    BY <1>1 DEF Socket, Interfaces
  <2>2. /\ left' \subseteq Conns /\ down' \in [Conns -> Seq(Sent)]
        /\ \A s \in Conns : Len(down'[s]) <= WireRoom
    BY <1>1, <1>5, <2>1, ClosedDoes
  <2>3. LinkTyped'
    BY <1>1, <1>5, <2>2 DEF LinkTyped, OutTyped, serverVars
  <2>4. DeskTyped'
    BY <1>5, <2>2 DEF TypeInv, DeskTyped, serverVars
  <2>5. UiTyped'
    BY <1>1, <1>5 DEF UiTyped
  <2> QED BY <2>3, <2>4, <2>5 DEF TypeInv
<1>6. CASE Stop(c)
  <2> DEFINE u == [Dropped(ui[c]) EXCEPT !.running = FALSE, !.retry = FALSE]
  <2>1. u \in Interfaces
    BY <1>1, InterfacesTyped DEF Interfaces
  <2>2. ui' = [ui EXCEPT ![c] = u]
    BY <1>6 DEF Stop
  <2> HIDE DEF u
  <2> QED BY <1>5, <1>6, <2>1, <2>2 DEF Stop
<1>7. CASE OnClose(c)
  <2> DEFINE u == Scheduled(Dropped(ui[c]))
  <2>1. u \in Interfaces
    BY <1>1, InterfacesTyped
  <2>2. ui' = [ui EXCEPT ![c] = u]
    BY <1>7 DEF OnClose
  <2> HIDE DEF u
  <2> QED BY <1>5, <1>7, <2>1, <2>2 DEF OnClose
<1>8. CASE OnOpen(c)
  <2> DEFINE s == ui[c].socket
  <2>1. UiTyped'
    BY <1>1, <1>8 DEF OnOpen, UiTyped, Interfaces, Phases
  <2>2. up' = [up EXCEPT ![s] = <<Hello>>] /\ pc' = [pc EXCEPT ![s] = "handshake"]
    BY <1>8 DEF OnOpen
  <2>3. up \in Uploads /\ up' \in Uploads
    <3>1. <<Hello>> \in Seq(Commands \cup {Hello})
      OBVIOUS
    <3> QED BY <1>1, <2>2, <3>1 DEF LinkTyped, Uploads
  <2>4. \A r \in Conns : up'[r] = up[r] \/ (\A i \in DOMAIN up'[r] : up'[r][i].t # "Command")
    <3>1. DOMAIN <<Hello>> = {1} /\ <<Hello>>[1] = Hello /\ Hello.t = "Hello"
      BY Kinds
    <3>2. \A r \in Conns : up'[r] = up[r] \/ up'[r] = <<Hello>>
      BY <1>1, <2>2 DEF LinkTyped, Uploads
    <3> QED BY <3>1, <3>2
  <2>5. Asking(up') <= Asking(up) /\ Asking(up') \in Nat /\ Asking(up) \in Nat
    BY <2>3, <2>4, AskingFewer, AskingIsNatural
  <2>6. LinkTyped'
    BY <1>1, <1>8, <2>2, <2>3 DEF LinkTyped, OutTyped, Labels, OnOpen, serverVars
  <2>7. DeskTyped'
    <3>1. version \in Nat /\ version + Asking(up) <= MaxVersion /\ version' = version
      BY <1>8 DEF TypeInv, DeskTyped, serverVars, OnOpen
    <3>2. version' + Asking(up') <= MaxVersion
      BY <2>5, <3>1, Constants
    <3> QED BY <1>8, <3>2 DEF TypeInv, DeskTyped, serverVars, OnOpen
  <2> QED BY <2>1, <2>6, <2>7 DEF TypeInv
<1>9. CASE OnMessage(c)
  <2> DEFINE s == ui[c].socket
             m == Head(down[s])
             u == IF ui[c].phase = "waiting-for-snapshot"
                  THEN AfterAnswer(ui[c], m) ELSE AfterMessage(ui[c], m)
  <2>1. s \in Conns /\ down[s] # << >> /\ down[s] \in Seq(Sent) /\ Len(down[s]) <= WireRoom
    BY <1>1, <1>9 DEF OnMessage, LinkTyped, Interfaces
  <2>2. m \in Sent /\ Tail(down[s]) \in Seq(Sent) /\ Len(Tail(down[s])) <= WireRoom
    BY <2>1, TailContents, Constants
  <2>3. u \in Interfaces
    BY <1>1, <2>2, MessageLands
  <2>4. ui' = [ui EXCEPT ![c] = u]
    BY <1>9 DEF OnMessage
  <2>5. \/ Closed({s})
        \/ down' = [down EXCEPT ![s] = Tail(@)] /\ UNCHANGED left
    BY <1>9 DEF OnMessage
  <2>6. /\ left' \subseteq Conns /\ down' \in [Conns -> Seq(Sent)]
        /\ \A r \in Conns : Len(down'[r]) <= WireRoom
    <3>1. CASE Closed({s})
      BY <1>1, <2>1, <3>1, ClosedDoes
    <3>2. CASE down' = [down EXCEPT ![s] = Tail(@)] /\ UNCHANGED left
      <4> DEFINE q == Tail(down[s])
      <4>1. q \in Seq(Sent) /\ Len(q) <= WireRoom
        BY <2>2
      <4> HIDE DEF q
      <4>2. down' = [down EXCEPT ![s] = q]
        BY <3>2 DEF q
      <4> QED BY <1>1, <3>2, <4>1, <4>2 DEF LinkTyped
    <3> QED BY <2>5, <3>1, <3>2
  <2>7. LinkTyped'
    BY <1>1, <1>9, <2>6 DEF LinkTyped, OutTyped, OnMessage, serverVars
  <2>8. DeskTyped'
    BY <1>9, <2>6 DEF TypeInv, DeskTyped, serverVars, OnMessage
  <2>9. UiTyped'
    BY <1>1, <2>3, <2>4 DEF UiTyped
  <2> QED BY <2>7, <2>8, <2>9 DEF TypeInv
<1> QED BY <1>3, <1>4, <1>6, <1>7, <1>8, <1>9 DEF Timers

\* What a connection's task leaves typed.
LEMMA TypeServe ==
    ASSUME TypeInv, TaskInv, NEW s \in Conns, Serve(s)
    PROVE  TypeInv'
<1>1. /\ DeskTyped /\ LinkTyped /\ UiTyped /\ OutTyped /\ up \in Uploads
  BY DEF TypeInv, LinkTyped
<1>2. /\ version \in Nat /\ Asking(up) \in Nat /\ version + Asking(up) <= MaxVersion
      /\ MaxVersion \in Nat
  BY <1>1, AskingIsNatural, Constants DEF DeskTyped
<1>3. ASSUME up' \in Uploads, Asking(up') <= Asking(up), version' = version
      PROVE  version' + Asking(up') <= MaxVersion
  <2>1. Asking(up') \in Nat
    BY <1>3, AskingIsNatural
  <2> QED BY <1>2, <1>3, <2>1
<1>4. /\ outbound[s] \in Outbounds /\ taken[s].doc \in Docs /\ taken[s].ver \in Versions
      /\ pc[s] \in Labels /\ down[s] \in Seq(Sent) /\ Len(down[s]) \in Nat
      /\ outbound[s].control \in Seq(Queued) /\ outbound[s].closed \in BOOLEAN
      /\ outbound[s].telemetry \in BOOLEAN
  BY Members
<1>5. ASSUME NEW l \in Labels PROVE [pc EXCEPT ![s] = l] \in [Conns -> Labels]
  BY <1>1 DEF LinkTyped
<1>6. CASE Enter(s)
  <2>0. up[s] = <<Hello>>
    BY <1>6 DEF Enter, At, TaskInv
  <2>1. Tail(up[s]) = << >> /\ << >> \in Seq(Commands \cup {Hello})
    <3>1. \A m : Tail(<<m>>) = << >>
      OBVIOUS
    <3> QED BY <2>0, <3>1
  <2>2. up' = [up EXCEPT ![s] = << >>]
    BY <1>6, <2>1 DEF Enter
  <2>3. up' \in Uploads
        /\ \A r \in Conns : up'[r] = up[r] \/ (\A i \in DOMAIN up'[r] : up'[r][i].t # "Command")
    BY <1>1, <2>1, <2>2 DEF Uploads
  <2>4. version' + Asking(up') <= MaxVersion
    BY <1>1, <1>3, <1>6, <2>3, AskingFewer DEF Enter
  <2> QED BY <1>1, <1>6, <2>3, <2>4
          DEF Enter, Go, TypeInv, DeskTyped, LinkTyped, OutTyped, UiTyped, Labels
<1>7. CASE TakeSnapshot(s)
  <2>1. version \in Versions /\ doc \in Docs
    BY <1>1, <1>2 DEF DeskTyped, Versions
  <2> QED BY <1>1, <1>7, <2>1
          DEF TakeSnapshot, Go, TypeInv, DeskTyped, LinkTyped, OutTyped, UiTyped, Labels
<1>8. CASE QueueSnapshot(s)
  <2>1. Snapshot(taken[s]) \in Sent
    BY <1>4 DEF Snapshot, Sent, Queued
  <2>2. OutTyped'
    BY <1>1, <1>8, <2>1, PushDoes DEF QueueSnapshot
  <2>3. NotTaken \in [doc : Docs, ver : Versions]
    BY Constants DEF NotTaken, Docs
  <2> QED BY <1>1, <1>8, <2>2, <2>3
          DEF QueueSnapshot, Go, TypeInv, DeskTyped, LinkTyped, UiTyped, Labels
<1>9. CASE Look(s)
  <2>1. Waiting(outbound[s]) \in BOOLEAN
    BY <1>4 DEF Waiting
  <2> QED BY <1>1, <1>4, <1>9, <2>1
          DEF Look, Go, TypeInv, DeskTyped, LinkTyped, OutTyped, UiTyped, Labels, serverVars
<1>10. NotLooked \in [waiting : BOOLEAN, closing : BOOLEAN]
  BY DEF NotLooked
<1>11. CASE ReceiveCommand(s)
  <2> DEFINE m == Head(up[s])
  <2>1. up[s] \in Seq(Commands) /\ up[s] # << >> /\ m \in Commands
    <3>1. up[s] \in Seq(Commands) /\ up[s] # << >>
      BY <1>11 DEF ReceiveCommand, At, TaskInv, Listed, Pumped
    <3> QED BY <3>1, TailContents
  <2>2. m.t = "Command" /\ m.key \in Keys /\ m.put \in BOOLEAN
    BY <2>1, Kinds
  <2>3. up' = [up EXCEPT ![s] = Tail(@)]
    BY <1>11 DEF ReceiveCommand
  <2>4. up' \in Uploads /\ Asking(up') + 1 <= Asking(up) /\ Asking(up') \in Nat
    <3>1. up' \in Uploads /\ Asking(up') + 1 <= Asking(up)
      BY <1>1, <2>1, <2>2, <2>3, FlyingTail DEF Asking
    <3> QED BY <3>1, AskingIsNatural
  <2>5. version + 1 \in Versions \ {0} /\ version + 1 + Asking(up') <= MaxVersion
        /\ version + Asking(up') <= MaxVersion
    BY <1>2, <2>4 DEF Versions
  <2>6. /\ look' \in [Conns -> [waiting : BOOLEAN, closing : BOOLEAN]]
        /\ UNCHANGED <<daemon, telling, clients, taken, down, left, ui>>
    BY <1>1, <1>10, <1>11 DEF ReceiveCommand, Blind, LinkTyped
  <2>7. CASE Refused(m.key, m.put)
    <3>1. /\ PushTo(s, Reject("CommandRefused")) /\ Go(s, "look")
          /\ UNCHANGED <<doc, version, job>>
      BY <1>11, <2>7 DEF ReceiveCommand
    <3>2. Reject("CommandRefused") \in Sent
      BY Kinds DEF Reasons
    <3>3. OutTyped'
      BY <1>1, <3>1, <3>2, PushDoes
    <3>4. LinkTyped'
      BY <1>1, <2>4, <2>6, <3>1, <3>3 DEF Go, LinkTyped, Labels
    <3>5. version' + Asking(up') <= MaxVersion
      BY <2>5, <3>1
    <3>6. DeskTyped'
      BY <1>1, <2>6, <3>1, <3>5 DEF DeskTyped
    <3> QED BY <1>1, <2>6, <3>4, <3>6 DEF TypeInv, UiTyped
  <2>8. CASE ~ Refused(m.key, m.put)
    <3> DEFINE op == OpFor(m.key, m.put)
    <3>1. /\ doc' = Applied(doc, op) /\ version' = version + 1
          /\ job' = [job EXCEPT ![s] = [op |-> {op}, listed |-> FALSE, to |-> {}]]
          /\ Go(s, "tell") /\ UNCHANGED <<outbound, wake>>
      BY <1>11, <2>8 DEF ReceiveCommand
    <3>2. op \in Ops
      BY <2>2, <2>5, Constants DEF OpFor, Ops
    <3>3. Applied(doc, op) \in Docs
      BY <1>1, <3>2 DEF Applied, Docs, DeskTyped, Ops
    <3>4. /\ s \in Tasks
          /\ job' \in [Tasks -> [op : SUBSET Ops, listed : BOOLEAN, to : SUBSET Conns]]
          /\ \A t \in Tasks : \A p, q \in job'[t].op : p = q
      BY <1>1, <3>1, <3>2, Constants DEF DeskTyped
    <3>5. LinkTyped'
      BY <1>1, <2>4, <2>6, <3>1 DEF Go, LinkTyped, OutTyped, Labels
    <3>6. version' \in Nat /\ version' + Asking(up') <= MaxVersion
      BY <1>2, <2>5, <3>1
    <3>7. DeskTyped'
      BY <1>1, <2>6, <3>1, <3>3, <3>4, <3>6 DEF DeskTyped
    <3> QED BY <1>1, <2>6, <3>5, <3>7 DEF TypeInv, UiTyped
  <2> QED BY <2>7, <2>8
<1>12. CASE SendNext(s)
  <2>1. /\ pc' \in [Conns -> Labels]
        /\ look' \in [Conns -> [waiting : BOOLEAN, closing : BOOLEAN]]
        /\ UNCHANGED <<serverVars, wake, up, left, ui>>
    BY <1>1, <1>10, <1>12 DEF SendNext, Go, Blind, LinkTyped, Labels
  <2>2. OutTyped' /\ down' \in [Conns -> Seq(Sent)] /\ \A r \in Conns : Len(down'[r]) <= WireRoom
    <3>1. CASE ~ Waiting(outbound[s])
      <4>1. UNCHANGED <<down, outbound>>
        BY <1>12, <3>1 DEF SendNext
      <4> QED BY <1>1, <2>1, <4>1 DEF LinkTyped, OutTyped
    <3>2. CASE Waiting(outbound[s])
      <4> DEFINE m == NextOut(outbound[s])
                 n == Rest(outbound[s])
                 q == Append(down[s], m)
      <4>1. /\ down' = IF s \in left THEN down ELSE [down EXCEPT ![s] = q]
            /\ outbound' = [outbound EXCEPT ![s] = n]
        BY <1>12, <3>2 DEF SendNext
      <4>2. m \in Sent /\ n \in Outbounds /\ Len(n.control) <= ControlQueue
        <5>0. Len(outbound[s].control) <= ControlQueue
          BY <1>1 DEF OutTyped
        <5>1. CASE outbound[s].control = << >>
          <6>1. m = Telemetry /\ n = [outbound[s] EXCEPT !.telemetry = FALSE]
            BY <5>1 DEF NextOut, Rest
          <6>2. n \in Outbounds /\ n.control = outbound[s].control
            BY <1>4, <6>1 DEF Outbounds
          <6> QED BY <5>0, <6>1, <6>2, Kinds
        <5>2. CASE outbound[s].control # << >>
          <6> DEFINE z == Tail(outbound[s].control)
          <6>1. m = Head(outbound[s].control) /\ n = [outbound[s] EXCEPT !.control = z]
            BY <5>2 DEF NextOut, Rest
          <6>2. m \in Queued /\ z \in Seq(Queued) /\ Len(z) = Len(outbound[s].control) - 1
                /\ Len(outbound[s].control) \in Nat
            BY <1>4, <5>2, <6>1, TailContents
          <6> HIDE DEF z
          <6>3. n \in Outbounds /\ n.control = z
            BY <1>4, <6>1, <6>2 DEF Outbounds
          <6>4. Len(n.control) <= ControlQueue
            BY <5>0, <6>2, <6>3, Constants
          <6> QED BY <6>2, <6>3, <6>4, Kinds
        <5> QED BY <5>1, <5>2
      <4> HIDE DEF m, n
      <4>3. OutTyped'
        BY <1>1, <2>1, <4>1, <4>2 DEF OutTyped
      <4>4. q \in Seq(Sent) /\ Len(q) <= WireRoom
        <5>1. Len(down[s]) < WireRoom
          BY <1>12 DEF SendNext, Room
        <5>2. q \in Seq(Sent) /\ Len(q) = Len(down[s]) + 1
          BY <1>4, <4>2, AppendContents
        <5> QED BY <1>4, <5>1, <5>2, Constants
      <4> HIDE DEF q
      <4> QED BY <1>1, <4>1, <4>3, <4>4 DEF LinkTyped
    <3> QED BY <3>1, <3>2
  <2> QED BY <1>1, <2>1, <2>2 DEF TypeInv, DeskTyped, LinkTyped, UiTyped, serverVars
<1>13. CASE Goodbye(s)
  BY <1>1, <1>10, <1>13 DEF Goodbye, Go, Blind, TypeInv, DeskTyped, LinkTyped,
     OutTyped, UiTyped, Labels, serverVars
<1>16. CASE Gone(s)
  BY <1>1, <1>10, <1>16 DEF Gone, Go, Blind, TypeInv, DeskTyped, LinkTyped,
     OutTyped, UiTyped, Labels, serverVars
<1>14. CASE Woken(s)
  BY <1>1, <1>10, <1>14 DEF Woken, Go, Blind, TypeInv, DeskTyped, LinkTyped,
     OutTyped, UiTyped, Labels, serverVars
<1>15. CASE HandshakeLost(s) \/ Leave(s)
  <2>1. Freed({s}) /\ {s} \in SUBSET Conns
    BY <1>15 DEF HandshakeLost, Leave
  <2>2. OutTyped' /\ up' \in Uploads /\ Asking(up') <= Asking(up)
    BY <1>1, <2>1, FreedDoes
  <2>3. version' = version
    BY <1>15 DEF HandshakeLost, Leave, serverVars
  <2>4. version' + Asking(up') <= MaxVersion
    BY <1>3, <2>2, <2>3
  <2>5. LinkTyped'
    BY <1>1, <1>15, <2>2
       DEF HandshakeLost, Leave, Go, LinkTyped, Labels, serverVars
  <2>6. DeskTyped' /\ UiTyped'
    BY <1>1, <1>15, <2>4 DEF HandshakeLost, Leave, DeskTyped, UiTyped, serverVars
  <2> QED BY <2>5, <2>6 DEF TypeInv
<1> QED BY <1>6, <1>7, <1>8, <1>9, <1>11, <1>12, <1>13, <1>14, <1>15, <1>16 DEF Serve

\* A push alone disturbs only the queue it goes to.
LEMMA TypePush ==
    ASSUME TypeInv, NEW s \in Conns, NEW m \in Sent, PushTo(s, m),
           UNCHANGED <<version, doc, daemon, telling, clients, taken, look, up, down, left, ui>>,
           pc' \in [Conns -> Labels],
           job' \in [Tasks -> [op : SUBSET Ops, listed : BOOLEAN, to : SUBSET Conns]],
           \A t \in Tasks : \A p, q \in job'[t].op : p = q
    PROVE  TypeInv'
<1>1. OutTyped'
  BY PushDoes DEF TypeInv, LinkTyped
<1> QED BY <1>1 DEF TypeInv, DeskTyped, LinkTyped, UiTyped

LEMMA TypeTell ==
    ASSUME TypeInv, TaskInv, NEW t \in Tasks, Broadcast(t)
    PROVE  TypeInv'
<1>1. /\ DeskTyped /\ LinkTyped /\ UiTyped /\ OutTyped
  BY DEF TypeInv, LinkTyped
<1>2. /\ job \in [Tasks -> [op : SUBSET Ops, listed : BOOLEAN, to : SUBSET Conns]]
      /\ \A r \in Tasks : \A p, q \in job[r].op : p = q
      /\ clients \subseteq Conns /\ pc \in [Conns -> Labels]
  BY <1>1 DEF DeskTyped, LinkTyped
<1>3. CASE List(t)
  <2> DEFINE j == [job[t] EXCEPT !.listed = TRUE, !.to = clients]
  <2>1. job' = [job EXCEPT ![t] = j]
        /\ UNCHANGED <<doc, version, daemon, telling, clients, pc, outbound, wake,
                       look, taken, up, down, left, ui>>
    BY <1>2, <1>3 DEF List
  <2>5. j \in [op : SUBSET Ops, listed : BOOLEAN, to : SUBSET Conns] /\ j.op = job[t].op
    BY <1>2
  <2> HIDE DEF j
  <2>2. /\ job' \in [Tasks -> [op : SUBSET Ops, listed : BOOLEAN, to : SUBSET Conns]]
        /\ \A r \in Tasks : job'[r].op = job[r].op
    BY <1>2, <2>1, <2>5
  <2>3. \A r \in Tasks : \A p, q \in job'[r].op : p = q
    BY <1>2, <2>2
  <2>4. DeskTyped'
    BY <1>1, <2>1, <2>2, <2>3 DEF DeskTyped
  <2> QED BY <1>1, <2>1, <2>4 DEF TypeInv, LinkTyped, UiTyped, OutTyped
<1>4. ASSUME NEW s \in Conns, Tell(t, s) PROVE TypeInv'
  <2>1. PICK op \in job[t].op : PushTo(s, Delta(op))
    BY <1>4 DEF Tell
  <2>2. Delta(op) \in Sent
    BY JobMembers
  <2>3. /\ job' \in [Tasks -> [op : SUBSET Ops, listed : BOOLEAN, to : SUBSET Conns]]
        /\ \A r \in Tasks : \A p, q \in job'[r].op : p = q
    BY <1>2, <1>4 DEF Tell
  <2>4. pc' \in [Conns -> Labels]
        /\ UNCHANGED <<version, doc, daemon, telling, clients, taken, look, up, down, left, ui>>
    BY <1>2, <1>4 DEF Tell
  <2> QED BY <2>1, <2>2, <2>3, <2>4, TypePush
<1>5. CASE Told(t)
  <2>1. /\ job' \in [Tasks -> [op : SUBSET Ops, listed : BOOLEAN, to : SUBSET Conns]]
        /\ \A r \in Tasks : \A p, q \in job'[r].op : p = q
    BY <1>2, <1>5 DEF Told, NoJob
  <2>2. UNCHANGED <<version, doc, daemon, telling, clients, taken, look, up, down, left, ui>>
    BY <1>5 DEF Told
  <2>3. CASE t = Daemon
    <3>1. UNCHANGED <<outbound, wake, pc>>
      BY <1>5, <2>3 DEF Told
    <3> QED BY <1>1, <2>1, <2>2, <3>1 DEF TypeInv, DeskTyped, LinkTyped, UiTyped, OutTyped
  <2>4. CASE t # Daemon
    <3>1. t \in Conns /\ Go(t, "look") /\ \E op \in job[t].op : PushTo(t, Ack(op.ver))
      BY <1>5, <2>4, Constants DEF Told
    <3>2. PICK op \in job[t].op : PushTo(t, Ack(op.ver))
      BY <3>1
    <3>3. Ack(op.ver) \in Sent
      BY JobMembers
    <3>4. pc' \in [Conns -> Labels]
      BY <1>2, <3>1 DEF Go, Labels
    <3> QED BY <2>1, <2>2, <3>1, <3>2, <3>3, <3>4, TypePush
  <2> QED BY <2>3, <2>4
<1> QED BY <1>3, <1>4, <1>5 DEF Broadcast

LEMMA TypeDaemon ==
    ASSUME TypeInv, TaskInv,
           \/ \E s \in Conns : Cut(s) \/ Picture(s) \/ TellShutdown(s)
           \/ \E k \in Keys, put \in BOOLEAN :
                 DaemonEdit(k, put) \/ \E c \in Clients : Send(c, k, put)
           \/ Shutdown \/ Exit
    PROVE  TypeInv'
<1>1. /\ DeskTyped /\ LinkTyped /\ UiTyped /\ OutTyped /\ up \in Uploads /\ left \subseteq Conns
  BY DEF TypeInv, LinkTyped, DeskTyped
<1>2. /\ job \in [Tasks -> [op : SUBSET Ops, listed : BOOLEAN, to : SUBSET Conns]]
      /\ \A r \in Tasks : \A p, q \in job[r].op : p = q
      /\ clients \subseteq Conns /\ pc \in [Conns -> Labels]
  BY <1>1 DEF DeskTyped, LinkTyped
<1>3. /\ version \in Nat /\ Asking(up) \in Nat /\ version + Asking(up) <= MaxVersion
      /\ MaxVersion \in Nat
  BY <1>1, AskingIsNatural, Constants DEF DeskTyped
<1>4. ASSUME NEW s \in Conns, Cut(s) PROVE TypeInv'
  <2>1. /\ left' \subseteq Conns /\ down' \in [Conns -> Seq(Sent)]
        /\ \A r \in Conns : Len(down'[r]) <= WireRoom
    BY <1>1, <1>4, ClosedDoes DEF Cut
  <2>2. UNCHANGED <<serverVars, pc, outbound, wake, look, up, ui>>
    BY <1>4 DEF Cut
  <2> QED BY <1>1, <2>1, <2>2
          DEF TypeInv, DeskTyped, LinkTyped, UiTyped, OutTyped, serverVars
<1>5. ASSUME NEW s \in Conns, Picture(s) PROVE TypeInv'
  <2>1. PushTo(s, Telemetry) /\ UNCHANGED <<serverVars, pc, look, up, down, left, ui>>
    BY <1>5 DEF Picture
  <2> QED BY <1>2, <2>1, TypePush, Kinds DEF serverVars
<1>6. ASSUME NEW s \in Conns, TellShutdown(s) PROVE TypeInv'
  <2> DEFINE n == Fail(outbound[s], Reject("ShuttingDown"))
  <2>1. n \in Outbounds /\ Len(n.control) <= ControlQueue
    <3>1. Reject("ShuttingDown") \in Queued
      BY Kinds DEF Reasons
    <3>2. n \in Outbounds /\ Len(<<Reject("ShuttingDown")>>) = 1
          /\ n.control = <<Reject("ShuttingDown")>>
      BY <3>1, Singletons DEF Fail
    <3> HIDE DEF n
    <3>3. Len(n.control) = 1
      BY <3>2
    <3>4. Len(n.control) <= ControlQueue
      BY <3>3, Constants
    <3> QED BY <3>2, <3>4
  <2>2. /\ outbound' = [outbound EXCEPT ![s] = n] /\ wake' = [wake EXCEPT ![s] = TRUE]
        /\ telling' = telling \ {s}
        /\ UNCHANGED <<doc, version, daemon, clients, pc, look, taken, job, up, down, left, ui>>
    BY <1>6 DEF TellShutdown, Ring
  <2> HIDE DEF n
  <2>3. OutTyped'
    BY <1>1, <2>1, <2>2 DEF OutTyped
  <2> QED BY <1>1, <2>2, <2>3 DEF TypeInv, DeskTyped, LinkTyped, UiTyped
<1>7. ASSUME NEW k \in Keys, NEW put \in BOOLEAN, DaemonEdit(k, put) PROVE TypeInv'
  <2> DEFINE op == OpFor(k, put)
  <2>1. /\ version + Asking(up) < MaxVersion
        /\ doc' = Applied(doc, op) /\ version' = version + 1
        /\ job' = [job EXCEPT ![Daemon] = [op |-> {op}, listed |-> FALSE, to |-> {}]]
        /\ UNCHANGED <<daemon, telling, clients, pc, outbound, wake, look, taken, up,
                       down, left, ui>>
    BY <1>7, AskedIs DEF DaemonEdit
  <2>2. version + 1 \in Versions \ {0} /\ version' \in Nat /\ version' + Asking(up) <= MaxVersion
    BY <1>3, <2>1 DEF Versions
  <2>3. op \in Ops
    BY <2>2, Constants DEF OpFor, Ops
  <2>4. Applied(doc, op) \in Docs
    BY <1>1, <2>3 DEF Applied, Docs, DeskTyped, Ops
  <2> HIDE DEF op
  <2>5. /\ job' \in [Tasks -> [op : SUBSET Ops, listed : BOOLEAN, to : SUBSET Conns]]
        /\ \A t \in Tasks : \A p, q \in job'[t].op : p = q
    BY <1>2, <2>1, <2>3, Constants
  <2>6. DeskTyped'
    BY <1>1, <2>1, <2>2, <2>4, <2>5 DEF DeskTyped
  <2> QED BY <1>1, <2>1, <2>6 DEF TypeInv, LinkTyped, UiTyped, OutTyped
<1>8. ASSUME NEW k \in Keys, NEW put \in BOOLEAN, NEW c \in Clients, Send(c, k, put)
      PROVE  TypeInv'
  <2> DEFINE s == ui[c].socket
             m == Command(k, put)
  <2>1. version + Asking(up) < MaxVersion /\ up' = [up EXCEPT ![s] = Append(@, m)]
        /\ UNCHANGED <<serverVars, pc, outbound, wake, look, down, left, ui>>
    BY <1>8, AskedIs DEF Send
  <2>2. m \in Commands
    BY DEF Command, Commands
  <2>3. up' \in Uploads /\ Asking(up') <= Asking(up) + 1
    <3>1. CASE s \in Conns
      BY <1>1, <2>1, <2>2, <3>1, FlyingMore DEF Asking
    <3>2. CASE s \notin Conns
      <4>1. up' = up
        BY <1>1, <2>1, <3>2 DEF Uploads
      <4> QED BY <1>1, <1>3, <4>1
    <3> QED BY <3>1, <3>2
  <2>4. Asking(up') \in Nat
    BY <2>3, AskingIsNatural
  <2>5. version' + Asking(up') <= MaxVersion
    <3>1. version' = version
      BY <2>1 DEF serverVars
    <3> QED BY <1>3, <2>1, <2>3, <2>4, <3>1
  <2> QED BY <1>1, <2>1, <2>3, <2>5
          DEF TypeInv, DeskTyped, LinkTyped, UiTyped, OutTyped, serverVars
<1>9. CASE Shutdown
  BY <1>1, <1>9 DEF Shutdown, TypeInv, DeskTyped, LinkTyped, UiTyped, OutTyped
<1>10. CASE Exit
  <2>1. Freed(Conns) /\ version' = version
    BY <1>10 DEF Exit
  <2>2. OutTyped' /\ up' \in Uploads /\ Asking(up') <= Asking(up)
    BY <1>1, <2>1, FreedDoes
  <2>3. Asking(up') \in Nat
    BY <2>2, AskingIsNatural
  <2>4. version' + Asking(up') <= MaxVersion
    BY <1>3, <2>1, <2>2, <2>3
  <2>5. NotTaken \in [doc : Docs, ver : Versions]
        /\ NotLooked \in [waiting : BOOLEAN, closing : BOOLEAN]
    BY Constants DEF NotTaken, NotLooked, Docs
  <2>6. LinkTyped'
    BY <1>1, <1>10, <2>2, <2>5 DEF Exit, LinkTyped, Labels
  <2>7. DeskTyped' /\ UiTyped'
    BY <1>1, <1>10, <2>4 DEF Exit, DeskTyped, UiTyped, NoJob
  <2> QED BY <2>6, <2>7 DEF TypeInv
<1> QED BY <1>4, <1>5, <1>6, <1>7, <1>8, <1>9, <1>10

-----------------------------------------------------------------------------
(* No task waits unrung                                                    *)

LEMMA RingInit == Init => NoLostRing
  BY DEF Init, NoLostRing

\* Whoever changes a queue that a task waits on rings for it.
LEMMA RingStep ==
    ASSUME TypeInv, NoLostRing, [Next]_vars
    PROVE  NoLostRing'
<1> DEFINE Rung(s) ==
      pc[s] = "select" /\ (\/ Waiting(outbound[s]) # look[s].waiting
                           \/ outbound[s].closed # look[s].closing) => wake[s]
<1>0. NoLostRing <=> \A s \in Conns : Rung(s)
  BY DEF NoLostRing
<1>1. NoLostRing' <=> \A s \in Conns : Rung(s)'
  BY DEF NoLostRing
<1>2. pc \in [Conns -> Labels] /\ OutTyped /\ up \in Uploads
      /\ look \in [Conns -> [waiting : BOOLEAN, closing : BOOLEAN]]
  BY DEF TypeInv, LinkTyped
\* An idle step, or one that leaves the task out of its wait.
<1>3. ASSUME NEW s \in Conns,
             \/ pc'[s] # "select"
             \/ wake'[s]
             \/ pc'[s] = pc[s] /\ outbound'[s] = outbound[s] /\ wake'[s] = wake[s]
                  /\ look'[s] = look[s]
      PROVE  Rung(s)'
  BY <1>0, <1>3
<1>4. ASSUME NEW s \in Conns, NEW m \in Sent, PushTo(s, m), UNCHANGED look,
             \/ UNCHANGED pc
             \/ \E l \in Labels \ {"select"} : pc' = [pc EXCEPT ![s] = l]
      PROVE  NoLostRing'
  <2>1. /\ \A r \in Conns \ {s} : outbound'[r] = outbound[r] /\ wake'[r] = wake[r]
        /\ pc[s] # "ended" => wake'[s]
        /\ pc[s] = "ended" => outbound' = outbound /\ wake' = wake
    BY <1>2, <1>4, PushDoes
  <2>2. \A r \in Conns \ {s} : pc'[r] = pc[r]
    BY <1>2, <1>4
  <2>3. pc'[s] = pc[s] \/ pc'[s] # "select"
    BY <1>2, <1>4
  <2>4. ASSUME NEW r \in Conns PROVE Rung(r)'
    <3>1. CASE r # s
      BY <1>3, <1>4, <2>1, <2>2, <3>1
    <3>2. CASE r = s
      BY <1>3, <1>4, <2>1, <2>3, <3>2
    <3> QED BY <3>1, <3>2
  <2> HIDE DEF Rung
  <2> QED BY <1>1, <2>4
\* A task's own step that leaves it out of its wait.
<1>5. ASSUME NEW s \in Conns, NEW l \in Labels \ {"select"}, pc' = [pc EXCEPT ![s] = l],
             \A r \in Conns \ {s} : outbound'[r] = outbound[r] /\ wake'[r] = wake[r]
                                      /\ look'[r] = look[r]
      PROVE  NoLostRing'
  <2>1. pc'[s] = l /\ \A r \in Conns \ {s} : pc'[r] = pc[r]
    BY <1>2, <1>5
  <2>2. \A r \in Conns : Rung(r)'
    BY <1>3, <1>5, <2>1
  <2> HIDE DEF Rung
  <2> QED BY <1>1, <2>2
<1>6. ASSUME UNCHANGED <<pc, outbound, wake, look>> PROVE NoLostRing'
  <2>1. \A r \in Conns : Rung(r)'
    BY <1>3, <1>6
  <2> HIDE DEF Rung
  <2> QED BY <1>1, <2>1
<1>7. ASSUME NEW s \in Conns, Serve(s) PROVE NoLostRing'
  <2>1. CASE Enter(s) \/ TakeSnapshot(s)
    BY <1>5, <2>1 DEF Enter, TakeSnapshot, Go, Labels
  <2>2. CASE QueueSnapshot(s)
    <3>1. Snapshot(taken[s]) \in Sent
      BY Members DEF Snapshot, Sent, Queued
    <3> QED BY <1>4, <2>2, <3>1 DEF QueueSnapshot, Go, Labels
  <2>3. CASE Look(s)
    <3>1. /\ look'[s] = [waiting |-> Waiting(outbound[s]), closing |-> outbound[s].closed]
          /\ \A r \in Conns \ {s} : look'[r] = look[r] /\ pc'[r] = pc[r]
          /\ UNCHANGED <<outbound, wake>>
      BY <1>2, <2>3 DEF Look, Go
    <3>2. Rung(s)'
      BY <3>1
    <3>3. \A r \in Conns \ {s} : Rung(r)'
      BY <1>3, <3>1
    <3> HIDE DEF Rung
    <3> QED BY <1>1, <3>2, <3>3
  <2>4. CASE ReceiveCommand(s)
    <3> DEFINE m == Head(up[s])
    <3>1. \A r \in Conns \ {s} : look'[r] = look[r]
      BY <1>2, <2>4 DEF ReceiveCommand, Blind
    <3>2. CASE Refused(m.key, m.put)
      <4>1. PushTo(s, Reject("CommandRefused")) /\ Reject("CommandRefused") \in Sent
            /\ pc' = [pc EXCEPT ![s] = "look"]
        BY <2>4, <3>2, Kinds DEF ReceiveCommand, Go, Reasons
      <4>2. \A r \in Conns \ {s} : outbound'[r] = outbound[r] /\ wake'[r] = wake[r]
        BY <1>2, <4>1, PushDoes
      <4> QED BY <1>5, <3>1, <4>1, <4>2 DEF Labels
    <3>3. CASE ~ Refused(m.key, m.put)
      <4>1. pc' = [pc EXCEPT ![s] = "tell"] /\ UNCHANGED <<outbound, wake>>
        BY <2>4, <3>3 DEF ReceiveCommand, Go
      <4> QED BY <1>5, <3>1, <4>1 DEF Labels
    <3> QED BY <3>2, <3>3
  <2>5. CASE SendNext(s) \/ Goodbye(s) \/ Woken(s) \/ Gone(s)
    <3>1. /\ \A r \in Conns \ {s} : look'[r] = look[r] /\ wake'[r] = wake[r]
                                      /\ outbound'[r] = outbound[r]
      BY <1>2, <2>5 DEF SendNext, Goodbye, Woken, Gone, Blind, OutTyped
    <3>2. \E l \in Labels \ {"select"} : pc' = [pc EXCEPT ![s] = l]
      BY <2>5 DEF SendNext, Goodbye, Woken, Gone, Go, Labels
    <3> QED BY <1>5, <3>1, <3>2
  <2>6. CASE HandshakeLost(s) \/ Leave(s)
    <3>1. Freed({s}) /\ pc' = [pc EXCEPT ![s] = "ended"] /\ UNCHANGED look
      BY <2>6 DEF HandshakeLost, Leave, Go
    <3>2. \A r \in Conns \ {s} : wake'[r] = wake[r] /\ outbound'[r] = outbound[r]
      BY <1>2, <3>1, FreedDoes
    <3> QED BY <1>5, <3>1, <3>2 DEF Labels
  <2> QED BY <1>7, <2>1, <2>2, <2>3, <2>4, <2>5, <2>6 DEF Serve
<1>8. ASSUME NEW s \in Conns, Cut(s) \/ Picture(s) \/ TellShutdown(s) PROVE NoLostRing'
  <2>1. CASE Cut(s)
    BY <1>6, <2>1 DEF Cut
  <2>2. CASE Picture(s)
    BY <1>4, <2>2, Kinds DEF Picture
  <2>3. CASE TellShutdown(s)
    <3>1. wake'[s] /\ \A r \in Conns \ {s} : wake'[r] = wake[r] /\ outbound'[r] = outbound[r]
      BY <1>2, <2>3 DEF TellShutdown, Ring, OutTyped
    <3>2. \A r \in Conns : Rung(r)'
      BY <1>3, <2>3, <3>1 DEF TellShutdown
    <3> HIDE DEF Rung
    <3> QED BY <1>1, <3>2
  <2> QED BY <1>8, <2>1, <2>2, <2>3
<1>9. ASSUME NEW t \in Tasks, Broadcast(t) PROVE NoLostRing'
  <2>1. CASE List(t)
    BY <1>6, <2>1 DEF List
  <2>2. ASSUME NEW s \in Conns, Tell(t, s) PROVE NoLostRing'
    <3>1. PICK op \in job[t].op : PushTo(s, Delta(op))
      BY <2>2 DEF Tell
    <3>2. Delta(op) \in Sent
      BY JobMembers
    <3> QED BY <1>4, <2>2, <3>1, <3>2 DEF Tell
  <2>3. CASE Told(t) /\ t = Daemon
    BY <1>6, <2>3 DEF Told
  <2>4. CASE Told(t) /\ t # Daemon
    <3>1. t \in Conns /\ pc' = [pc EXCEPT ![t] = "look"] /\ UNCHANGED look
      BY <2>4, Constants DEF Told, Go
    <3>2. PICK op \in job[t].op : PushTo(t, Ack(op.ver))
      BY <2>4 DEF Told
    <3>3. Ack(op.ver) \in Sent
      BY JobMembers
    <3> QED BY <1>4, <3>1, <3>2, <3>3 DEF Labels
  <2> QED BY <1>9, <2>1, <2>2, <2>3, <2>4 DEF Broadcast
<1>10. ASSUME NEW c \in Clients, Timers(c) \/ OnMessage(c) \/ Start(c) \/ Stop(c)
       PROVE  NoLostRing'
  <2>1. ASSUME NEW u, Connect(c, u), UNCHANGED <<outbound, wake, look>> PROVE NoLostRing'
    <3>1. \E s \in Conns : pc' = [pc EXCEPT ![s] = "opening"]
      BY <2>1 DEF Connect, Fresh
    <3> QED BY <1>5, <2>1, <3>1 DEF Labels
  <2>2. CASE OnOpen(c)
    <3>1. pc' = [pc EXCEPT ![ui[c].socket] = "handshake"] /\ UNCHANGED <<outbound, wake, look>>
      BY <2>2 DEF OnOpen
    <3>2. \A r \in Conns : pc'[r] = pc[r] \/ pc'[r] # "select"
      BY <1>2, <3>1
    <3>3. \A r \in Conns : Rung(r)'
      BY <1>3, <3>1, <3>2
    <3> HIDE DEF Rung
    <3> QED BY <1>1, <3>3
  <2> QED BY <1>6, <1>10, <2>1, <2>2 DEF Timers, Start, Stop, Retry, OnClose, OnMessage
<1>11. ASSUME NEW k \in Keys, NEW put \in BOOLEAN,
              DaemonEdit(k, put) \/ \E c \in Clients : Send(c, k, put)
       PROVE  NoLostRing'
  BY <1>6, <1>11 DEF DaemonEdit, Send
<1>12. CASE Shutdown
  BY <1>6, <1>12 DEF Shutdown
<1>13. CASE Exit
  <2>1. \A r \in Conns : pc'[r] # "select"
    BY <1>13 DEF Exit
  <2> QED BY <2>1 DEF NoLostRing
<1>14. CASE UNCHANGED vars
  BY <1>6, <1>14 DEF vars
<1> QED BY <1>7, <1>8, <1>9, <1>10, <1>11, <1>12, <1>13, <1>14 DEF Next

-----------------------------------------------------------------------------
(* Tasks and sockets                                                       *)

LEMMA PlacesInit == Init => TaskInv /\ SocketInv
<1> SUFFICES ASSUME Init PROVE TaskInv /\ SocketInv
  OBVIOUS
<1>1. TaskInv
  BY Constants DEF Init, TaskInv, Listed, Pumped, NoJob
<1>2. \A c \in Clients : ui[c] = Idle
  BY DEF Init
<1>3. SocketInv
  BY <1>2, IdleTyped DEF Init, SocketInv
<1> QED BY <1>1, <1>3

\* What broadcasting does to a job.
LEMMA JobDoes ==
    ASSUME TypeInv, NEW t \in Tasks
    PROVE  /\ List(t) => /\ job'[t].op = job[t].op /\ job'[t].listed /\ job'[t].to = clients
                         /\ \A r \in Tasks \ {t} : job'[r] = job[r]
           /\ \A s \in Conns : Tell(t, s) =>
                         /\ job'[t].op = job[t].op /\ job'[t].listed = job[t].listed
                         /\ job'[t].to = job[t].to \ {s}
                         /\ \A r \in Tasks \ {t} : job'[r] = job[r]
           /\ Told(t) => /\ job'[t].op = {} /\ ~ job'[t].listed /\ job'[t].to = {}
                         /\ \A r \in Tasks \ {t} : job'[r] = job[r]
<1>1. job \in [Tasks -> [op : SUBSET Ops, listed : BOOLEAN, to : SUBSET Conns]]
  BY DEF TypeInv, DeskTyped
<1>2. ASSUME List(t)
      PROVE  /\ job'[t].op = job[t].op /\ job'[t].listed /\ job'[t].to = clients
             /\ \A r \in Tasks \ {t} : job'[r] = job[r]
  <2> DEFINE j == [job[t] EXCEPT !.listed = TRUE, !.to = clients]
  <2>1. job' = [job EXCEPT ![t] = j]
    BY <1>1, <1>2 DEF List
  <2>2. j.op = job[t].op /\ j.listed /\ j.to = clients
    BY <1>1
  <2> HIDE DEF j
  <2> QED BY <1>1, <2>1, <2>2
<1>3. ASSUME NEW s \in Conns, Tell(t, s)
      PROVE  /\ job'[t].op = job[t].op /\ job'[t].listed = job[t].listed
             /\ job'[t].to = job[t].to \ {s}
             /\ \A r \in Tasks \ {t} : job'[r] = job[r]
  <2> DEFINE j == [job[t] EXCEPT !.to = @ \ {s}]
  <2>1. job' = [job EXCEPT ![t] = j]
    BY <1>1, <1>3 DEF Tell
  <2>2. j.op = job[t].op /\ j.listed = job[t].listed /\ j.to = job[t].to \ {s}
    BY <1>1
  <2> HIDE DEF j
  <2> QED BY <1>1, <2>1, <2>2
<1>4. ASSUME Told(t)
      PROVE  /\ job'[t].op = {} /\ ~ job'[t].listed /\ job'[t].to = {}
             /\ \A r \in Tasks \ {t} : job'[r] = job[r]
  BY <1>1, <1>4 DEF Told, NoJob
<1> QED BY <1>2, <1>3, <1>4

\* The part of a task's invariant that speaks of one connection.
TaskOk(s) ==
    /\ s \in clients <=> pc[s] \in Listed
    /\ pc[s] = "handshake" => up[s] = <<Hello>>
    /\ pc[s] \in Listed => up[s] \in Seq(Commands)
    /\ down[s] # << >> => pc[s] \in Pumped \cup {"ended"}
    /\ job[s].op # {} <=> pc[s] = "tell"

LEMMA TaskStep ==
    ASSUME WireInv, [Next]_vars
    PROVE  TaskInv'
<1>0. \A s \in Conns : TaskOk(s)
  BY DEF WireInv, TaskInv, TaskOk
<1>t. /\ TypeInv /\ TaskInv /\ SocketInv /\ pc \in [Conns -> Labels] /\ up \in Uploads
      /\ OutTyped /\ down \in [Conns -> Seq(Sent)] /\ LinkTyped /\ left \subseteq Conns
      /\ job \in [Tasks -> [op : SUBSET Ops, listed : BOOLEAN, to : SUBSET Conns]]
      /\ Conns \subseteq Tasks
  BY Constants DEF WireInv, TypeInv, LinkTyped, DeskTyped
<1>1. (\A s \in Conns : TaskOk(s)') => TaskInv'
  BY DEF TaskInv, TaskOk
<1>2. ASSUME NEW s \in Conns, clients' = clients, pc'[s] = pc[s], up'[s] = up[s],
             down'[s] = down[s] \/ down'[s] = << >>, job'[s].op = job[s].op
      PROVE  TaskOk(s)'
  BY <1>0, <1>2 DEF TaskOk
<1>3. ASSUME NEW s \in Conns, Serve(s) PROVE TaskInv'
  <2>1. ASSUME NEW r \in Conns \ {s} PROVE TaskOk(r)'
    <3>1. pc'[r] = pc[r] /\ up'[r] = up[r] /\ job'[r] = job[r] /\ down'[r] = down[r]
          /\ (r \in clients <=> r \in clients')
      <4>1. CASE Enter(s) \/ TakeSnapshot(s) \/ QueueSnapshot(s) \/ Look(s)
        BY <1>t, <4>1 DEF Enter, TakeSnapshot, QueueSnapshot, Look, Go, serverVars, Uploads
      <4>2. CASE ReceiveCommand(s)
        BY <1>t, <4>2 DEF ReceiveCommand, Go, Uploads
      <4>3. CASE SendNext(s)
        BY <1>t, <4>3 DEF SendNext, Go, serverVars
      <4>4. CASE Goodbye(s) \/ Woken(s) \/ Gone(s)
        BY <1>t, <4>4 DEF Goodbye, Woken, Gone, Go, serverVars
      <4>5. CASE HandshakeLost(s) \/ Leave(s)
        <5>1. Freed({s})
          BY <4>5 DEF HandshakeLost, Leave
        <5>2. up'[r] = up[r]
          BY <1>t, <5>1, FreedDoes
        <5> QED BY <1>t, <4>5, <5>2 DEF HandshakeLost, Leave, Go, serverVars
      <4> QED BY <1>3, <4>1, <4>2, <4>3, <4>4, <4>5 DEF Serve
    <3> QED BY <1>0, <3>1 DEF TaskOk
  <2>2. TaskOk(s)'
    <3>0. TaskOk(s) /\ pc[s] \in Labels /\ up[s] \in Seq(Commands \cup {Hello})
      BY <1>0, <1>t DEF Uploads
    <3>1. CASE Enter(s)
      <4>1. pc[s] = "handshake" /\ pc'[s] = "entered" /\ clients' = clients \cup {s}
            /\ up'[s] = Tail(up[s]) /\ job' = job /\ down' = down
        BY <1>t, <3>1 DEF Enter, At, Go, Uploads
      <4>2. up'[s] = << >>
        <5>1. \A m : Tail(<<m>>) = << >>
          OBVIOUS
        <5> QED BY <3>0, <4>1, <5>1 DEF TaskOk
      <4>3. << >> \in Seq(Commands)
        OBVIOUS
      <4> QED BY <3>0, <4>1, <4>2, <4>3 DEF TaskOk, Listed, Pumped
    <3>2. CASE TakeSnapshot(s)
      BY <1>t, <3>0, <3>2 DEF TakeSnapshot, At, Go, TaskOk, Listed, Pumped
    <3>3. CASE QueueSnapshot(s)
      BY <1>t, <3>0, <3>3 DEF QueueSnapshot, At, Go, TaskOk, Listed, Pumped
    <3>4. CASE Look(s)
      BY <1>t, <3>0, <3>4 DEF Look, At, Go, TaskOk, Listed, Pumped, serverVars
    <3>5. CASE ReceiveCommand(s)
      <4>1. /\ pc[s] = "select" /\ up[s] # << >> /\ up'[s] = Tail(up[s])
            /\ clients' = clients /\ down' = down /\ s \in Tasks
        BY <1>t, <3>5 DEF ReceiveCommand, At, Uploads
      <4>2. up'[s] \in Seq(Commands)
        <5>1. up[s] \in Seq(Commands)
          BY <3>0, <4>1 DEF TaskOk, Listed, Pumped
        <5> QED BY <4>1, <5>1, TailContents
      <4>3. \/ pc'[s] = "look" /\ job' = job
            \/ pc'[s] = "tell" /\ job'[s].op # {}
        <5>1. CASE Refused(Head(up[s]).key, Head(up[s]).put)
          BY <1>t, <3>5, <5>1 DEF ReceiveCommand, Go
        <5>2. CASE ~ Refused(Head(up[s]).key, Head(up[s]).put)
          <6>1. /\ pc' = [pc EXCEPT ![s] = "tell"]
                /\ \E op : job' = [job EXCEPT ![s] = [op |-> {op}, listed |-> FALSE, to |-> {}]]
            BY <3>5, <5>2 DEF ReceiveCommand, Go
          <6> QED BY <1>t, <4>1, <6>1
        <5> QED BY <5>1, <5>2
      <4> QED BY <3>0, <4>1, <4>2, <4>3 DEF TaskOk, Listed, Pumped
    <3>6. CASE SendNext(s)
      <4>1. /\ pc[s] = "select" /\ pc'[s] \in {"look", "closing"} /\ up' = up
            /\ clients' = clients /\ job' = job
        BY <1>t, <3>6 DEF SendNext, At, Go, serverVars
      <4> QED BY <3>0, <4>1 DEF TaskOk, Listed, Pumped
    <3>7. CASE Goodbye(s) \/ Woken(s) \/ Gone(s)
      <4>1. /\ pc[s] = "select" /\ pc'[s] \in {"look", "closing"} /\ up' = up
            /\ clients' = clients /\ job' = job
        BY <1>t, <3>7 DEF Goodbye, Woken, Gone, At, Go, serverVars
      <4> QED BY <3>0, <4>1 DEF TaskOk, Listed, Pumped
    <3>8. CASE HandshakeLost(s)
      BY <1>t, <3>0, <3>8 DEF HandshakeLost, At, Go, TaskOk, Listed, Pumped, serverVars
    <3>9. CASE Leave(s)
      BY <1>t, <3>0, <3>9 DEF Leave, At, Go, TaskOk, Listed, Pumped
    <3> QED BY <1>3, <3>1, <3>2, <3>3, <3>4, <3>5, <3>6, <3>7, <3>8, <3>9 DEF Serve
  <2> QED BY <1>1, <2>1, <2>2
<1>4. ASSUME NEW s \in Conns, Cut(s) \/ Picture(s) \/ TellShutdown(s) PROVE TaskInv'
  <2>1. CASE Cut(s)
    <3>1. \A r \in Conns : down'[r] = down[r] \/ down'[r] = << >>
      BY <1>t, <2>1, ClosedDoes DEF Cut
    <3> QED BY <1>1, <1>2, <2>1, <3>1 DEF Cut, serverVars
  <2>2. CASE Picture(s) \/ TellShutdown(s)
    BY <1>1, <1>2, <2>2 DEF Picture, TellShutdown, serverVars
  <2> QED BY <1>4, <2>1, <2>2
<1>5. ASSUME NEW t \in Tasks, Broadcast(t) PROVE TaskInv'
  <2>1. CASE List(t) \/ \E s \in Conns : Tell(t, s)
    <3>1. \A r \in Conns : job'[r].op = job[r].op
      BY <1>t, <2>1, JobDoes
    <3> QED BY <1>1, <1>2, <2>1, <3>1 DEF List, Tell
  <2>2. CASE Told(t)
    <3>1. UNCHANGED <<clients, up, down>> /\ job' = [job EXCEPT ![t] = NoJob]
      BY <2>2 DEF Told
    <3>2. \A r \in Conns \ {t} : pc'[r] = pc[r] /\ job'[r] = job[r]
      BY <1>t, <2>2, <3>1 DEF Told, Go
    <3>3. \A r \in Conns \ {t} : TaskOk(r)'
      BY <1>2, <3>1, <3>2
    <3>4. ASSUME t \in Conns PROVE TaskOk(t)'
      <4>1. pc'[t] = "look" /\ job[t].op # {} /\ job'[t].op = {}
        BY <1>t, <2>2, <3>1, <3>4, Constants DEF Told, Go, NoJob
      <4> QED BY <1>0, <3>1, <3>4, <4>1 DEF TaskOk, Listed, Pumped
    <3> QED BY <1>1, <3>3, <3>4
  <2> QED BY <1>5, <2>1, <2>2 DEF Broadcast
<1>6. ASSUME NEW c \in Clients, Timers(c) \/ OnMessage(c) \/ Start(c) \/ Stop(c)
      PROVE  TaskInv'
  <2>0. /\ ui[c].socket \in Conns \cup {NoConn} /\ Socket(ui[c]) \in SUBSET Conns
    BY <1>t, UiMembers DEF Socket
  <2>1. ASSUME NEW u, Connect(c, u), UNCHANGED <<serverVars, up, down>> PROVE TaskInv'
    <3>1. PICK s \in Conns : pc' = [pc EXCEPT ![s] = "opening"] /\ pc[s] = "none"
      BY <2>1 DEF Connect, Fresh
    <3>2. \A r \in Conns \ {s} : TaskOk(r)'
      BY <1>t, <1>2, <2>1, <3>1 DEF serverVars
    <3>3. TaskOk(s)'
      BY <1>t, <1>0, <2>1, <3>1 DEF serverVars, TaskOk, Listed, Pumped
    <3> QED BY <1>1, <3>2, <3>3
  <2>2. CASE OnOpen(c)
    <3>0. ui[c].socket \in Conns /\ pc[ui[c].socket] = "opening"
      BY <1>t, <2>0, <2>2, Constants DEF OnOpen, SocketInv, NoConn
    <3>1. PICK s \in Conns : s = ui[c].socket /\ pc[s] = "opening"
      BY <3>0
    <3>2. /\ pc'[s] = "handshake" /\ up'[s] = <<Hello>> /\ UNCHANGED <<serverVars, down>>
          /\ \A r \in Conns \ {s} : pc'[r] = pc[r] /\ up'[r] = up[r]
      BY <1>t, <2>2, <3>1 DEF OnOpen, Uploads
    <3>3. \A r \in Conns \ {s} : TaskOk(r)'
      BY <1>2, <3>2 DEF serverVars
    <3>4. TaskOk(s)'
      BY <1>0, <3>1, <3>2 DEF serverVars, TaskOk, Listed, Pumped
    <3> QED BY <1>1, <3>3, <3>4
  <2>3. ASSUME Closed(Socket(ui[c])), UNCHANGED <<serverVars, pc, up>> PROVE TaskInv'
    <3>1. \A r \in Conns : down'[r] = down[r] \/ down'[r] = << >>
      BY <1>t, <2>0, <2>3, ClosedDoes
    <3> QED BY <1>1, <1>2, <2>3, <3>1 DEF serverVars
  <2>4. CASE OnMessage(c)
    <3>1. UNCHANGED <<serverVars, pc, up>>
      BY <2>4 DEF OnMessage
    <3>2. \A r \in Conns : down'[r] = down[r] \/ down'[r] = << >> \/ down[r] # << >>
      <4> DEFINE s == ui[c].socket
      <4>1. s \in Conns /\ down[s] # << >>
        BY <2>0, <2>4 DEF OnMessage
      <4>2. Closed({s}) \/ down' = [down EXCEPT ![s] = Tail(@)]
        BY <2>4 DEF OnMessage
      <4>3. CASE Closed({s})
        BY <1>t, <4>1, <4>3, ClosedDoes
      <4>4. CASE down' = [down EXCEPT ![s] = Tail(@)]
        BY <1>t, <4>1, <4>4
      <4> QED BY <4>2, <4>3, <4>4
    <3>3. \A r \in Conns : TaskOk(r)'
      BY <1>0, <3>1, <3>2 DEF TaskOk, serverVars
    <3> QED BY <1>1, <3>3
  <2> QED BY <1>6, <2>1, <2>2, <2>3, <2>4 DEF Timers, Start, Stop, Retry, OnClose
<1>7. ASSUME NEW k \in Keys, NEW put \in BOOLEAN, DaemonEdit(k, put) PROVE TaskInv'
  <2>1. \A r \in Conns : job'[r] = job[r]
    BY <1>t, <1>7, Constants DEF DaemonEdit
  <2> QED BY <1>1, <1>2, <1>7, <2>1 DEF DaemonEdit
<1>8. ASSUME NEW k \in Keys, NEW put \in BOOLEAN, NEW c \in Clients, Send(c, k, put)
      PROVE  TaskInv'
  <2> DEFINE m == Command(k, put)
  <2>0. /\ ui[c].socket \in Conns \cup {NoConn} /\ ui[c].phase = "ready"
        /\ pc[ui[c].socket] # "ended"
    BY <1>t, <1>8, UiMembers DEF Send
  <2>1. PICK s \in Conns : s = ui[c].socket /\ pc[s] \in Pumped
    BY <1>t, <2>0 DEF SocketInv
  <2>2. /\ up' = [up EXCEPT ![s] = Append(@, m)]
        /\ UNCHANGED <<serverVars, pc, down>>
    BY <1>8, <2>1 DEF Send
  <2>3. up'[s] \in Seq(Commands)
    <3>1. m \in Commands /\ up[s] \in Seq(Commands)
      BY <1>0, <2>1 DEF Command, Commands, TaskOk, Listed
    <3>2. up'[s] = Append(up[s], m)
      BY <1>t, <2>1, <2>2 DEF Uploads
    <3> QED BY <3>1, <3>2, AppendContents
  <2>4. \A r \in Conns \ {s} : TaskOk(r)'
    BY <1>t, <1>2, <2>2 DEF Uploads, serverVars
  <2>5. TaskOk(s)'
    BY <1>0, <2>1, <2>2, <2>3 DEF TaskOk, Listed, Pumped, serverVars
  <2> QED BY <1>1, <2>4, <2>5
<1>9. CASE Shutdown
  BY <1>1, <1>2, <1>9 DEF Shutdown
<1>10. CASE Exit
  <2>1. ASSUME NEW s \in Conns PROVE TaskOk(s)'
    <3>1. /\ pc'[s] = IF pc[s] \in {"none", "opening"} THEN pc[s] ELSE "ended"
          /\ clients' = {} /\ job'[s].op = {} /\ down' = down
      BY <1>t, <1>10 DEF Exit, NoJob
    <3> QED BY <1>0, <3>1 DEF TaskOk, Listed, Pumped
  <2> QED BY <1>1, <2>1
<1>11. CASE UNCHANGED vars
  BY <1>1, <1>2, <1>11 DEF vars
<1> QED BY <1>3, <1>4, <1>5, <1>6, <1>7, <1>8, <1>9, <1>10, <1>11 DEF Next

\* What a step of the daemon's side does to the place of a task: it neither
\* appears nor goes back.
Onward(s) ==
    \/ pc'[s] = pc[s]
    \/ /\ pc[s] \notin {"none", "opening"} /\ pc'[s] \notin {"none", "opening"}
       /\ pc[s] \in Pumped \cup {"ended"} => pc'[s] \in Pumped \cup {"ended"}

\* The steps that are not a client's own.
DaemonSide ==
    \/ \E s \in Conns : Serve(s) \/ Cut(s) \/ Picture(s) \/ TellShutdown(s)
    \/ \E t \in Tasks : Broadcast(t)
    \/ \E k \in Keys, put \in BOOLEAN :
          DaemonEdit(k, put) \/ \E c \in Clients : Send(c, k, put)
    \/ Shutdown \/ Exit

LEMMA DaemonOnward ==
    ASSUME TypeInv, TaskInv, DaemonSide
    PROVE  ui' = ui /\ left \subseteq left' /\ \A s \in Conns : Onward(s)
<1>1. pc \in [Conns -> Labels]
  BY DEF TypeInv, LinkTyped
<1>2. ASSUME NEW s \in Conns, Serve(s)
      PROVE  ui' = ui /\ left' = left /\ \A r \in Conns : Onward(r)
  <2>1. ui' = ui /\ left' = left
    BY <1>2 DEF Serve, Enter, TakeSnapshot, QueueSnapshot, Look, ReceiveCommand, SendNext,
                Goodbye, Woken, Gone, HandshakeLost, Leave
  <2>2. /\ pc[s] \notin {"none", "opening", "ended"}
        /\ \E l \in Labels : /\ pc' = [pc EXCEPT ![s] = l] /\ l \notin {"none", "opening"}
                             /\ pc[s] \in Pumped => l \in Pumped \cup {"ended"}
    <3>1. CASE Enter(s) \/ TakeSnapshot(s) \/ QueueSnapshot(s) \/ Look(s)
      BY <3>1 DEF Enter, TakeSnapshot, QueueSnapshot, Look, At, Go, Labels, Pumped
    <3>2. CASE ReceiveCommand(s)
      <4>1. pc[s] = "select" /\ \E l \in {"look", "tell"} : pc' = [pc EXCEPT ![s] = l]
        BY <3>2 DEF ReceiveCommand, At, Go
      <4> QED BY <4>1 DEF Labels, Pumped
    <3>3. CASE SendNext(s) \/ Goodbye(s) \/ Woken(s) \/ Gone(s)
      <4>1. pc[s] = "select" /\ \E l \in {"look", "closing"} : pc' = [pc EXCEPT ![s] = l]
        BY <3>3 DEF SendNext, Goodbye, Woken, Gone, At, Go
      <4> QED BY <4>1 DEF Labels, Pumped
    <3>4. CASE HandshakeLost(s) \/ Leave(s)
      BY <3>4 DEF HandshakeLost, Leave, At, Go, Labels, Pumped
    <3> QED BY <1>2, <3>1, <3>2, <3>3, <3>4 DEF Serve
  <2> QED BY <1>1, <2>1, <2>2 DEF Onward
<1>3. ASSUME NEW s \in Conns, Cut(s) \/ Picture(s) \/ TellShutdown(s)
      PROVE  ui' = ui /\ left \subseteq left' /\ \A r \in Conns : Onward(r)
  BY <1>3 DEF Cut, Picture, TellShutdown, Closed, Onward
<1>4. ASSUME NEW t \in Tasks, Broadcast(t)
      PROVE  ui' = ui /\ left \subseteq left' /\ \A r \in Conns : Onward(r)
  <2>1. CASE List(t) \/ \E s \in Conns : Tell(t, s)
    BY <2>1 DEF List, Tell, Onward
  <2>2. CASE Told(t)
    <3>1. ui' = ui /\ left' = left
      BY <2>2 DEF Told
    <3>2. CASE t = Daemon
      BY <2>2, <3>1, <3>2 DEF Told, Onward
    <3>3. CASE t # Daemon
      <4>1. pc' = [pc EXCEPT ![t] = "look"] /\ t \in Conns /\ pc[t] = "tell"
        BY <2>2, <3>3, Constants DEF Told, Go, TaskInv
      <4> QED BY <1>1, <3>1, <4>1 DEF Onward, Pumped
    <3> QED BY <3>2, <3>3
  <2> QED BY <1>4, <2>1, <2>2 DEF Broadcast
<1>5. ASSUME NEW k \in Keys, NEW put \in BOOLEAN,
             DaemonEdit(k, put) \/ \E c \in Clients : Send(c, k, put)
      PROVE  ui' = ui /\ left \subseteq left' /\ \A r \in Conns : Onward(r)
  BY <1>5 DEF DaemonEdit, Send, Onward
<1>6. CASE Shutdown \/ Exit
  BY <1>6 DEF Shutdown, Exit, Onward
<1> QED BY <1>2, <1>3, <1>4, <1>5, <1>6 DEF DaemonSide

-----------------------------------------------------------------------------
(* What a client's step does                                               *)

Opens(c) ==
    \E s \in Conns :
        /\ pc[s] = "none" /\ pc' = [pc EXCEPT ![s] = "opening"]
        /\ ui[c].socket = NoConn /\ ui'[c].socket = s /\ ui'[c].phase = "opening"
        /\ ui'[c].running /\ ~ ui'[c].retry
        /\ UNCHANGED <<up, down, left>>
Says(c) ==
    \E s \in Conns \ left :
        /\ s = ui[c].socket /\ ui[c].phase = "opening" /\ pc[s] = "opening"
        /\ pc' = [pc EXCEPT ![s] = "handshake"] /\ up' = [up EXCEPT ![s] = <<Hello>>]
        /\ ui'[c].phase = "waiting-for-snapshot" /\ ui'[c].socket = s
        /\ ui'[c].running = ui[c].running /\ ui'[c].retry = ui[c].retry
        /\ UNCHANGED <<down, left>>
Hears(c) ==
    \E s \in Conns \ left : LET m == Head(down[s]) IN
        /\ s = ui[c].socket /\ down[s] # << >> /\ m \in Sent
        /\ down' = [down EXCEPT ![s] = Tail(down[s])]
        /\ ui'[c].socket = s /\ ui'[c].running = ui[c].running /\ ui'[c].retry = ui[c].retry
        /\ \/ /\ ui[c].phase = "waiting-for-snapshot" /\ ui'[c].phase = "ready"
              /\ m.t = "Snapshot" /\ ui'[c].base = m.ver /\ ui'[c].heard = {}
           \/ /\ ui[c].phase # "waiting-for-snapshot" /\ ui'[c].phase = ui[c].phase
              /\ m.t # "Snapshot" /\ ui'[c].base = ui[c].base
              /\ m.t = "Delta" => ui'[c].heard = ui[c].heard \cup {m.op.ver}
              /\ m.t # "Delta" => ui'[c].heard = ui[c].heard
        /\ UNCHANGED <<pc, up, left>>
Drops(c) ==
    /\ ui'[c].socket = NoConn /\ ui'[c].phase = "idle" /\ ui'[c].retry = ui'[c].running
    /\ left' = left \cup Socket(ui[c])
    /\ \A s \in Conns : down'[s] = IF s = ui[c].socket THEN << >> ELSE down[s]
    /\ UNCHANGED <<pc, up>>

ClientDid(c) ==
    /\ UNCHANGED <<serverVars, outbound>>
    /\ \A d \in Clients \ {c} : ui'[d] = ui[d]
    /\ Opens(c) \/ Says(c) \/ Hears(c) \/ Drops(c)

LEMMA ClientDoes ==
    ASSUME WireInv, NEW c \in Clients, Timers(c) \/ OnMessage(c) \/ Start(c) \/ Stop(c)
    PROVE  ClientDid(c)
<1>1. /\ ui \in [Clients -> Interfaces] /\ ui[c] \in Interfaces /\ LinkTyped
      /\ left \subseteq Conns /\ TypeInv /\ SocketInv /\ pc \in [Conns -> Labels]
  BY DEF WireInv, TypeInv, UiTyped, DeskTyped, LinkTyped
<1>2. ui[c].socket \in Conns \cup {NoConn} /\ Socket(ui[c]) \in SUBSET Conns
      /\ ui[c].running \in BOOLEAN /\ ui[c].retry \in BOOLEAN
  BY <1>1 DEF Socket, Interfaces
<1>3. ASSUME NEW u \in Interfaces, Connect(c, u), u.running, ~ u.retry,
             ui[c].socket = NoConn,
             UNCHANGED <<serverVars, outbound, wake, look, up, down, left>>
      PROVE  ClientDid(c)
  <2>1. PICK s \in Conns :
          /\ pc[s] = "none" /\ pc' = [pc EXCEPT ![s] = "opening"]
          /\ ui' = [ui EXCEPT ![c] = [u EXCEPT !.socket = s, !.phase = "opening"]]
    BY <1>3 DEF Connect, Fresh
  <2> DEFINE v == [u EXCEPT !.socket = s, !.phase = "opening"]
  <2>2. v.socket = s /\ v.phase = "opening" /\ v.running = u.running /\ v.retry = u.retry
    BY DEF Interfaces
  <2>3. ui' = [ui EXCEPT ![c] = v]
    BY <2>1
  <2> HIDE DEF v
  <2>4. ui'[c] = v /\ \A d \in Clients \ {c} : ui'[d] = ui[d]
    BY <1>1, <2>3
  <2>5. Opens(c)
    BY <1>3, <2>1, <2>2, <2>4 DEF Opens
  <2> QED BY <1>3, <2>4, <2>5 DEF ClientDid
<1>4. CASE Start(c)
  <2>1. [ui[c] EXCEPT !.running = TRUE] \in Interfaces
        /\ [ui[c] EXCEPT !.running = TRUE].running
        /\ [ui[c] EXCEPT !.running = TRUE].retry = ui[c].retry
    BY <1>1 DEF Interfaces
  <2>2. ui[c].socket = NoConn /\ ~ ui[c].retry
    BY <1>1, <1>4 DEF Start, SocketInv
  <2> QED BY <1>3, <1>4, <2>1, <2>2 DEF Start
<1>5. CASE Retry(c)
  <2>1. [ui[c] EXCEPT !.retry = FALSE] \in Interfaces
        /\ ~ [ui[c] EXCEPT !.retry = FALSE].retry
        /\ [ui[c] EXCEPT !.retry = FALSE].running = ui[c].running
    BY <1>1 DEF Interfaces
  <2>2. ui[c].socket = NoConn /\ ui[c].running
    BY <1>1, <1>5 DEF Retry, SocketInv
  <2> QED BY <1>3, <1>5, <2>1, <2>2 DEF Retry
<1>6. ASSUME NEW u \in Interfaces, ui' = [ui EXCEPT ![c] = u], Closed(Socket(ui[c])),
             u.socket = NoConn, u.phase = "idle", u.retry = u.running,
             UNCHANGED <<serverVars, pc, outbound, up>>
      PROVE  ClientDid(c)
  <2>1. ui'[c] = u /\ \A d \in Clients \ {c} : ui'[d] = ui[d]
    BY <1>1, <1>6
  <2>2. /\ left' = left \cup Socket(ui[c])
        /\ \A s \in Conns : down'[s] = IF s = ui[c].socket THEN << >> ELSE down[s]
    BY <1>1, <1>2, <1>6, ClosedDoes, Constants DEF Socket
  <2>3. Drops(c)
    BY <1>6, <2>1, <2>2 DEF Drops
  <2> QED BY <1>6, <2>1, <2>3 DEF ClientDid
<1>7. CASE Stop(c)
  <2> DEFINE w == Dropped(ui[c])
             u == [w EXCEPT !.running = FALSE, !.retry = FALSE]
  <2>1. w \in Interfaces /\ w.socket = NoConn /\ w.phase = "idle"
    BY <1>1, InterfacesTyped
  <2> HIDE DEF w
  <2>2. u \in Interfaces /\ u.socket = NoConn /\ u.phase = "idle" /\ u.retry = u.running
    BY <2>1 DEF Interfaces
  <2>3. ui' = [ui EXCEPT ![c] = u]
    BY <1>1, <1>7 DEF Stop, w
  <2> HIDE DEF u
  <2> QED BY <1>6, <1>7, <2>2, <2>3 DEF Stop
<1>8. CASE OnClose(c)
  <2> DEFINE u == Scheduled(Dropped(ui[c]))
  <2>1. u \in Interfaces /\ u.socket = NoConn /\ u.phase = "idle" /\ u.retry = u.running
    BY <1>1, InterfacesTyped
  <2>2. ui' = [ui EXCEPT ![c] = u]
    BY <1>8 DEF OnClose
  <2> HIDE DEF u
  <2> QED BY <1>6, <1>8, <2>1, <2>2 DEF OnClose
<1>9. CASE OnOpen(c)
  <2>1. ui[c].socket # NoConn /\ pc[ui[c].socket] = "opening" /\ ui[c].phase = "opening"
    BY <1>1, <1>9 DEF OnOpen, SocketInv
  <2>2. PICK s \in Conns \ left : s = ui[c].socket
    BY <1>2, <1>9, <2>1 DEF OnOpen
  <2> DEFINE u == [ui[c] EXCEPT !.phase = "waiting-for-snapshot"]
  <2>3. /\ u.phase = "waiting-for-snapshot" /\ u.socket = s /\ u.running = ui[c].running
        /\ u.retry = ui[c].retry
    BY <1>1, <2>2 DEF Interfaces
  <2>4. ui' = [ui EXCEPT ![c] = u]
    BY <1>1, <1>9 DEF OnOpen
  <2> HIDE DEF u
  <2>5. ui'[c] = u /\ \A d \in Clients \ {c} : ui'[d] = ui[d]
    BY <1>1, <2>4
  <2>6. /\ up' = [up EXCEPT ![s] = <<Hello>>] /\ pc' = [pc EXCEPT ![s] = "handshake"]
        /\ UNCHANGED <<serverVars, outbound, down, left>>
    BY <1>9, <2>2 DEF OnOpen
  <2>7. Says(c)
    BY <2>1, <2>2, <2>3, <2>5, <2>6 DEF Says
  <2> QED BY <2>5, <2>6, <2>7 DEF ClientDid
<1>10. CASE OnMessage(c)
  <2> DEFINE u == IF ui[c].phase = "waiting-for-snapshot"
                  THEN AfterAnswer(ui[c], Head(down[ui[c].socket]))
                  ELSE AfterMessage(ui[c], Head(down[ui[c].socket]))
  <2>1. PICK s \in Conns \ left : s = ui[c].socket /\ down[s] # << >>
    BY <1>2, <1>10 DEF OnMessage
  <2>2. PICK m \in Sent : m = Head(down[s])
    <3>1. down[s] \in Seq(Sent)
      BY <1>1 DEF LinkTyped
    <3> QED BY <2>1, <3>1, TailContents
  <2>3. Landed(ui[c], u, m) /\ u \in Interfaces
    BY <1>1, <2>1, <2>2, MessageLands
  <2>4. /\ ui' = [ui EXCEPT ![c] = u] /\ UNCHANGED <<serverVars, pc, outbound, up>>
        /\ u.socket = NoConn => Closed({s})
        /\ u.socket # NoConn => down' = [down EXCEPT ![s] = Tail(down[s])] /\ UNCHANGED left
    BY <1>1, <1>10, <2>1 DEF OnMessage, LinkTyped
  <2> HIDE DEF u
  <2>5. CASE u = Scheduled(Dropped(ui[c]))
    <3>1. u.socket = NoConn /\ u.phase = "idle" /\ u.retry = u.running
      BY <1>1, <2>5, InterfacesTyped
    <3>2. Socket(ui[c]) = {s}
      BY <2>1, Constants DEF Socket
    <3> QED BY <1>6, <2>3, <2>4, <3>1, <3>2
  <2>6. ASSUME u # Scheduled(Dropped(ui[c])) PROVE ClientDid(c)
    <3>1. /\ u.socket = s /\ u.running = ui[c].running /\ u.retry = ui[c].retry
          /\ \/ /\ ui[c].phase = "waiting-for-snapshot" /\ u.phase = "ready"
                /\ m.t = "Snapshot" /\ u.base = m.ver /\ u.heard = {}
             \/ /\ ui[c].phase # "waiting-for-snapshot" /\ u.phase = ui[c].phase
                /\ m.t # "Snapshot" /\ u.base = ui[c].base
                /\ m.t = "Delta" => u.heard = ui[c].heard \cup {m.op.ver}
                /\ m.t # "Delta" => u.heard = ui[c].heard
      BY <1>1, <2>1, <2>3, <2>6 DEF Landed, Interfaces
    <3>2. ui'[c] = u /\ \A d \in Clients \ {c} : ui'[d] = ui[d]
      BY <1>1, <2>4
    <3>3. u.socket # NoConn
      BY <3>1, Constants
    <3>4. Hears(c)
      BY <2>1, <2>2, <2>4, <3>1, <3>2, <3>3 DEF Hears
    <3> QED BY <2>4, <3>2, <3>4 DEF ClientDid
  <2> QED BY <2>5, <2>6
<1> QED BY <1>4, <1>5, <1>7, <1>8, <1>9, <1>10 DEF Timers

LEMMA TypeStep ==
    ASSUME WireInv, [Next]_vars
    PROVE  TypeInv'
<1>1. TypeInv /\ TaskInv
  BY DEF WireInv
<1>2. CASE UNCHANGED vars
  BY <1>1, <1>2 DEF vars, TypeInv, DeskTyped, LinkTyped, OutTyped, UiTyped
<1> QED BY <1>1, <1>2, TypeClient, TypeServe, TypeTell, TypeDaemon DEF Next

\* The part of a client's invariant that speaks of one client.
SocketOk(c) ==
    LET u == ui[c] IN
    /\ ~ u.running => u.socket = NoConn /\ ~ u.retry
    /\ u.running => (u.socket = NoConn <=> u.retry)
    /\ u.phase = "idle" <=> u.socket = NoConn
    /\ u.phase = "opening" => pc[u.socket] = "opening"
    /\ u.phase = "waiting-for-snapshot" => pc[u.socket] \notin {"none", "opening"}
    /\ u.phase = "ready" => pc[u.socket] \in Pumped \cup {"ended"}
OneEach == \A c, d \in Clients : ui[c].socket = ui[d].socket /\ ui[c].socket # NoConn => c = d
HeardOf(s) == pc[s] # "none" /\ s \notin left => \E c \in Clients : ui[c].socket = s

LEMMA SocketStep ==
    ASSUME WireInv, [Next]_vars
    PROVE  SocketInv'
<1>1. /\ TypeInv /\ TaskInv /\ OneEach /\ pc \in [Conns -> Labels] /\ NoConn \notin Conns
      /\ \A c \in Clients : SocketOk(c)
      /\ \A s \in Conns : HeardOf(s)
  BY Constants DEF WireInv, SocketInv, TypeInv, LinkTyped, SocketOk, OneEach, HeardOf
<1>2. (\A c \in Clients : SocketOk(c)') /\ OneEach' /\ (\A s \in Conns : HeardOf(s)')
        => SocketInv'
  BY DEF SocketInv, SocketOk, OneEach, HeardOf
<1>3. \A c \in Clients : ui[c].socket \in Conns \cup {NoConn} /\ ui[c].phase \in Phases
                           /\ ui[c].running \in BOOLEAN
                           /\ (ui[c].phase # "idle" => ui[c].socket \in Conns)
  BY <1>1, UiMembers DEF SocketOk
<1>4. ASSUME ui' = ui, left \subseteq left', \A s \in Conns : Onward(s)
      PROVE  SocketInv'
  <2>1. ASSUME NEW c \in Clients PROVE SocketOk(c)'
    <3>1. CASE ui[c].phase = "idle"
      BY <1>1, <1>4, <3>1 DEF SocketOk
    <3>2. CASE ui[c].phase # "idle"
      <4>1. Onward(ui[c].socket) /\ SocketOk(c)
        BY <1>1, <1>3, <1>4, <3>2
      <4> QED BY <1>4, <4>1 DEF SocketOk, Onward
    <3> QED BY <3>1, <3>2
  <2>2. OneEach'
    BY <1>1, <1>4 DEF OneEach
  <2>3. ASSUME NEW s \in Conns PROVE HeardOf(s)'
    <3>1. pc'[s] # "none" => pc[s] # "none"
      BY <1>4 DEF Onward
    <3> QED BY <1>1, <1>4, <3>1 DEF HeardOf
  <2> QED BY <1>2, <2>1, <2>2, <2>3
<1>5. ASSUME NEW c \in Clients, Timers(c) \/ OnMessage(c) \/ Start(c) \/ Stop(c)
      PROVE  SocketInv'
  <2>1. ClientDid(c)
    BY <1>5, ClientDoes
  <2>2. \A d \in Clients \ {c} : ui'[d] = ui[d]
    BY <2>1 DEF ClientDid
  <2>3. CASE Opens(c)
    <3>1. PICK s \in Conns :
            /\ pc[s] = "none" /\ pc' = [pc EXCEPT ![s] = "opening"] /\ ui[c].socket = NoConn
            /\ ui'[c].socket = s /\ ui'[c].phase = "opening" /\ ui'[c].running
            /\ ~ ui'[c].retry /\ left' = left
      BY <2>3 DEF Opens
    <3>2. pc'[s] = "opening" /\ \A r \in Conns \ {s} : pc'[r] = pc[r]
      BY <1>1, <3>1
    <3>3. \A d \in Clients : ui[d].socket # s
      BY <1>1, <1>3, <3>1 DEF SocketOk, Phases, Pumped
    <3>4. SocketOk(c)'
      BY <1>1, <3>1, <3>2 DEF SocketOk
    <3>5. ASSUME NEW d \in Clients \ {c} PROVE SocketOk(d)'
      <4>1. CASE ui[d].phase = "idle"
        BY <1>1, <2>2, <4>1 DEF SocketOk
      <4>2. CASE ui[d].phase # "idle"
        <5>1. pc'[ui[d].socket] = pc[ui[d].socket] /\ SocketOk(d) /\ ui'[d] = ui[d]
          BY <1>1, <1>3, <2>2, <3>2, <3>3, <4>2
        <5> QED BY <5>1 DEF SocketOk
      <4> QED BY <4>1, <4>2
    <3>6. OneEach'
      BY <1>1, <2>2, <3>1, <3>3 DEF OneEach
    <3>7. ASSUME NEW r \in Conns PROVE HeardOf(r)'
      <4>1. CASE r = s
        BY <3>1, <4>1 DEF HeardOf
      <4>2. CASE r # s
        <5>1. \A d \in Clients : ui[d].socket = r => ui'[d].socket = r
          BY <1>1, <2>2, <3>1
        <5> QED BY <1>1, <3>1, <3>2, <4>2, <5>1 DEF HeardOf
      <4> QED BY <4>1, <4>2
    <3> QED BY <1>2, <3>4, <3>5, <3>6, <3>7
  <2>4. ASSUME NEW s \in Conns, s = ui[c].socket, ui'[c].socket = s, left' = left,
               ui'[c].running = ui[c].running, ui'[c].retry = ui[c].retry,
               \A r \in Conns \ {s} : pc'[r] = pc[r], pc[s] # "none",
               \/ ui'[c].phase = "waiting-for-snapshot" /\ pc'[s] = "handshake"
               \/ ui'[c].phase = "ready" /\ pc'[s] \in Pumped \cup {"ended"}
               \/ ui'[c].phase = ui[c].phase /\ pc'[s] = pc[s]
        PROVE  SocketInv'
    <3>1. SocketOk(c)'
      <4>1. SocketOk(c)
        BY <1>1
      <4> QED BY <1>1, <2>4, <4>1 DEF SocketOk, Pumped
    <3>2. ASSUME NEW d \in Clients \ {c} PROVE SocketOk(d)'
      <4>1. CASE ui[d].phase = "idle"
        BY <1>1, <2>2, <4>1 DEF SocketOk
      <4>2. CASE ui[d].phase # "idle"
        <5>1. pc'[ui[d].socket] = pc[ui[d].socket] /\ SocketOk(d) /\ ui'[d] = ui[d]
          BY <1>1, <1>3, <2>2, <2>4, <4>2 DEF OneEach
        <5> QED BY <5>1 DEF SocketOk
      <4> QED BY <4>1, <4>2
    <3>3. \A d \in Clients : ui'[d].socket = ui[d].socket
      BY <2>2, <2>4
    <3>4. OneEach'
      BY <1>1, <3>3 DEF OneEach
    <3>5. \A r \in Conns : HeardOf(r)'
      BY <1>1, <2>4, <3>3 DEF HeardOf
    <3> QED BY <1>2, <3>1, <3>2, <3>4, <3>5
  <2>5. CASE Says(c)
    <3>1. PICK s \in Conns \ left :
            /\ s = ui[c].socket /\ pc[s] = "opening" /\ pc' = [pc EXCEPT ![s] = "handshake"]
            /\ ui'[c].phase = "waiting-for-snapshot" /\ ui'[c].socket = s /\ left' = left
            /\ ui'[c].running = ui[c].running /\ ui'[c].retry = ui[c].retry
      BY <2>5 DEF Says
    <3> QED BY <1>1, <2>4, <3>1
  <2>6. CASE Hears(c)
    <3>1. PICK s \in Conns \ left :
            /\ s = ui[c].socket /\ down[s] # << >> /\ pc' = pc /\ left' = left
            /\ ui'[c].socket = s /\ ui'[c].running = ui[c].running
            /\ ui'[c].retry = ui[c].retry
            /\ ui'[c].phase = "ready" \/ ui'[c].phase = ui[c].phase
      BY <2>6 DEF Hears
    <3>2. pc[s] \in Pumped \cup {"ended"} /\ pc[s] # "none"
      BY <1>1, <3>1 DEF TaskInv, Pumped
    <3> QED BY <2>4, <3>1, <3>2
  <2>7. CASE Drops(c)
    <3>1. /\ ui'[c].socket = NoConn /\ ui'[c].phase = "idle" /\ ui'[c].retry = ui'[c].running
          /\ left' = left \cup Socket(ui[c]) /\ pc' = pc
      BY <2>7 DEF Drops
    <3>2. SocketOk(c)'
      BY <3>1 DEF SocketOk
    <3>3. \A d \in Clients \ {c} : SocketOk(d)'
      BY <1>1, <2>2, <3>1 DEF SocketOk
    <3>4. OneEach'
      BY <1>1, <2>2, <3>1 DEF OneEach
    <3>5. ASSUME NEW r \in Conns PROVE HeardOf(r)'
      <4>1. r \notin left' => r \notin left /\ ui[c].socket # r
        BY <1>1, <3>1 DEF Socket
      <4> QED BY <1>1, <2>2, <3>1, <4>1 DEF HeardOf
    <3> QED BY <1>2, <3>2, <3>3, <3>4, <3>5
  <2> QED BY <2>1, <2>3, <2>5, <2>6, <2>7 DEF ClientDid
<1>6. CASE UNCHANGED vars
  BY <1>4, <1>6 DEF vars, Onward
<1> QED BY <1>1, <1>4, <1>5, <1>6, DaemonOnward DEF Next, DaemonSide

LEMMA WireStep == WireInv /\ [Next]_vars => WireInv'
  BY TypeStep, TaskStep, SocketStep DEF WireInv

-----------------------------------------------------------------------------
(* No task waits unrung, and no client is stranded                         *)

\* The pump never waits on a queue that changed since it looked without having
\* been rung (Connection::push, the select of ServerHandle::serve).
THEOREM NobodyWaitsUnrung == Spec => []NoLostRing
<1>1. Init => WireInv /\ NoLostRing
  BY TypeInit, PlacesInit, RingInit DEF WireInv
<1>2. (WireInv /\ NoLostRing) /\ [Next]_vars => (WireInv /\ NoLostRing)'
  <2> SUFFICES ASSUME WireInv, NoLostRing, [Next]_vars PROVE (WireInv /\ NoLostRing)'
    OBVIOUS
  <2>1. TypeInv
    BY DEF WireInv
  <2> QED BY <2>1, WireStep, RingStep
<1> QED BY <1>1, <1>2, PTL DEF Spec

\* A client that runs has a socket or a timer, never both, and no open socket is
\* without a client that listens to it (connection.ts #connect, #arm, #dropSocket).
THEOREM NobodyIsStranded == Spec => []NeverStranded
<1>1. Init => WireInv
  BY TypeInit, PlacesInit DEF WireInv
<1>2. WireInv => NeverStranded
  BY DEF WireInv, SocketInv, NeverStranded
<1> QED BY <1>1, <1>2, WireStep, PTL DEF Spec

-----------------------------------------------------------------------------
(* What a step of the daemon's side does to a connection                   *)

PlaceKept(s) ==
    \/ pc'[s] = pc[s] /\ taken'[s] = taken[s]
    \/ pc[s] = "handshake" /\ pc'[s] = "entered"
    \/ pc[s] = "entered" /\ pc'[s] = "snapshot" /\ taken'[s].ver = version /\ version' = version
    \/ pc[s] \in Pumped /\ pc'[s] \in Pumped \ {"tell"}
    \/ pc[s] = "select" /\ pc'[s] = "tell" /\ up[s] # << >>
Stays(s) == /\ outbound'[s].control = outbound[s].control
            /\ outbound'[s].closed = outbound[s].closed /\ down'[s] = down[s]
Takes(s, m) == Pushed(s, m) /\ down'[s] = down[s]
Sends(s) ==
    \E m \in Sent :
        /\ pc[s] = "select" /\ outbound'[s].closed = outbound[s].closed
        /\ down'[s] = Append(down[s], m)
        /\ \/ /\ outbound[s].control # << >> /\ m = Head(outbound[s].control)
              /\ outbound'[s].control = Tail(outbound[s].control)
           \/ /\ outbound[s].control = << >> /\ outbound'[s].control = << >>
              /\ m = Telemetry
Shuts(s) == /\ outbound'[s].control = <<Reject("ShuttingDown")>>
            /\ outbound'[s].closed /\ down'[s] = down[s]
Ends(s) == /\ outbound'[s].control = << >> /\ ~ outbound'[s].closed /\ down'[s] = down[s]
           /\ pc'[s] = "ended" \/ (pc'[s] \in {"none", "opening"} /\ pc'[s] = pc[s])
Plain == {m \in Sent : m.t \notin {"Ack", "Snapshot"}}

Evolves(s) ==
    \/ PlaceKept(s) /\ (Stays(s) \/ Sends(s) \/ Shuts(s) \/ \E m \in Plain : Takes(s, m))
    \/ Ends(s)
    \/ pc[s] = "snapshot" /\ pc'[s] = "look" /\ Takes(s, Snapshot(taken[s]))
    \/ /\ pc[s] = "tell" /\ pc'[s] = "look" /\ job[s].listed /\ job[s].to = {}
       /\ \E op \in job[s].op : Takes(s, Ack(op.ver))

\* Nothing that matters to a connection is touched.
Same(r) == /\ pc'[r] = pc[r] /\ taken'[r] = taken[r] /\ outbound'[r] = outbound[r]
           /\ down'[r] = down[r]

LEMMA SameEvolves == \A r \in Conns : Same(r) => Evolves(r)
  BY DEF Same, Evolves, PlaceKept, Stays

LEMMA ServeEvolves ==
    ASSUME TypeInv, NEW s \in Conns, Serve(s)
    PROVE  /\ s \notin left => Evolves(s)
           /\ \A r \in Conns \ {s} : Evolves(r)
<1>1. /\ pc \in [Conns -> Labels] /\ OutTyped /\ down \in [Conns -> Seq(Sent)]
      /\ taken \in [Conns -> [doc : Docs, ver : Versions]] /\ up \in Uploads
  BY DEF TypeInv, LinkTyped
<1>2. ASSUME NEW m \in Sent, PushTo(s, m)
      PROVE  /\ Pushed(s, m)
             /\ \A r \in Conns \ {s} : outbound'[r] = outbound[r]
  BY <1>1, <1>2, PushDoes
<1>3. CASE Enter(s) \/ TakeSnapshot(s) \/ Look(s) \/ Goodbye(s) \/ Woken(s) \/ Gone(s)
  <2>1. /\ UNCHANGED <<outbound, down>> /\ \A r \in Conns \ {s} : pc'[r] = pc[r] /\ taken'[r] = taken[r]
    BY <1>1, <1>3 DEF Enter, TakeSnapshot, Look, Goodbye, Woken, Gone, Go, serverVars
  <2>2. PlaceKept(s)
    BY <1>1, <1>3 DEF Enter, TakeSnapshot, Look, Goodbye, Woken, Gone, At, Go, serverVars,
                      PlaceKept, Pumped
  <2> QED BY <2>1, <2>2, SameEvolves DEF Evolves, Stays, Same
<1>4. CASE QueueSnapshot(s)
  <2>1. Snapshot(taken[s]) \in Sent
    BY Members DEF Snapshot, Sent, Queued
  <2>2. /\ pc[s] = "snapshot" /\ pc'[s] = "look" /\ PushTo(s, Snapshot(taken[s])) /\ down' = down
        /\ \A r \in Conns \ {s} : pc'[r] = pc[r] /\ taken'[r] = taken[r]
    BY <1>1, <1>4 DEF QueueSnapshot, At, Go
  <2> QED BY <1>2, <2>1, <2>2, SameEvolves DEF Evolves, Takes, Same
<1>5. CASE ReceiveCommand(s)
  <2>1. /\ pc[s] = "select" /\ up[s] # << >> /\ UNCHANGED <<down, taken>>
    BY <1>5 DEF ReceiveCommand, At
  <2>2. CASE Refused(Head(up[s]).key, Head(up[s]).put)
    <3>1. /\ PushTo(s, Reject("CommandRefused")) /\ pc' = [pc EXCEPT ![s] = "look"]
      BY <1>5, <2>2 DEF ReceiveCommand, Go
    <3>2. Reject("CommandRefused") \in Plain
      BY Kinds DEF Plain, Reasons
    <3>3. pc'[s] = "look" /\ \A r \in Conns \ {s} : pc'[r] = pc[r]
      BY <1>1, <3>1
    <3>4. PlaceKept(s)
      BY <2>1, <3>3 DEF PlaceKept, Pumped
    <3>5. Takes(s, Reject("CommandRefused")) /\ \A r \in Conns \ {s} : Same(r)
      BY <1>2, <2>1, <3>1, <3>2, <3>3 DEF Takes, Same, Plain
    <3> QED BY <3>2, <3>4, <3>5, SameEvolves DEF Evolves
  <2>3. CASE ~ Refused(Head(up[s]).key, Head(up[s]).put)
    <3>1. /\ pc' = [pc EXCEPT ![s] = "tell"] /\ UNCHANGED outbound
      BY <1>5, <2>3 DEF ReceiveCommand, Go
    <3>2. pc'[s] = "tell" /\ \A r \in Conns \ {s} : pc'[r] = pc[r]
      BY <1>1, <3>1
    <3> QED BY <2>1, <3>1, <3>2, SameEvolves DEF Evolves, Stays, Same, PlaceKept
  <2> QED BY <2>2, <2>3
<1>6. CASE SendNext(s)
  <2> DEFINE o == outbound[s]
             m == NextOut(o)
  <2>1. /\ pc[s] = "select" /\ taken' = taken
        /\ pc'[s] \in {"look", "closing"} /\ \A r \in Conns \ {s} : pc'[r] = pc[r]
    BY <1>1, <1>6 DEF SendNext, At, Go, serverVars
  <2>2. PlaceKept(s)
    BY <2>1 DEF PlaceKept, Pumped
  <2>3. CASE ~ Waiting(o)
    <3>1. UNCHANGED <<outbound, down>>
      BY <1>6, <2>3 DEF SendNext
    <3> QED BY <2>1, <2>2, <3>1, SameEvolves DEF Evolves, Stays, Same
  <2>4. CASE Waiting(o)
    <3>1. /\ down' = IF s \in left THEN down ELSE [down EXCEPT ![s] = Append(down[s], m)]
          /\ outbound' = [outbound EXCEPT ![s] = Rest(o)]
      BY <1>1, <1>6, <2>4 DEF SendNext, OutTyped
    <3>2. /\ s \notin left => down'[s] = Append(down[s], m)
          /\ outbound'[s] = Rest(o)
          /\ \A r \in Conns \ {s} : down'[r] = down[r] /\ outbound'[r] = outbound[r]
      BY <1>1, <3>1 DEF OutTyped
    <3>3. o \in Outbounds /\ o.control \in Seq(Queued)
      BY Members
    <3> HIDE DEF o
    <3>4. CASE o.control # << >>
      <4>1. m = Head(o.control) /\ m \in Sent
        BY <3>3, <3>4, TailContents, Kinds DEF NextOut
      <4>2. Rest(o).control = Tail(o.control) /\ Rest(o).closed = o.closed
        BY <3>3, <3>4 DEF Rest, Outbounds
      <4>3. s \notin left => Sends(s)
        BY <2>1, <3>2, <3>4, <4>1, <4>2 DEF Sends, o
      <4> QED BY <2>1, <2>2, <3>2, <4>3, SameEvolves DEF Evolves, Same
    <3>5. CASE o.control = << >>
      <4>1. m = Telemetry /\ m \in Sent
        BY <3>5, Kinds DEF NextOut
      <4>2. Rest(o).control = << >> /\ Rest(o).closed = o.closed
        BY <3>3, <3>5 DEF Rest, Outbounds
      <4>3. s \notin left => Sends(s)
        BY <2>1, <3>2, <3>5, <4>1, <4>2 DEF Sends, o
      <4> QED BY <2>1, <2>2, <3>2, <4>3, SameEvolves DEF Evolves, Same
    <3> QED BY <3>4, <3>5
  <2> QED BY <2>3, <2>4
<1>7. CASE HandshakeLost(s) \/ Leave(s)
  <2>1. /\ Freed({s}) /\ pc' = [pc EXCEPT ![s] = "ended"] /\ UNCHANGED <<down, taken>>
    BY <1>7 DEF HandshakeLost, Leave, Go, serverVars
  <2>2. /\ \A r \in Conns : outbound'[r] = IF r \in {s} THEN EmptyOutbound ELSE outbound[r]
        /\ EmptyOutbound.control = << >> /\ ~ EmptyOutbound.closed
    BY <1>1, <2>1, FreedDoes
  <2>3. pc'[s] = "ended" /\ \A r \in Conns \ {s} : pc'[r] = pc[r] /\ outbound'[r] = outbound[r]
    BY <1>1, <2>1, <2>2
  <2>4. Ends(s)
    BY <2>1, <2>2, <2>3 DEF Ends
  <2> QED BY <2>1, <2>3, <2>4, SameEvolves DEF Evolves, Same
<1> QED BY <1>3, <1>4, <1>5, <1>6, <1>7 DEF Serve

LEMMA DaemonEvolves ==
    ASSUME TypeInv, TaskInv, DaemonSide, NEW r \in Conns \ left'
    PROVE  Evolves(r)
<1>1. /\ pc \in [Conns -> Labels] /\ OutTyped /\ LinkTyped /\ left \subseteq Conns
  BY DEF TypeInv, LinkTyped, DeskTyped
<1>2. ASSUME NEW s \in Conns, NEW m \in Sent, PushTo(s, m)
      PROVE  /\ Pushed(s, m)
             /\ \A q \in Conns \ {s} : outbound'[q] = outbound[q]
  BY <1>1, <1>2, PushDoes
<1>3. left \subseteq left'
  BY DaemonOnward
<1>4. ASSUME NEW s \in Conns, Serve(s) PROVE Evolves(r)
  <2>1. r = s => s \notin left
    BY <1>3
  <2> QED BY <1>4, <2>1, ServeEvolves
<1>5. ASSUME NEW s \in Conns, Cut(s) \/ Picture(s) \/ TellShutdown(s) PROVE Evolves(r)
  <2>1. CASE Cut(s)
    <3>1. left' = left \cup {s} /\ \A q \in Conns : down'[q] = IF q \in {s} THEN << >> ELSE down[q]
      BY <1>1, <2>1, ClosedDoes DEF Cut
    <3> QED BY <2>1, <3>1, SameEvolves DEF Cut, Same, serverVars
  <2>2. CASE Picture(s)
    <3>1. PushTo(s, Telemetry) /\ UNCHANGED <<pc, taken, down>> /\ Telemetry \in Plain
      BY <2>2, Kinds DEF Picture, serverVars, Plain
    <3>2. CASE r = s
      BY <1>2, <3>1, <3>2 DEF Evolves, PlaceKept, Takes, Plain
    <3>3. CASE r # s
      BY <1>2, <3>1, <3>3, SameEvolves DEF Same, Plain
    <3> QED BY <3>2, <3>3
  <2>3. CASE TellShutdown(s)
    <3> DEFINE f == Fail(outbound[s], Reject("ShuttingDown"))
    <3>1. outbound' = [outbound EXCEPT ![s] = f] /\ UNCHANGED <<pc, taken, down>>
      BY <1>1, <2>3 DEF TellShutdown, OutTyped
    <3>2. f.control = <<Reject("ShuttingDown")>> /\ f.closed
      BY DEF Fail
    <3> HIDE DEF f
    <3>3. outbound'[s] = f /\ \A q \in Conns \ {s} : outbound'[q] = outbound[q]
      BY <1>1, <3>1 DEF OutTyped
    <3>4. CASE r = s
      BY <3>1, <3>2, <3>3, <3>4 DEF Evolves, PlaceKept, Shuts
    <3>5. CASE r # s
      BY <3>1, <3>3, <3>5, SameEvolves DEF Same
    <3> QED BY <3>4, <3>5
  <2> QED BY <1>5, <2>1, <2>2, <2>3
<1>6. ASSUME NEW t \in Tasks, Broadcast(t) PROVE Evolves(r)
  <2>1. CASE List(t)
    BY <2>1, SameEvolves DEF List, Same
  <2>2. ASSUME NEW s \in Conns, Tell(t, s) PROVE Evolves(r)
    <3>1. PICK op \in job[t].op : PushTo(s, Delta(op))
      BY <2>2 DEF Tell
    <3>2. Delta(op) \in Sent /\ Delta(op) \in Plain
      <4>1. op \in Ops
        BY JobMembers
      <4> QED BY <4>1, Kinds DEF Plain
    <3>3. UNCHANGED <<pc, taken, down>>
      BY <2>2 DEF Tell
    <3>4. CASE r = s
      BY <1>2, <3>1, <3>2, <3>3, <3>4 DEF Evolves, PlaceKept, Takes
    <3>5. CASE r # s
      BY <1>2, <3>1, <3>2, <3>3, <3>5, SameEvolves DEF Same
    <3> QED BY <3>4, <3>5
  <2>3. CASE Told(t) /\ t = Daemon
    BY <2>3, SameEvolves DEF Told, Same
  <2>4. CASE Told(t) /\ t # Daemon
    <3>1. /\ t \in Conns /\ pc' = [pc EXCEPT ![t] = "look"] /\ UNCHANGED <<taken, down>>
          /\ job[t].listed /\ job[t].to = {}
      BY <2>4, Constants DEF Told, Go
    <3>2. PICK op \in job[t].op : PushTo(t, Ack(op.ver))
      BY <2>4 DEF Told
    <3>3. Ack(op.ver) \in Sent /\ pc[t] = "tell"
      BY <3>1, JobMembers DEF TaskInv
    <3>4. pc'[t] = "look" /\ \A q \in Conns \ {t} : pc'[q] = pc[q]
      BY <1>1, <3>1
    <3>5. CASE r = t
      BY <1>2, <3>1, <3>2, <3>3, <3>4, <3>5 DEF Evolves, Takes
    <3>6. CASE r # t
      BY <1>2, <3>1, <3>2, <3>3, <3>4, <3>6, SameEvolves DEF Same
    <3> QED BY <3>5, <3>6
  <2> QED BY <1>6, <2>1, <2>2, <2>3, <2>4 DEF Broadcast
<1>7. ASSUME NEW k \in Keys, NEW put \in BOOLEAN,
             DaemonEdit(k, put) \/ \E c \in Clients : Send(c, k, put)
      PROVE  Evolves(r)
  BY <1>7, SameEvolves DEF DaemonEdit, Send, Same, serverVars
<1>8. CASE Shutdown
  BY <1>8, SameEvolves DEF Shutdown, Same
<1>9. CASE Exit
  <2>1. /\ Freed(Conns) /\ down' = down
        /\ pc'[r] = IF pc[r] \in {"none", "opening"} THEN pc[r] ELSE "ended"
    BY <1>9 DEF Exit
  <2>2. outbound'[r] = EmptyOutbound /\ EmptyOutbound.control = << >> /\ ~ EmptyOutbound.closed
    BY <1>1, <2>1, FreedDoes DEF LinkTyped
  <2> QED BY <2>1, <2>2 DEF Evolves, Ends
<1> QED BY <1>4, <1>5, <1>6, <1>7, <1>8, <1>9 DEF DaemonSide

-----------------------------------------------------------------------------
(* A picture never answers the handshake                                   *)

\* What a push leaves in a queue.
LEMMA PushedControl ==
    ASSUME TypeInv, NEW s \in Conns, NEW m \in Sent, Pushed(s, m)
    PROVE  /\ outbound[s].control # << >> => outbound'[s].control # << >>
           /\ \/ outbound'[s].control = outbound[s].control
                   /\ outbound'[s].closed = outbound[s].closed
              \/ outbound'[s].control # << >>
           /\ m \in Queued /\ ~ outbound[s].closed /\ pc[s] # "ended"
                => outbound'[s].control # << >>
<1>1. outbound[s].control \in Seq(Queued) /\ \A k : <<k>> # << >>
  BY Members
<1>2. m \in Queued => Append(outbound[s].control, m) # << >>
  BY <1>1, AppendContents
<1>3. m \in Queued => m # Telemetry
  BY Kinds
<1> QED BY <1>1, <1>2, <1>3 DEF Pushed

LEMMA AnswerKept ==
    ASSUME TypeInv, NEW s \in Conns, Evolves(s), HasLast(s)
    PROVE  HasLast(s)' /\ (Answering(s) => Answering(s)')
<1>1. \A k : <<k>> # << >>
  OBVIOUS
<1>2. CASE PlaceKept(s) /\ Stays(s)
  BY <1>2 DEF PlaceKept, Stays, HasLast, Answering, Pumped
<1>3. CASE PlaceKept(s) /\ Shuts(s)
  BY <1>1, <1>3 DEF PlaceKept, Shuts, HasLast, Answering
<1>4. CASE PlaceKept(s) /\ \E m \in Plain : Takes(s, m)
  <2>1. PICK m \in Sent : Takes(s, m)
    BY <1>4 DEF Plain
  <2> QED BY <1>4, <2>1, PushedControl DEF PlaceKept, Takes, HasLast, Answering, Pumped
<1>5. CASE Ends(s)
  BY <1>5 DEF Ends, HasLast, Answering, Pumped
<1>6. CASE pc[s] = "snapshot" /\ pc'[s] = "look" /\ Takes(s, Snapshot(taken[s]))
  <2>1. Snapshot(taken[s]) \in Queued /\ Snapshot(taken[s]) \in Sent
    BY Members DEF Snapshot, Sent, Queued
  <2>2. outbound'[s].control # << >> /\ down'[s] = down[s]
    BY <1>6, <2>1, PushedControl DEF Takes, HasLast, Pumped
  <2> QED BY <1>6, <2>2 DEF HasLast, Answering, Pumped
<1>7. CASE pc[s] = "tell" /\ pc'[s] = "look" /\ \E op \in job[s].op : Takes(s, Ack(op.ver))
  <2>1. PICK op \in job[s].op : Takes(s, Ack(op.ver))
    BY <1>7
  <2>2. Ack(op.ver) \in Sent
    BY Members, JobMembers
  <2> QED BY <1>7, <2>1, <2>2, PushedControl DEF Takes, HasLast, Answering, Pumped
<1>8. CASE PlaceKept(s) /\ Sends(s)
  <2>1. PICK m \in Sent :
          /\ pc[s] = "select" /\ down'[s] = Append(down[s], m)
          /\ outbound[s].control # << >> => m = Head(outbound[s].control)
    BY <1>8 DEF Sends
  <2>2. pc'[s] \in Pumped
    BY <1>8, <2>1 DEF PlaceKept, Pumped
  <2>3. /\ down'[s] # << >>
        /\ down[s] = << >> => down'[s][1] = m
        /\ down[s] # << >> => down'[s][1] = down[s][1]
    BY <2>1, Members, AppendContents
  <2>4. outbound[s].control # << >> => m # Telemetry
    BY <2>1, Members, TailContents, Kinds
  <2> QED BY <2>1, <2>2, <2>3, <2>4 DEF HasLast, Answering, Pumped
<1> QED BY <1>2, <1>3, <1>4, <1>5, <1>6, <1>7, <1>8 DEF Evolves

\* What is closed holds nothing for its client.
LEMMA LeftStep ==
    ASSUME WireInv, AnswerInv, [Next]_vars
    PROVE  \A s \in left' : down'[s] = << >>
<1>1. /\ TypeInv /\ TaskInv /\ LinkTyped /\ left \subseteq Conns
      /\ down \in [Conns -> Seq(Sent)] /\ \A s \in left : down[s] = << >>
  BY DEF WireInv, TypeInv, LinkTyped, DeskTyped, AnswerInv
<1>2. ASSUME NEW s \in Conns, Serve(s) PROVE \A r \in left' : down'[r] = << >>
  <2>1. CASE SendNext(s)
    <3>1. left' = left
      BY <2>1 DEF SendNext
    <3>2. \A r \in left : down'[r] = down[r]
      BY <1>1, <2>1 DEF SendNext
    <3> QED BY <1>1, <3>1, <3>2
  <2> QED BY <1>1, <1>2, <2>1 DEF Serve, Enter, TakeSnapshot, QueueSnapshot, Look, ReceiveCommand,
                                  Goodbye, Woken, Gone, HandshakeLost, Leave
<1>3. ASSUME NEW s \in Conns, Cut(s) PROVE \A r \in left' : down'[r] = << >>
  BY <1>1, <1>3, ClosedDoes DEF Cut
<1>4. ASSUME NEW c \in Clients, Timers(c) \/ OnMessage(c) \/ Start(c) \/ Stop(c)
      PROVE  \A r \in left' : down'[r] = << >>
  <2>1. Opens(c) \/ Says(c) \/ Hears(c) \/ Drops(c)
    BY <1>4, ClientDoes DEF ClientDid
  <2>2. CASE Hears(c)
    <3>1. PICK s \in Conns \ left : down' = [down EXCEPT ![s] = Tail(down[s])] /\ left' = left
      BY <2>2 DEF Hears
    <3> QED BY <1>1, <3>1
  <2>3. CASE Drops(c)
    <3>1. ui[c].socket \in Conns \cup {NoConn}
      BY <1>1, UiMembers
    <3> QED BY <1>1, <2>3, <3>1 DEF Drops, Socket
  <2> QED BY <1>1, <2>1, <2>2, <2>3 DEF Opens, Says
<1> QED BY <1>1, <1>2, <1>3, <1>4 DEF Next, vars, Picture, TellShutdown, Broadcast, List, Tell,
                                      Told, DaemonEdit, Send, Shutdown, Exit

\* Whose socket is opened, answered, read or dropped concerns no other client.
LEMMA Others ==
    ASSUME WireInv, NEW c \in Clients, ClientDid(c), NEW d \in Clients \ {c},
           NEW s \in Conns \ left', (Awaits(d, s) \/ Reads(d, s))'
    PROVE  /\ s \notin left /\ pc'[s] = pc[s] /\ down'[s] = down[s] /\ up'[s] = up[s]
           /\ Awaits(d, s) <=> Awaits(d, s)'
           /\ Reads(d, s) <=> Reads(d, s)'
           /\ ui'[d] = ui[d]
<1>1. /\ SocketInv /\ pc \in [Conns -> Labels] /\ down \in [Conns -> Seq(Sent)] /\ up \in Uploads
      /\ NoConn \notin Conns
  BY Constants DEF WireInv, TypeInv, LinkTyped
<1>2. ui'[d] = ui[d] /\ (Opens(c) \/ Says(c) \/ Hears(c) \/ Drops(c))
  BY DEF ClientDid
<1>3. ui[d].socket = s /\ (ui[d].phase = "waiting-for-snapshot" \/ ui[d].phase = "ready")
  BY <1>2 DEF Awaits, Reads
<1>4. pc[s] # "none" /\ ui[c].socket # s
  BY <1>1, <1>3 DEF SocketInv, Pumped
<1>5. s \notin left /\ pc'[s] = pc[s] /\ down'[s] = down[s] /\ up'[s] = up[s]
  <2>1. CASE Opens(c)
    BY <1>1, <1>4, <2>1 DEF Opens
  <2>2. CASE Says(c)
    BY <1>1, <1>4, <2>2 DEF Says, Uploads
  <2>3. CASE Hears(c)
    BY <1>1, <1>4, <2>3 DEF Hears
  <2>4. CASE Drops(c)
    BY <1>1, <1>4, <2>4 DEF Drops
  <2> QED BY <1>2, <2>1, <2>2, <2>3, <2>4
<1> QED BY <1>2, <1>5 DEF Awaits, Reads

\* No client's step gives another socket a place in the pump or a label it had not.
LEMMA ClientPlaces ==
    ASSUME WireInv, NEW c \in Clients, ClientDid(c)
    PROVE  /\ left \subseteq left'
           /\ \A s \in Conns : pc'[s] = pc[s] \/ {pc[s], pc'[s]} \subseteq {"none", "opening", "handshake"}
<1>1. pc \in [Conns -> Labels]
  BY DEF WireInv, TypeInv, LinkTyped
<1> QED BY <1>1 DEF ClientDid, Opens, Says, Hears, Drops

LEMMA AnswerStep ==
    ASSUME WireInv, AnswerInv, [Next]_vars
    PROVE  AnswerInv'
<1>1. TypeInv /\ TaskInv /\ SocketInv /\ left \subseteq Conns
  BY DEF WireInv, TypeInv, DeskTyped
<1>2. \A s \in left' : down'[s] = << >>
  BY LeftStep
<1>3. CASE DaemonSide
  <2>1. ui' = ui /\ left \subseteq left' /\ \A s \in Conns \ left' : Evolves(s)
    BY <1>1, <1>3, DaemonOnward, DaemonEvolves
  <2>2. \A s \in Conns \ left' : HasLast(s)' /\ (Answering(s) => Answering(s)')
    BY <1>1, <2>1, AnswerKept DEF AnswerInv
  <2>3. \A c \in Clients, s \in Conns \ left' : Awaits(c, s)' => Answering(s)'
    BY <2>1, <2>2 DEF AnswerInv, Awaits
  <2> QED BY <1>2, <2>2, <2>3 DEF AnswerInv
<1>4. ASSUME NEW c \in Clients, Timers(c) \/ OnMessage(c) \/ Start(c) \/ Stop(c)
      PROVE  AnswerInv'
  <2>1. ClientDid(c)
    BY <1>4, ClientDoes
  <2>2. \A s \in Conns \ left' : HasLast(s)'
    BY <2>1, ClientPlaces DEF ClientDid, AnswerInv, HasLast, Pumped
  <2>3. ASSUME NEW d \in Clients, NEW s \in Conns \ left', Awaits(d, s)' PROVE Answering(s)'
    <3>1. CASE d # c
      BY <2>1, <2>3, <3>1, Others DEF AnswerInv, Answering, ClientDid
    <3>2. CASE d = c
      <4>1. Says(c)
        BY <1>1, <2>1, <2>3, <3>2, Constants DEF ClientDid, Opens, Hears, Drops, Awaits
      <4>2. pc[s] = "opening" /\ pc'[s] = "handshake" /\ down'[s] = down[s]
        BY <1>1, <2>3, <3>2, <4>1 DEF Says, Awaits, TypeInv, LinkTyped
      <4>3. down[s] = << >>
        BY <1>1, <4>2 DEF TaskInv, Pumped
      <4> QED BY <4>2, <4>3 DEF Answering, Pumped
    <3> QED BY <3>1, <3>2
  <2> QED BY <1>2, <2>2, <2>3 DEF AnswerInv
<1>5. CASE UNCHANGED vars
  BY <1>5 DEF vars, AnswerInv, HasLast, Answering, Awaits
<1> QED BY <1>3, <1>4, <1>5 DEF Next, DaemonSide

-----------------------------------------------------------------------------
(* What a step of the daemon's side does to the jobs and the commands      *)

OthersKeep(t) == \A r \in Tasks \ {t} : job'[r] = job[r]
Edits(t) ==
    \E op \in Ops : /\ op.ver = version + 1 /\ version' = version + 1
                    /\ job[t].op = {} /\ job'[t].op = {op} /\ ~ job'[t].listed
                    /\ OthersKeep(t) /\ UNCHANGED <<outbound, down>>
Lists(t) == /\ job'[t].op = job[t].op /\ job'[t].listed /\ job'[t].to = clients
            /\ version' = version /\ OthersKeep(t)
TellsOne(t, r) ==
    \E op \in job[t].op :
        /\ job'[t].op = {op} /\ job[t].op = {op} /\ job'[t].listed = job[t].listed
        /\ job'[t].to = job[t].to \ {r} /\ Pushed(r, Delta(op)) /\ UNCHANGED <<down, pc>>
        /\ version' = version /\ OthersKeep(t)
ToldAll(t) == /\ job[t].listed /\ job[t].to = {} /\ job'[t].op = {}
              /\ version' = version /\ OthersKeep(t)
Leaves == /\ version' = version /\ \A t \in Tasks : job'[t].op = {}
          /\ \A s \in Conns : pc'[s] \in {"none", "opening", "ended"}
JobsMove ==
    \/ job' = job /\ version' = version
    \/ \E t \in Tasks : Edits(t) \/ Lists(t) \/ ToldAll(t) \/ \E r \in Conns : TellsOne(t, r)
    \/ Leaves

LEMMA EditTyped ==
    ASSUME TypeInv, NEW key \in Keys, NEW put \in BOOLEAN, version < MaxVersion
    PROVE  OpFor(key, put) \in Ops /\ OpFor(key, put).ver = version + 1
<1>1. version \in Nat /\ MaxVersion \in Nat
  BY Constants DEF TypeInv, DeskTyped
<1>2. version + 1 \in Versions \ {0}
  BY <1>1 DEF Versions
<1>3. (IF put THEN version + 1 ELSE 0) \in Versions
  BY <1>2, Constants
<1>4. (IF ~ put THEN "Remove" ELSE IF doc[key] = 0 THEN "Add" ELSE "Replace")
        \in {"Add", "Replace", "Remove"}
  OBVIOUS
<1> QED BY <1>2, <1>3, <1>4 DEF OpFor, Ops

LEMMA JobsEvolve ==
    ASSUME TypeInv, TaskInv, DaemonSide
    PROVE  JobsMove
<1>1. /\ job \in [Tasks -> [op : SUBSET Ops, listed : BOOLEAN, to : SUBSET Conns]]
      /\ OutTyped /\ Conns \subseteq Tasks /\ version \in Nat
      /\ version + Asking(up) <= MaxVersion /\ up \in Uploads
      /\ Asking(up) \in Nat
  BY Constants, AskingIsNatural DEF TypeInv, LinkTyped, DeskTyped
<1>2. ASSUME NEW s \in Conns, Serve(s) PROVE JobsMove
  <2>1. CASE ReceiveCommand(s)
    <3> DEFINE m == Head(up[s])
    <3>1. pc[s] = "select" /\ up[s] # << >> /\ UNCHANGED down
      BY <2>1 DEF ReceiveCommand, At
    <3>2. up[s] \in Seq(Commands) /\ job[s].op = {}
      BY <3>1 DEF TaskInv, Listed, Pumped
    <3>3. m \in Commands /\ m.t = "Command" /\ m.key \in Keys /\ m.put \in BOOLEAN
      BY <3>1, <3>2, TailContents, Kinds
    <3>4. CASE Refused(m.key, m.put)
      BY <2>1, <3>4 DEF ReceiveCommand, JobsMove
    <3>5. CASE ~ Refused(m.key, m.put)
      <4> DEFINE op == OpFor(m.key, m.put)
                 j == [op |-> {op}, listed |-> FALSE, to |-> {}]
      <4>1. version' = version + 1 /\ job' = [job EXCEPT ![s] = j] /\ UNCHANGED outbound
        BY <2>1, <3>5 DEF ReceiveCommand
      <4>2. version < MaxVersion
        <5> DEFINE w == [up EXCEPT ![s] = Tail(@)]
        <5>1. Asking(w) + 1 <= Asking(up) /\ w \in Uploads
          BY <1>1, <3>1, <3>3, FlyingTail DEF Asking
        <5>2. Asking(w) \in Nat
          BY <5>1, AskingIsNatural
        <5> HIDE DEF w
        <5> QED BY <1>1, <5>1, <5>2, Constants
      <4>3. op \in Ops /\ op.ver = version + 1
        BY <3>3, <4>2, EditTyped
      <4> HIDE DEF op
      <4>4. j.op = {op} /\ ~ j.listed
        OBVIOUS
      <4> HIDE DEF j
      <4>5. job'[s] = j /\ OthersKeep(s)
        BY <1>1, <4>1 DEF OthersKeep
      <4>6. Edits(s)
        BY <3>1, <3>2, <4>1, <4>3, <4>4, <4>5 DEF Edits
      <4> QED BY <1>1, <4>6 DEF JobsMove
    <3> QED BY <3>4, <3>5
  <2> QED BY <1>2, <2>1 DEF Serve, Enter, TakeSnapshot, QueueSnapshot, Look, SendNext, Goodbye,
                            Woken, Gone, HandshakeLost, Leave, serverVars, JobsMove
<1>3. ASSUME NEW s \in Conns, Cut(s) \/ Picture(s) \/ TellShutdown(s) PROVE JobsMove
  BY <1>3 DEF Cut, Picture, TellShutdown, serverVars, JobsMove
<1>4. ASSUME NEW t \in Tasks, Broadcast(t) PROVE JobsMove
  <2>1. CASE List(t)
    <3>1. Lists(t)
      BY <2>1, JobDoes DEF Lists, List, OthersKeep
    <3> QED BY <3>1 DEF JobsMove
  <2>2. ASSUME NEW s \in Conns, Tell(t, s) PROVE JobsMove
    <3>1. PICK op \in job[t].op : PushTo(s, Delta(op))
      BY <2>2 DEF Tell
    <3>2. Delta(op) \in Sent /\ job[t].op = {op}
      BY JobMembers
    <3>3. Pushed(s, Delta(op))
      BY <1>1, <3>1, <3>2, PushDoes
    <3>4. UNCHANGED <<down, pc, version>>
      BY <2>2 DEF Tell
    <3>5. TellsOne(t, s)
      BY <2>2, <3>2, <3>3, <3>4, JobDoes DEF TellsOne, OthersKeep
    <3> QED BY <3>5 DEF JobsMove
  <2>3. CASE Told(t)
    <3>1. ToldAll(t)
      BY <2>3, JobDoes DEF ToldAll, Told, OthersKeep
    <3> QED BY <3>1 DEF JobsMove
  <2> QED BY <1>4, <2>1, <2>2, <2>3 DEF Broadcast
<1>5. ASSUME NEW k \in Keys, NEW put \in BOOLEAN, DaemonEdit(k, put) PROVE JobsMove
  <2> DEFINE op == OpFor(k, put)
             j == [op |-> {op}, listed |-> FALSE, to |-> {}]
  <2>1. /\ version' = version + 1 /\ job' = [job EXCEPT ![Daemon] = j]
        /\ UNCHANGED <<outbound, down>> /\ job[Daemon].op = {} /\ version + Asking(up) < MaxVersion
    BY <1>5, AskedIs DEF DaemonEdit
  <2>2. version < MaxVersion
    BY <1>1, <2>1, Constants
  <2>3. op \in Ops /\ op.ver = version + 1
    BY <2>2, EditTyped
  <2> HIDE DEF op
  <2>4. j.op = {op} /\ ~ j.listed
    OBVIOUS
  <2> HIDE DEF j
  <2>5. job'[Daemon] = j /\ OthersKeep(Daemon)
    BY <1>1, <2>1, Constants DEF OthersKeep
  <2>6. Edits(Daemon)
    BY <2>1, <2>3, <2>4, <2>5 DEF Edits
  <2> QED BY <2>6, Constants DEF JobsMove
<1>6. ASSUME NEW k \in Keys, NEW put \in BOOLEAN, NEW c \in Clients, Send(c, k, put)
      PROVE  JobsMove
  BY <1>6 DEF Send, serverVars, JobsMove
<1>7. CASE Shutdown
  BY <1>7 DEF Shutdown, JobsMove
<1>8. CASE Exit
  <2>1. \A t \in Tasks : job'[t].op = {}
    BY <1>8 DEF Exit, NoJob
  <2> QED BY <1>8, <2>1 DEF Exit, Leaves, JobsMove
<1> QED BY <1>2, <1>3, <1>4, <1>5, <1>6, <1>7, <1>8 DEF DaemonSide

LEMMA UpEvolves ==
    ASSUME TypeInv, TaskInv, DaemonSide, NEW s \in Conns
    PROVE  \/ up'[s] \in {up[s], << >>}
           \/ pc[s] = "select" /\ up[s] # << >>
           \/ \E c \in Clients : Reads(c, s)
<1>1. up \in Uploads /\ OutTyped
  BY DEF TypeInv, LinkTyped
<1> DEFINE Goal == \/ up'[s] \in {up[s], << >>}
                   \/ pc[s] = "select" /\ up[s] # << >>
                   \/ \E c \in Clients : Reads(c, s)
<1>2. ASSUME NEW r \in Conns, Serve(r) PROVE Goal
  <2>1. CASE Enter(r)
    <3>1. pc[r] = "handshake" /\ up' = [up EXCEPT ![r] = Tail(up[r])] /\ up[r] = <<Hello>>
      BY <1>1, <2>1 DEF Enter, At, TaskInv, Uploads
    <3>2. Tail(<<Hello>>) = << >>
      OBVIOUS
    <3>3. up'[s] = IF s = r THEN << >> ELSE up[s]
      BY <1>1, <3>1, <3>2 DEF Uploads
    <3> QED BY <3>3
  <2>2. CASE ReceiveCommand(r)
    <3>1. pc[r] = "select" /\ up' = [up EXCEPT ![r] = Tail(up[r])] /\ up[r] # << >>
      BY <1>1, <2>2 DEF ReceiveCommand, At, Uploads
    <3> QED BY <1>1, <3>1 DEF Uploads
  <2>3. CASE HandshakeLost(r) \/ Leave(r)
    <3>1. Freed({r})
      BY <2>3 DEF HandshakeLost, Leave
    <3> QED BY <1>1, <3>1, FreedDoes
  <2> QED BY <1>2, <2>1, <2>2, <2>3 DEF Serve, TakeSnapshot, QueueSnapshot, Look, SendNext, Goodbye,
                                        Woken, Gone
<1>3. ASSUME NEW r \in Conns, Cut(r) \/ Picture(r) \/ TellShutdown(r) PROVE Goal
  BY <1>3 DEF Cut, Picture, TellShutdown
<1>4. ASSUME NEW t \in Tasks, Broadcast(t) PROVE Goal
  BY <1>4 DEF Broadcast, List, Tell, Told
<1>5. ASSUME NEW k \in Keys, NEW put \in BOOLEAN, DaemonEdit(k, put) PROVE Goal
  BY <1>5 DEF DaemonEdit
<1>6. ASSUME NEW k \in Keys, NEW put \in BOOLEAN, NEW c \in Clients, Send(c, k, put)
      PROVE  Goal
  <2>1. /\ ui[c].phase = "ready"
        /\ up' = [up EXCEPT ![ui[c].socket] = Append(up[ui[c].socket], Command(k, put))]
    BY <1>1, <1>6, UiMembers DEF Send, Uploads
  <2> QED BY <1>1, <2>1 DEF Reads, Uploads
<1>7. CASE Shutdown
  BY <1>7 DEF Shutdown
<1>8. CASE Exit
  <2>1. up'[s] = << >>
    BY <1>1, <1>8, FreedDoes DEF Exit
  <2> QED BY <2>1
<1> QED BY <1>2, <1>3, <1>4, <1>5, <1>6, <1>7, <1>8 DEF DaemonSide

-----------------------------------------------------------------------------
(* Receipts follow facts                                                   *)

EarlyAt(s) == pc[s] \notin Pumped \cup {"ended"} => Early(outbound[s].control)

LEMMA EarlyQueues ==
    ASSUME NEW q \in Seq(Sent), NEW m \in Sent, m.t \notin {"Ack", "Snapshot"}
    PROVE  /\ Early(q) => Early(Append(q, m))
           /\ Early(<<m>>) /\ NoReceipt(<<m>>) /\ Early(<< >>) /\ NoReceipt(<< >>)
           /\ Early(q) => NoReceipt(q)
<1>1. Contents(Append(q, m)) = Contents(q) \cup {m} /\ Contents(<<m>>) = {m} /\ Contents(<< >>) = {}
  BY AppendContents, EmptyContents
<1>2. \A p : /\ Early(p) <=> \A n \in Contents(p) : n.t \notin {"Ack", "Snapshot"}
             /\ NoReceipt(p) <=> \A n \in Contents(p) : n.t # "Ack"
  BY DEF Early, NoReceipt, Contents
<1> QED BY <1>1, <1>2

LEMMA Rejected ==
    \A r \in Reasons : Reject(r) \in Sent /\ Reject(r).t \notin {"Ack", "Snapshot", "Delta"}
  BY Kinds DEF Reject

LEMMA EarlyKept ==
    ASSUME TypeInv, NEW s \in Conns, Evolves(s), EarlyAt(s)
    PROVE  EarlyAt(s)'
<1>1. outbound[s].control \in Seq(Sent)
  BY Members
<1>2. Early(<<Reject("Backpressure")>>) /\ Early(<<Reject("ShuttingDown")>>) /\ Early(<< >>)
  BY <1>1, Rejected, EarlyQueues DEF Reasons
<1>3. CASE PlaceKept(s) /\ (Stays(s) \/ Sends(s) \/ Shuts(s))
  BY <1>2, <1>3 DEF PlaceKept, Stays, Sends, Shuts, EarlyAt, Pumped
<1>4. CASE PlaceKept(s) /\ \E m \in Plain : Takes(s, m)
  <2>1. PICK m \in Plain : Takes(s, m)
    BY <1>4
  <2>2. m \in Sent /\ m.t \notin {"Ack", "Snapshot"}
    BY DEF Plain
  <2>3. Early(outbound[s].control) => Early(outbound'[s].control)
    BY <1>1, <1>2, <2>1, <2>2, EarlyQueues DEF Takes, Pushed
  <2> QED BY <1>4, <2>3 DEF PlaceKept, EarlyAt, Pumped
<1>5. CASE Ends(s)
  BY <1>2, <1>5 DEF Ends, EarlyAt
<1> QED BY <1>3, <1>4, <1>5 DEF Evolves, EarlyAt, Pumped

LEMMA UnaskedKept ==
    ASSUME TypeInv, TaskInv, DaemonSide, NEW s \in Conns, Evolves(s), Unasked(s),
           ~ \E c \in Clients : Reads(c, s)
    PROVE  Unasked(s)'
<1>1. outbound[s].control \in Seq(Sent) /\ down[s] \in Seq(Sent)
  BY Members
<1>2. ~ (pc[s] = "select" /\ up[s] # << >>)
  <2>1. pc[s] = "select" => up[s] \in Seq(Commands)
    BY DEF TaskInv, Listed, Pumped
  <2>2. <<Hello>> \notin Seq(Commands)
    BY Kinds
  <2> QED BY <2>1, <2>2 DEF Unasked
<1>3. up'[s] \in {<< >>, <<Hello>>}
  BY <1>2, UpEvolves DEF Unasked
<1>4. pc'[s] # "tell"
  BY <1>2 DEF Evolves, PlaceKept, Ends, Unasked
<1>5. NoReceipt(<<Reject("Backpressure")>>) /\ NoReceipt(<<Reject("ShuttingDown")>>)
      /\ NoReceipt(<< >>)
  BY <1>1, Rejected, EarlyQueues DEF Reasons
<1>6. ASSUME NEW m \in Sent, m.t # "Ack", Takes(s, m)
      PROVE  NoReceipt(outbound'[s].control) /\ NoReceipt(down'[s])
  BY <1>1, <1>5, <1>6, Receipts DEF Takes, Pushed, Unasked
<1>7. NoReceipt(outbound'[s].control) /\ NoReceipt(down'[s])
  <2>1. CASE Stays(s) \/ Shuts(s) \/ Ends(s)
    BY <1>5, <2>1 DEF Stays, Shuts, Ends, Unasked
  <2>2. CASE \E m \in Plain : Takes(s, m)
    BY <1>6, <2>2 DEF Plain
  <2>3. CASE Takes(s, Snapshot(taken[s]))
    <3>1. Snapshot(taken[s]) \in Sent /\ Snapshot(taken[s]).t # "Ack"
      BY Members DEF Snapshot, Sent, Queued
    <3> QED BY <1>6, <2>3, <3>1
  <2>4. CASE Sends(s)
    <3>1. PICK m \in Sent :
            /\ down'[s] = Append(down[s], m)
            /\ \/ /\ outbound[s].control # << >> /\ m = Head(outbound[s].control)
                  /\ outbound'[s].control = Tail(outbound[s].control)
               \/ /\ outbound[s].control = << >> /\ outbound'[s].control = << >>
                  /\ m = Telemetry
      BY <2>4 DEF Sends
    <3>2. m.t # "Ack"
      <4>1. CASE outbound[s].control # << >>
        <5>1. m \in Contents(outbound[s].control)
          BY <1>1, <3>1, <4>1, TailContents
        <5> QED BY <5>1 DEF Unasked, NoReceipt, Contents
      <4>2. CASE outbound[s].control = << >>
        BY <3>1, <4>2, Kinds
      <4> QED BY <4>1, <4>2
    <3> QED BY <1>1, <3>1, <3>2, Receipts DEF Unasked
  <2>5. pc[s] # "tell"
    BY DEF Unasked
  <2> QED BY <2>1, <2>2, <2>3, <2>4, <2>5 DEF Evolves
<1> QED BY <1>3, <1>4, <1>7 DEF Unasked

\* What a client that has heard K will know when it has read its queues.
Known(s, K) == K \cup Facts(Contents(down[s])) \cup Facts(Contents(outbound[s].control))

LEMMA FactsUnion == \A A, B : Facts(A \cup B) = Facts(A) \cup Facts(B)
  BY DEF Facts

\* No step of the daemon's side loses a fact of a queue that is not closed.
LEMMA KnownKept ==
    ASSUME TypeInv, NEW s \in Conns, Evolves(s), NEW K
    PROVE  /\ pc'[s] = "ended" \/ pc'[s] \in {"none", "opening"} \/ outbound'[s].closed
                \/ Known(s, K) \subseteq Known(s, K)'
           /\ K \cup Facts(Contents(down[s])) \subseteq K \cup Facts(Contents(down'[s]))
<1>1. outbound[s].control \in Seq(Sent) /\ outbound[s].control \in Seq(Queued)
      /\ down[s] \in Seq(Sent)
  BY Members
<1>2. ASSUME NEW m \in Sent, Takes(s, m)
      PROVE  (outbound'[s].closed \/ Known(s, K) \subseteq Known(s, K)') /\ down'[s] = down[s]
  <2>1. \/ outbound'[s].closed
        \/ outbound'[s].control = outbound[s].control
        \/ outbound'[s].control = Append(outbound[s].control, m)
    BY <1>2 DEF Takes, Pushed
  <2>2. Contents(Append(outbound[s].control, m)) = Contents(outbound[s].control) \cup {m}
    BY <1>1, AppendContents
  <2>3. down'[s] = down[s]
    BY <1>2 DEF Takes
  <2>4. CASE outbound'[s].control = outbound[s].control
    BY <2>3, <2>4 DEF Known
  <2>5. CASE outbound'[s].control = Append(outbound[s].control, m)
    <3>1. Facts(Contents(outbound'[s].control)) = Facts(Contents(outbound[s].control)) \cup Facts({m})
      BY <2>2, <2>5, FactsUnion
    <3> QED BY <2>3, <3>1 DEF Known
  <2> QED BY <2>1, <2>3, <2>4, <2>5
<1>3. CASE Stays(s) \/ Shuts(s) \/ Ends(s)
  BY <1>3 DEF Stays, Shuts, Ends, Known
<1>4. CASE \E m \in Plain : Takes(s, m)
  BY <1>2, <1>4 DEF Plain
<1>5. CASE Takes(s, Snapshot(taken[s]))
  <2>1. Snapshot(taken[s]) \in Sent
    BY Members DEF Snapshot, Sent, Queued
  <2> QED BY <1>2, <1>5, <2>1
<1>6. CASE \E op \in job[s].op : Takes(s, Ack(op.ver))
  BY <1>2, <1>6, Members, JobMembers
<1>7. CASE Sends(s)
  <2>1. PICK m \in Sent :
          /\ down'[s] = Append(down[s], m)
          /\ \/ /\ outbound[s].control # << >> /\ m = Head(outbound[s].control)
                /\ outbound'[s].control = Tail(outbound[s].control)
             \/ outbound[s].control = << >> /\ outbound'[s].control = << >>
    BY <1>7 DEF Sends
  <2>2. Contents(down'[s]) = Contents(down[s]) \cup {m}
    BY <1>1, <2>1, AppendContents
  <2>3. Contents(outbound[s].control) \subseteq Contents(outbound'[s].control) \cup {m}
    BY <1>1, <2>1, TailContents
  <2>4. Facts(Contents(outbound[s].control)) \subseteq Facts(Contents(outbound'[s].control)) \cup Facts({m})
    BY <2>3 DEF Facts
  <2>5. Facts(Contents(down'[s])) = Facts(Contents(down[s])) \cup Facts({m})
    BY <2>2, FactsUnion
  <2> QED BY <2>4, <2>5 DEF Known
<1> QED BY <1>3, <1>4, <1>5, <1>6, <1>7 DEF Evolves

\* A step of the daemon's side keeps the receipts of a ready client in order.
LEMMA InOrderKept ==
    ASSUME TypeInv, TaskInv, TaskInv', JobsMove, NEW s \in Conns, Evolves(s), NEW K,
           pc[s] \in Pumped \cup {"ended"}, InOrder(s, K)
    PROVE  InOrder(s, K)'
<1> DEFINE L == K \cup Facts(Contents(down[s]))
           N == K \cup Facts(Contents(down'[s]))
           q == outbound[s].control
           n == outbound'[s].control
<1>1. q \in Seq(Sent) /\ q \in Seq(Queued) /\ down[s] \in Seq(Sent)
  BY Members
<1>2. L \subseteq N
  BY KnownKept
<1>3. /\ Behind(down[s], K) /\ Behind(q, L)
      /\ job[s].listed /\ s \notin job[s].to /\ ~ outbound[s].closed =>
           \A op \in job[s].op : op.ver \in Known(s, K)
  BY DEF InOrder, Known
<1>4. \A r \in Reasons : Behind(<<Reject(r)>>, N) /\ Behind(<< >>, N)
  <2>1. ASSUME NEW r \in Reasons PROVE Behind(<<Reject(r)>>, N) /\ Behind(<< >>, N)
    <3>1. Reject(r) \in Sent /\ Reject(r).t # "Ack"
      BY Rejected
    <3>2. << >> \in Seq(Sent) /\ NoReceipt(<< >>)
      BY DEF NoReceipt
    <3> HIDE DEF N
    <3> QED BY <3>1, <3>2, Receipts DEF Behind
  <2> QED BY <2>1
<1>5. pc'[s] \in Pumped \cup {"ended"}
  BY DEF Evolves, PlaceKept, Ends, Pumped
<1> HIDE DEF L, N, q, n
<1>6. ASSUME NEW m \in Sent, Takes(s, m), m.t = "Ack" /\ ~ outbound[s].closed => m.ver \in Known(s, K)
      PROVE  Behind(down'[s], K) /\ Behind(n, N)
  <2>1. /\ down'[s] = down[s] /\ N = L
        /\ \/ n = q
           \/ n = <<Reject("Backpressure")>>
           \/ ~ outbound[s].closed /\ n = Append(q, m)
    BY <1>6 DEF Takes, Pushed, n, q, N, L
  <2>2. CASE ~ outbound[s].closed /\ n = Append(q, m)
    <3>1. m.t = "Ack" => m.ver \in L \cup Facts(Contents(q))
      BY <1>6, <2>2 DEF Known, L, q
    <3>2. Behind(Append(q, m), L)
      BY <1>1, <1>3, <3>1, BehindAppend
    <3> QED BY <1>3, <2>1, <2>2, <3>2
  <2> QED BY <1>3, <1>4, <2>1, <2>2 DEF Reasons
<1>7. Behind(down'[s], K) /\ Behind(n, N)
  <2>1. CASE Stays(s)
    BY <1>2, <1>3, <2>1, BehindMore DEF Stays, n, q
  <2>2. CASE Shuts(s) \/ Ends(s)
    BY <1>3, <1>4, <2>2 DEF Shuts, Ends, n, Reasons
  <2>3. CASE \E m \in Plain : Takes(s, m)
    BY <1>6, <2>3 DEF Plain
  <2>4. CASE job[s].listed /\ job[s].to = {} /\ \E op \in job[s].op : Takes(s, Ack(op.ver))
    <3>1. PICK op \in job[s].op : Takes(s, Ack(op.ver))
      BY <2>4
    <3>2. Ack(op.ver) \in Sent /\ Ack(op.ver).ver = op.ver
      BY Members, JobMembers DEF Ack
    <3>3. ~ outbound[s].closed => op.ver \in Known(s, K)
      BY <1>3, <2>4
    <3> QED BY <1>6, <3>1, <3>2, <3>3
  <2>5. CASE Sends(s)
    <3>1. PICK m \in Sent :
            /\ down'[s] = Append(down[s], m)
            /\ \/ q # << >> /\ m = Head(q) /\ n = Tail(q)
               \/ q = << >> /\ n = << >> /\ m = Telemetry
      BY <2>5 DEF Sends, q, n
    <3>2. Contents(down'[s]) = Contents(down[s]) \cup {m}
      BY <1>1, <3>1, AppendContents
    <3>3. m.t = "Delta" => m.op.ver \in N
      <4>1. m.t = "Delta" => m.op.ver \in Facts(Contents(down[s]) \cup {m})
        BY DEF Facts
      <4> QED BY <3>2, <4>1 DEF N
    <3>4. CASE q # << >>
      <4>1. m = Head(q) /\ m = q[1] /\ n = Tail(q)
        BY <1>1, <3>1, <3>4, TailContents
      <4>2. m.t = "Ack" => m.ver \in L
        <5>1. 1 \in DOMAIN q /\ \A j \in DOMAIN q : ~ (j < 1)
          BY <1>1, <3>4
        <5> QED BY <1>3, <4>1, <5>1 DEF Behind
      <4>3. Behind(down'[s], K)
        BY <1>1, <1>3, <3>1, <4>2, BehindAppend DEF L
      <4>4. Behind(n, N)
        BY <1>1, <1>2, <1>3, <3>3, <3>4, <4>1, BehindTail
      <4> QED BY <4>3, <4>4
    <3>5. CASE q = << >>
      <4>1. m.t # "Ack"
        BY <3>1, <3>5, Kinds
      <4>2. Behind(down'[s], K)
        BY <1>1, <1>3, <3>1, <4>1, BehindAppend
      <4>3. Behind(n, N)
        BY <1>4, <3>1, <3>5 DEF Reasons
      <4> QED BY <4>2, <4>3
    <3> QED BY <3>4, <3>5
  <2> QED BY <2>1, <2>2, <2>3, <2>4, <2>5 DEF Evolves, Pumped
<1>8. ASSUME job'[s].listed, s \notin job'[s].to, ~ outbound'[s].closed, NEW op \in job'[s].op
      PROVE  op.ver \in N \cup Facts(Contents(n))
  <2>1. pc'[s] = "tell" /\ ~ Ends(s)
    BY <1>5, <1>8 DEF TaskInv, Ends, Pumped
  <2>2. Known(s, K) \subseteq N \cup Facts(Contents(n))
    <3>1. Known(s, K) \subseteq Known(s, K)'
      BY <1>8, <2>1, KnownKept
    <3> QED BY <3>1 DEF Known, N, n
  <2>3. ~ outbound[s].closed
    <3>1. \A m : Takes(s, m) /\ outbound[s].closed => outbound'[s].closed
      BY DEF Takes, Pushed
    <3> QED BY <1>8, <2>1, <3>1 DEF Evolves, Stays, Sends, Shuts
  <2>4. CASE job'[s] = job[s]
    BY <1>3, <1>8, <2>2, <2>3, <2>4
  <2>5. PICK t \in Tasks : Edits(t) \/ Lists(t) \/ ToldAll(t) \/ \E r \in Conns : TellsOne(t, r)
        \/ job'[s] = job[s]
    BY <1>8, Constants DEF JobsMove, Leaves
  <2>6. t = s \/ job'[s] = job[s]
    BY <2>5, Constants DEF Edits, Lists, ToldAll, TellsOne, OthersKeep
  <2>7. CASE Lists(s)
    BY <1>8, <2>7 DEF Lists, TaskInv, Listed, Pumped
  <2>8. ASSUME NEW r \in Conns, TellsOne(s, r) PROVE op.ver \in N \cup Facts(Contents(n))
    <3>1. /\ op \in job[s].op /\ job[s].listed /\ s \notin job[s].to \ {r}
          /\ Pushed(r, Delta(op))
      BY <1>8, <2>8 DEF TellsOne
    <3>2. CASE r # s
      BY <1>3, <2>2, <2>3, <3>1, <3>2
    <3>3. CASE r = s
      <4>1. Delta(op) \in Queued /\ Delta(op) \in Sent /\ Delta(op).t = "Delta" /\ Delta(op).op = op
        <5>1. op \in Ops
          BY <3>1, JobMembers, Constants
        <5> QED BY <5>1, Kinds
      <4>2. Delta(op) # Telemetry /\ pc[s] # "ended"
        BY <3>1, <4>1, Kinds DEF TaskInv
      <4>3. n = Append(q, Delta(op))
        BY <1>8, <2>3, <3>1, <3>3, <4>2 DEF Pushed, n, q
      <4>4. Contents(n) = Contents(q) \cup {Delta(op)}
        BY <1>1, <4>1, <4>3, AppendContents
      <4>5. op.ver \in Facts(Contents(q) \cup {Delta(op)})
        BY <4>1, FactsAdd
      <4> QED BY <4>4, <4>5
    <3> QED BY <3>2, <3>3
  <2> QED BY <1>8, <2>4, <2>5, <2>6, <2>7, <2>8 DEF Edits, ToldAll
<1> QED BY <1>7, <1>8 DEF InOrder, N, n

\* The client that reads a message knows what it told.
LEMMA HearingKept ==
    ASSUME TypeInv, NEW s \in Conns, NEW H, NEW K, InOrder(s, H), down[s] # << >>,
           down'[s] = Tail(down[s]), UNCHANGED <<outbound, job>>, H \subseteq K,
           Head(down[s]).t = "Delta" => Head(down[s]).op.ver \in K
    PROVE  InOrder(s, K)'
<1> DEFINE m == Head(down[s])
           L == H \cup Facts(Contents(down[s]))
           N == K \cup Facts(Contents(down'[s]))
<1>1. down[s] \in Seq(Sent) /\ Contents(down[s]) = Contents(down'[s]) \cup {m}
  BY Members, TailContents
<1>2. Facts(Contents(down[s])) \subseteq Facts(Contents(down'[s])) \cup K
  BY <1>1 DEF Facts
<1>3. L \subseteq N
  BY <1>2
<1>4. /\ Behind(down[s], H) /\ Behind(outbound[s].control, L)
      /\ job[s].listed /\ s \notin job[s].to /\ ~ outbound[s].closed =>
           \A op \in job[s].op : op.ver \in L \cup Facts(Contents(outbound[s].control))
  BY DEF InOrder
<1> HIDE DEF L, N, m
<1>5. Behind(down'[s], K)
  BY <1>1, <1>4, BehindTail
<1>6. Behind(outbound'[s].control, N)
  BY <1>3, <1>4, BehindMore
<1>7. job'[s].listed /\ s \notin job'[s].to /\ ~ outbound'[s].closed =>
        \A op \in job'[s].op : op.ver \in N \cup Facts(Contents(outbound'[s].control))
  BY <1>3, <1>4
<1> QED BY <1>5, <1>6, <1>7 DEF InOrder, N

LEMMA FactStep ==
    ASSUME WireInv, WireInv', FactInv, [Next]_vars
    PROVE  FactInv'
<1>1. TypeInv /\ TaskInv /\ TaskInv' /\ SocketInv /\ left \subseteq Conns /\ NoConn \notin Conns
  BY Constants DEF WireInv, TypeInv, DeskTyped
<1>2. CASE DaemonSide
  <2>1. ui' = ui /\ left \subseteq left' /\ JobsMove /\ \A s \in Conns \ left' : Evolves(s)
    BY <1>1, <1>2, DaemonOnward, DaemonEvolves, JobsEvolve
  <2>2. \A s \in Conns \ left' : EarlyAt(s)'
    BY <1>1, <2>1, EarlyKept DEF FactInv, EarlyAt
  <2>3. ASSUME NEW c \in Clients, NEW s \in Conns \ left', Awaits(c, s)' PROVE Unasked(s)'
    <3>1. Awaits(c, s) /\ Unasked(s)
      BY <2>1, <2>3 DEF FactInv, Awaits
    <3>2. ~ \E d \in Clients : Reads(d, s)
      BY <1>1, <3>1 DEF SocketInv, Awaits, Reads
    <3> QED BY <1>1, <1>2, <2>1, <3>1, <3>2, UnaskedKept
  <2>4. ASSUME NEW c \in Clients, NEW s \in Conns \ left', NEW K \in SUBSET Versions,
               (Reads(c, s) /\ ui[c].heard = K)'
        PROVE  InOrder(s, K)'
    <3>1. Reads(c, s) /\ ui[c].heard = K
      BY <2>1, <2>4 DEF Reads
    <3>2. InOrder(s, K) /\ pc[s] \in Pumped \cup {"ended"}
      BY <1>1, <2>1, <3>1 DEF FactInv, SocketInv, Reads
    <3> QED BY <1>1, <2>1, <3>2, InOrderKept
  <2> QED BY <2>2, <2>3, <2>4 DEF FactInv, EarlyAt
<1>3. ASSUME NEW c \in Clients, Timers(c) \/ OnMessage(c) \/ Start(c) \/ Stop(c)
      PROVE  FactInv'
  <2>1. ClientDid(c) /\ UNCHANGED <<outbound, job>>
    BY <1>3, ClientDoes DEF ClientDid, serverVars
  <2>2. ASSUME NEW s \in Conns \ left', (pc[s] \notin Pumped \cup {"ended"})'
        PROVE  Early(outbound[s].control)'
    <3>1. s \notin left /\ pc[s] \notin Pumped \cup {"ended"}
      BY <2>1, <2>2, ClientPlaces DEF Pumped
    <3> QED BY <2>1, <3>1 DEF FactInv
  <2>3. ASSUME NEW d \in Clients, NEW s \in Conns \ left', Awaits(d, s)' PROVE Unasked(s)'
    <3>1. CASE d # c
      BY <2>1, <2>3, <3>1, Others DEF FactInv, Unasked
    <3>2. CASE d = c
      <4>1. Says(c)
        BY <1>1, <2>1, <2>3, <3>2, Constants DEF ClientDid, Opens, Hears, Drops, Awaits
      <4>2. /\ pc[s] = "opening" /\ pc'[s] = "handshake" /\ down'[s] = down[s] /\ s \notin left
            /\ up'[s] = <<Hello>>
        BY <1>1, <2>3, <3>2, <4>1 DEF Says, Awaits, TypeInv, LinkTyped, Uploads
      <4>3. down[s] = << >>
        BY <1>1, <4>2 DEF TaskInv, Pumped
      <4>4. Early(outbound[s].control)
        BY <4>2 DEF FactInv, Pumped
      <4> QED BY <2>1, <4>2, <4>3, <4>4 DEF Unasked, NoReceipt, Early
    <3> QED BY <3>1, <3>2
  <2>4. ASSUME NEW d \in Clients, NEW s \in Conns \ left', NEW K \in SUBSET Versions,
               (Reads(d, s) /\ ui[d].heard = K)'
        PROVE  InOrder(s, K)'
    <3>1. CASE d # c
      <4>1. /\ s \notin left /\ down'[s] = down[s] /\ Reads(d, s) /\ ui[d].heard = K
        BY <2>1, <2>4, <3>1, Others
      <4> QED BY <2>1, <4>1 DEF FactInv, InOrder
    <3>2. CASE d = c
      <4>1. Hears(c)
        BY <1>1, <2>1, <2>4, <3>2, Constants DEF ClientDid, Opens, Says, Drops, Reads
      <4>2. /\ s \notin left /\ ui[c].socket = s /\ down[s] # << >> /\ down'[s] = Tail(down[s])
            /\ \/ ui[c].phase = "waiting-for-snapshot"
               \/ LET m == Head(down[s]) IN
                  /\ ui[c].phase = "ready"
                  /\ m.t = "Delta" => K = ui[c].heard \cup {m.op.ver}
                  /\ m.t # "Delta" => K = ui[c].heard
        BY <1>1, <2>4, <3>2, <4>1 DEF Hears, Reads, TypeInv, LinkTyped
      <4>3. CASE ui[c].phase = "waiting-for-snapshot"
        <5>1. Unasked(s) /\ job[s].op = {}
          BY <1>1, <4>2, <4>3 DEF FactInv, Awaits, Unasked, TaskInv
        <5>2. NoReceipt(down'[s]) /\ NoReceipt(outbound'[s].control)
          <6>1. down[s] \in Seq(Sent) /\ Telemetry \in Sent
            BY <1>1, Members, Kinds
          <6> QED BY <2>1, <4>2, <5>1, <6>1, Receipts DEF Unasked
        <5> QED BY <2>1, <5>1, <5>2 DEF InOrder, Behind, NoReceipt
      <4>4. CASE ui[c].phase = "ready"
        <5>1. PICK H : H = ui[c].heard
          OBVIOUS
        <5>2. H \in SUBSET Versions /\ Reads(c, s)
          BY <1>1, <4>2, <4>4, <5>1, UiMembers DEF Reads
        <5>3. InOrder(s, H)
          BY <4>2, <5>1, <5>2 DEF FactInv
        <5>4. H \subseteq K /\ (Head(down[s]).t = "Delta" => Head(down[s]).op.ver \in K)
          BY <4>2, <4>4, <5>1
        <5> QED BY <1>1, <2>1, <4>2, <5>3, <5>4, HearingKept
      <4> QED BY <4>2, <4>3, <4>4
    <3> QED BY <3>1, <3>2
  <2> QED BY <2>2, <2>3, <2>4 DEF FactInv
<1>4. CASE UNCHANGED vars
  BY <1>4 DEF vars, FactInv, Early, Awaits, Unasked, NoReceipt, Reads, InOrder, Behind
<1> QED BY <1>2, <1>3, <1>4 DEF Next, DaemonSide

-----------------------------------------------------------------------------
(* Nothing is missed                                                       *)

LEMMA Piped ==
    \A s : Facts(Pipe(s)) = Facts(Contents(down[s])) \cup Facts(Contents(outbound[s].control))
  BY FactsUnion DEF Pipe

\* What is owed to a connection in the list is owed still, or queued for it.
LEMMA OwedKept ==
    ASSUME TypeInv, TaskInv, JobsMove, NEW s \in Conns, Evolves(s),
           pc[s] \in Listed, pc'[s] \in Listed, ~ outbound'[s].closed
    PROVE  /\ Owed(s) \subseteq Owed(s)' \cup Facts(Contents(outbound'[s].control))
           /\ version' # version => version' = version + 1 /\ version + 1 \in Owed(s)'
<1>1. s \in clients /\ pc[s] # "ended" /\ ~ outbound[s].closed
  <2>1. pc[s] # "ended" /\ ~ Ends(s) /\ s \in clients
    BY DEF TaskInv, Ends, Listed, Pumped
  <2>2. \A m : Takes(s, m) /\ outbound[s].closed => outbound'[s].closed
    BY DEF Takes, Pushed
  <2> QED BY <2>1, <2>2 DEF Evolves, Stays, Sends, Shuts
<1> DEFINE Owes(t, v) == /\ s \in job[t].to \/ ~ job[t].listed
                         /\ \E op \in job[t].op : op.ver = v
           OwesStill(t, v) == /\ s \in job'[t].to \/ ~ job'[t].listed
                              /\ \E op \in job'[t].op : op.ver = v
<1>2. ASSUME NEW t \in Tasks, NEW v, Owes(t, v)
      PROVE  OwesStill(t, v) \/ v \in Facts(Contents(outbound'[s].control))
  <2>1. CASE job'[t] = job[t]
    BY <1>2, <2>1
  <2>2. CASE Lists(t)
    BY <1>1, <1>2, <2>2 DEF Lists
  <2>3. ASSUME NEW r \in Conns, TellsOne(t, r)
        PROVE  OwesStill(t, v) \/ v \in Facts(Contents(outbound'[s].control))
    <3>1. PICK op \in job[t].op :
            /\ job'[t].op = {op} /\ job[t].op = {op} /\ job'[t].listed = job[t].listed
            /\ job'[t].to = job[t].to \ {r} /\ Pushed(r, Delta(op))
      BY <2>3 DEF TellsOne
    <3>2. op.ver = v
      BY <1>2, <3>1
    <3>3. CASE r # s
      BY <1>2, <3>1, <3>3
    <3>4. CASE r = s
      <4>1. Delta(op) \in Queued /\ Delta(op) \in Sent /\ Delta(op).t = "Delta" /\ Delta(op).op = op
        <5>1. op \in Ops
          BY <3>1, JobMembers
        <5> QED BY <5>1, Kinds
      <4>2. outbound'[s].control = Append(outbound[s].control, Delta(op))
        BY <1>1, <3>1, <3>4, <4>1, Kinds DEF Pushed
      <4>3. Contents(outbound'[s].control) = Contents(outbound[s].control) \cup {Delta(op)}
        BY <4>1, <4>2, Members, AppendContents
      <4> QED BY <3>2, <4>1, <4>3 DEF Facts
    <3> QED BY <3>3, <3>4
  <2>4. PICK u \in Tasks : Edits(u) \/ Lists(u) \/ ToldAll(u) \/ (\E r \in Conns : TellsOne(u, r))
                           \/ job'[t] = job[t]
    BY DEF JobsMove, Leaves, Listed, Pumped
  <2>5. u = t \/ job'[t] = job[t]
    BY <2>4 DEF Edits, Lists, ToldAll, TellsOne, OthersKeep
  <2> QED BY <1>2, <2>1, <2>2, <2>3, <2>4, <2>5 DEF Edits, ToldAll
<1>3. Owed(s) \subseteq Owed(s)' \cup Facts(Contents(outbound'[s].control))
  BY <1>2 DEF Owed
<1>4. ASSUME version' # version PROVE version' = version + 1 /\ version + 1 \in Owed(s)'
  <2>1. PICK t \in Tasks : Edits(t)
    BY <1>4 DEF JobsMove, Lists, ToldAll, TellsOne, Leaves
  <2>2. PICK op \in Ops : /\ op.ver = version + 1 /\ version' = version + 1
                          /\ job'[t].op = {op} /\ ~ job'[t].listed
    BY <2>1 DEF Edits
  <2>3. version + 1 \in Versions
    BY <2>2 DEF Ops
  <2> QED BY <2>2, <2>3 DEF Owed
<1> QED BY <1>3, <1>4

\* What covers a connection in the list goes on covering it.
LEMMA CoverKept ==
    ASSUME TypeInv, TaskInv, JobsMove, NEW s \in Conns, Evolves(s),
           pc[s] \in Listed, pc'[s] \in Listed, ~ outbound'[s].closed,
           NEW b \in Versions, NEW K, Covers(s, b, K)
    PROVE  Covers(s, b, K)'
<1> DEFINE All == K \cup Facts(Contents(down[s])) \cup Facts(Contents(outbound[s].control)) \cup Owed(s)
           Then == K \cup Facts(Contents(down'[s])) \cup Facts(Contents(outbound'[s].control))
                     \cup Owed(s)'
<1>1. Known(s, K) \subseteq Known(s, K)'
  BY KnownKept DEF Listed, Pumped
<1>2. All \subseteq Then
  BY <1>1, OwedKept DEF Known
<1>3. /\ \A v \in Versions : b < v /\ v <= version => v \in All
      /\ Coming(s)' \cup K = Then
  <2>1. Coming(s) \cup K = All
    BY Piped DEF Coming
  <2>2. Coming(s)' \cup K = Then
    <3>1. Facts(Pipe(s))' = Facts(Contents(down'[s])) \cup Facts(Contents(outbound'[s].control))
      BY FactsUnion DEF Pipe
    <3> QED BY <3>1 DEF Coming
  <2> HIDE DEF All, Then
  <2> QED BY <2>1, <2>2 DEF Covers
<1>4. version' # version => version' = version + 1 /\ version + 1 \in Then
  BY OwedKept
<1>5. version \in Nat /\ Versions \subseteq Nat
  BY Constants DEF TypeInv, DeskTyped
<1> HIDE DEF All, Then
<1>6. \A v \in Versions : b < v /\ v <= version' => v \in Then
  BY <1>2, <1>3, <1>4, <1>5
<1> QED BY <1>3, <1>6 DEF Covers

\* A snapshot in a connection's queues was there before, or was just queued.
LEMMA PipeKept ==
    ASSUME TypeInv, TaskInv, NEW s \in Conns, Evolves(s), pc'[s] \in Pumped, ~ outbound'[s].closed,
           EarlyAt(s), NEW m, m \in Pipe(s)', m.t = "Snapshot"
    PROVE  \/ pc[s] \in Pumped /\ m \in Pipe(s)
           \/ pc[s] = "snapshot" /\ m = Snapshot(taken[s])
<1>1. outbound[s].control \in Seq(Sent) /\ outbound[s].control \in Seq(Queued)
      /\ down[s] \in Seq(Sent)
  BY Members
<1>2. m \in Contents(down'[s]) \cup Contents(outbound'[s].control)
  BY DEF Pipe
<1>3. ASSUME NEW p \in Sent, Takes(s, p)
      PROVE  m \in Pipe(s) \cup {p}
  <2>1. down'[s] = down[s] /\ \/ outbound'[s].control = outbound[s].control
                              \/ outbound'[s].control = Append(outbound[s].control, p)
    BY <1>3 DEF Takes, Pushed
  <2>2. Contents(Append(outbound[s].control, p)) = Contents(outbound[s].control) \cup {p}
    BY <1>1, <1>3, AppendContents
  <2> QED BY <1>2, <2>1, <2>2 DEF Pipe
<1>4. pc[s] = "snapshot" => m \notin Pipe(s)
  <2>1. ASSUME pc[s] = "snapshot" PROVE down[s] = << >> /\ Early(outbound[s].control)
    BY <2>1 DEF TaskInv, Pumped, EarlyAt
  <2> QED BY <2>1, EmptyContents DEF Pipe, Early, Contents
<1>5. CASE PlaceKept(s) /\ (Stays(s) \/ Sends(s) \/ Shuts(s) \/ \E p \in Plain : Takes(s, p))
  <2>1. pc[s] \in Pumped
    BY <1>5 DEF PlaceKept, Pumped
  <2>2. CASE Stays(s)
    BY <1>2, <2>1, <2>2 DEF Stays, Pipe
  <2>3. CASE \E p \in Plain : Takes(s, p)
    BY <1>3, <2>1, <2>3 DEF Plain
  <2>4. CASE Sends(s)
    <3>1. PICK p \in Sent :
            /\ down'[s] = Append(down[s], p)
            /\ \/ /\ outbound[s].control # << >> /\ p = Head(outbound[s].control)
                  /\ outbound'[s].control = Tail(outbound[s].control)
               \/ /\ outbound[s].control = << >> /\ outbound'[s].control = << >>
                  /\ p = Telemetry
      BY <2>4 DEF Sends
    <3>2. Contents(down'[s]) = Contents(down[s]) \cup {p}
      BY <1>1, <3>1, AppendContents
    <3>3. CASE outbound[s].control # << >>
      <4>1. Contents(outbound[s].control) = Contents(outbound'[s].control) \cup {p}
        BY <1>1, <3>1, <3>3, TailContents
      <4> QED BY <1>2, <2>1, <3>2, <4>1 DEF Pipe
    <3>4. CASE outbound[s].control = << >>
      <4>1. p.t # "Snapshot" /\ Contents(outbound'[s].control) = {}
        BY <3>1, <3>4, Kinds, EmptyContents
      <4> QED BY <1>2, <2>1, <3>2, <4>1 DEF Pipe
    <3> QED BY <3>3, <3>4
  <2> QED BY <1>5, <2>2, <2>3, <2>4 DEF Shuts
<1>6. CASE pc[s] = "snapshot" /\ Takes(s, Snapshot(taken[s]))
  <2>1. Snapshot(taken[s]) \in Sent
    BY Members DEF Snapshot, Sent, Queued
  <2> QED BY <1>3, <1>4, <1>6, <2>1
<1>7. CASE pc[s] = "tell" /\ \E op \in job[s].op : Takes(s, Ack(op.ver))
  <2>1. PICK op \in job[s].op : Takes(s, Ack(op.ver))
    BY <1>7
  <2>2. Ack(op.ver) \in Sent /\ Ack(op.ver).t # "Snapshot"
    BY <2>1, Members, JobMembers DEF Ack
  <2> QED BY <1>3, <1>7, <2>1, <2>2 DEF Pumped
<1> QED BY <1>5, <1>6, <1>7 DEF Evolves, Ends, Pumped

LEMMA CoverStep ==
    ASSUME WireInv, WireInv', FactInv, CoverInv, [Next]_vars
    PROVE  CoverInv'
<1>1. /\ TypeInv /\ TaskInv /\ TaskInv' /\ SocketInv /\ left \subseteq Conns /\ NoConn \notin Conns
      /\ Versions \subseteq Nat /\ version \in Nat
  BY Constants DEF WireInv, TypeInv, DeskTyped
<1>2. CASE DaemonSide
  <2>1. ui' = ui /\ left \subseteq left' /\ JobsMove /\ \A s \in Conns \ left' : Evolves(s)
    BY <1>1, <1>2, DaemonOnward, DaemonEvolves, JobsEvolve
  <2> SUFFICES ASSUME NEW c \in Clients, NEW s \in Conns \ left', NEW b \in Versions,
                      NEW K \in SUBSET Versions, ~ outbound'[s].closed
               PROVE  /\ HasTaken(c, s, b)' \/ HasQueued(c, s, b)' => Covers(s, b, {})'
                      /\ Since(c, s, b, K)' => Covers(s, b, K)'
    BY DEF CoverInv
  <2>2. /\ s \in Conns \ left /\ Evolves(s)
        /\ Awaits(c, s)' <=> Awaits(c, s)
        /\ ui'[c].base = ui[c].base /\ ui'[c].heard = ui[c].heard /\ (Reads(c, s)' <=> Reads(c, s))
    BY <2>1 DEF Awaits, Reads
  <2>3. pc'[s] \in Listed => pc[s] # "ended" /\ ~ outbound[s].closed
    <3>1. \A m : Takes(s, m) /\ outbound[s].closed => outbound'[s].closed
      BY DEF Takes, Pushed
    <3> QED BY <2>2, <3>1 DEF Evolves, PlaceKept, Ends, Stays, Sends, Shuts, Listed, Pumped
  <2>4. ASSUME NEW H, pc[s] \in Listed, pc'[s] \in Listed, Covers(s, b, H) PROVE Covers(s, b, H)'
    BY <1>1, <2>1, <2>2, <2>4, CoverKept
  <2>5. ASSUME HasTaken(c, s, b)' PROVE Covers(s, b, {})'
    <3>0. Awaits(c, s) /\ pc'[s] = "snapshot" /\ taken'[s].ver = b
      BY <2>2, <2>5 DEF HasTaken
    <3>1. \/ pc[s] = "snapshot" /\ taken[s].ver = b
          \/ b = version /\ version' = version
      BY <2>2, <3>0 DEF Evolves, PlaceKept, Ends, Pumped
    <3>2. CASE pc[s] = "snapshot" /\ taken[s].ver = b
      BY <2>2, <2>3, <2>4, <3>0, <3>2 DEF CoverInv, HasTaken, Listed
    <3>3. CASE b = version /\ version' = version
      <4>1. \A v \in Versions : ~ (b < v /\ v <= version')
        BY <1>1, <3>3
      <4> QED BY <4>1 DEF Covers
    <3> QED BY <3>1, <3>2, <3>3
  <2>6. ASSUME HasQueued(c, s, b)' PROVE Covers(s, b, {})'
    <3>0. PICK m \in Pipe(s)' : /\ m.t = "Snapshot" /\ m.ver = b
                                /\ Awaits(c, s) /\ pc'[s] \in Pumped
      BY <2>2, <2>6 DEF HasQueued
    <3>1. EarlyAt(s)
      BY <2>2 DEF FactInv, EarlyAt
    <3>2. \/ pc[s] \in Pumped /\ m \in Pipe(s)
          \/ pc[s] = "snapshot" /\ m = Snapshot(taken[s])
      BY <1>1, <2>2, <3>0, <3>1, PipeKept
    <3>3. m = Snapshot(taken[s]) => taken[s].ver = b
      BY <3>0 DEF Snapshot
    <3>4. Covers(s, b, {})
      BY <2>2, <2>3, <3>0, <3>2, <3>3 DEF CoverInv, HasTaken, HasQueued, Listed
    <3> QED BY <2>4, <3>0, <3>2, <3>4 DEF Listed
  <2>7. ASSUME Since(c, s, b, K)' PROVE Covers(s, b, K)'
    <3>1. /\ pc'[s] \in Pumped /\ Reads(c, s) /\ ui[c].base = b /\ ui[c].heard = K
      BY <2>2, <2>7 DEF Since
    <3>2. pc[s] \in Pumped \cup {"ended"}
      BY <1>1, <3>1 DEF SocketInv, Reads
    <3>3. pc[s] \in Pumped /\ ~ outbound[s].closed
      BY <2>3, <3>1, <3>2 DEF Listed
    <3>4. Covers(s, b, K)
      BY <2>2, <3>1, <3>3 DEF CoverInv, Since
    <3> QED BY <2>4, <3>1, <3>3, <3>4 DEF Listed
  <2> QED BY <2>5, <2>6, <2>7
<1>3. ASSUME NEW c \in Clients, Timers(c) \/ OnMessage(c) \/ Start(c) \/ Stop(c)
      PROVE  CoverInv'
  <2>1. ClientDid(c) /\ UNCHANGED <<outbound, job, taken, version>>
    BY <1>3, ClientDoes DEF ClientDid, serverVars
  <2> SUFFICES ASSUME NEW d \in Clients, NEW s \in Conns \ left', NEW b \in Versions,
                      NEW K \in SUBSET Versions, ~ outbound'[s].closed
               PROVE  /\ HasTaken(d, s, b)' \/ HasQueued(d, s, b)' => Covers(s, b, {})'
                      /\ Since(d, s, b, K)' => Covers(s, b, K)'
    BY DEF CoverInv
  <2>2. Owed(s)' = Owed(s)
    BY <2>1 DEF Owed
  <2>3. CASE d # c
    <3>1. ASSUME (Awaits(d, s) \/ Reads(d, s))'
          PROVE  /\ HasTaken(d, s, b)' <=> HasTaken(d, s, b)
                 /\ HasQueued(d, s, b)' <=> HasQueued(d, s, b)
                 /\ Since(d, s, b, K)' <=> Since(d, s, b, K)
                 /\ \A H : Covers(s, b, H)' <=> Covers(s, b, H)
                 /\ s \notin left
      <4>1. /\ s \notin left /\ pc'[s] = pc[s] /\ down'[s] = down[s] /\ ui'[d] = ui[d]
            /\ Awaits(d, s)' <=> Awaits(d, s)
            /\ Reads(d, s)' <=> Reads(d, s)
        BY <2>1, <2>3, <3>1, Others
      <4>2. Pipe(s)' = Pipe(s)
        BY <2>1, <4>1 DEF Pipe
      <4> QED BY <2>1, <2>2, <4>1, <4>2 DEF HasTaken, HasQueued, Since, Covers, Coming
    <3>2. /\ HasTaken(d, s, b)' \/ HasQueued(d, s, b)' => Awaits(d, s)'
          /\ Since(d, s, b, K)' => Reads(d, s)'
      BY DEF HasTaken, HasQueued, Since
    <3> QED BY <2>1, <3>1, <3>2 DEF CoverInv
  <2>4. CASE d = c
    <3>1. ASSUME HasTaken(c, s, b)' \/ HasQueued(c, s, b)' PROVE FALSE
      <4>1. Awaits(c, s)' /\ pc'[s] \in {"snapshot"} \cup Pumped
        BY <3>1 DEF HasTaken, HasQueued
      <4>2. Says(c)
        BY <1>1, <2>1, <4>1 DEF ClientDid, Opens, Hears, Drops, Awaits
      <4> QED BY <1>1, <4>1, <4>2 DEF Says, Awaits, Pumped, TypeInv, LinkTyped
    <3>2. ASSUME Since(c, s, b, K)' PROVE Covers(s, b, K)'
      <4>1. Hears(c)
        BY <1>1, <2>1, <3>2 DEF ClientDid, Opens, Says, Drops, Since, Reads
      <4>2. PICK m \in Sent :
              /\ s \notin left /\ ui[c].socket = s /\ down[s] # << >> /\ m = Head(down[s])
              /\ down'[s] = Tail(down[s]) /\ pc'[s] = pc[s]
              /\ \/ /\ ui[c].phase = "waiting-for-snapshot"
                    /\ m.t = "Snapshot" /\ b = m.ver /\ K = {}
                 \/ /\ ui[c].phase = "ready" /\ ui[c].base = b
                    /\ m.t = "Delta" => K = ui[c].heard \cup {m.op.ver}
                    /\ m.t # "Delta" => K = ui[c].heard
        BY <1>1, <3>2, <4>1 DEF Hears, Since, Reads, TypeInv, LinkTyped
      <4>3. Contents(down[s]) = Contents(down'[s]) \cup {m} /\ m \in Pipe(s)
        BY <1>1, <4>2, Members, TailContents DEF Pipe
      <4>4. Facts(Pipe(s)) = Facts(Pipe(s)') \cup Facts({m})
        <5>1. Pipe(s) = Pipe(s)' \cup {m}
          BY <2>1, <4>3 DEF Pipe
        <5> QED BY <5>1, FactsUnion
      <4>5. Facts(Pipe(s))' = Facts(Pipe(s)')
        BY DEF Facts
      <4>6. m.t = "Delta" => Facts({m}) = {m.op.ver}
        BY DEF Facts
      <4>7. m.t # "Delta" => Facts({m}) = {}
        BY DEF Facts
      <4>8. PICK H \in SUBSET Versions :
              /\ H \cup Facts(Pipe(s)) \subseteq K \cup Facts(Pipe(s))'
              /\ Covers(s, b, H)
        <5>1. CASE ui[c].phase = "waiting-for-snapshot"
          <6>1. m.t = "Snapshot" /\ b = m.ver /\ K = {}
            BY <4>2, <5>1
          <6>2. Covers(s, b, {})
            BY <2>1, <3>2, <4>2, <4>3, <5>1, <6>1 DEF CoverInv, HasQueued, Awaits, Since
          <6>3. Facts(Pipe(s)) \subseteq Facts(Pipe(s))'
            BY <4>4, <4>5, <4>7, <6>1
          <6> QED BY <6>2, <6>3
        <5>2. CASE ui[c].phase = "ready"
          <6>1. PICK H \in SUBSET Versions : H = ui[c].heard
            BY <1>1, UiMembers
          <6>2. Since(c, s, b, H)
            BY <3>2, <4>2, <5>2, <6>1 DEF Since, Reads
          <6>3. Covers(s, b, H)
            BY <2>1, <3>2, <4>2, <6>2 DEF CoverInv
          <6>4. H \cup Facts(Pipe(s)) \subseteq K \cup Facts(Pipe(s))'
            BY <4>2, <4>4, <4>5, <4>6, <4>7, <5>2, <6>1
          <6> QED BY <6>3, <6>4
        <5> QED BY <4>2, <5>1, <5>2
      <4>9. \A v \in Versions : b < v /\ v <= version => v \in H \cup Facts(Pipe(s)) \cup Owed(s)
        BY <4>8 DEF Covers, Coming
      <4>10. \A v \in Versions : b < v /\ v <= version' => v \in K \cup Coming(s)'
        BY <2>1, <2>2, <4>8, <4>9 DEF Coming
      <4> QED BY <4>10 DEF Covers
    <3> QED BY <2>4, <3>1, <3>2
  <2> QED BY <2>3, <2>4
<1>4. CASE UNCHANGED vars
  BY <1>4 DEF vars, CoverInv, HasTaken, HasQueued, Awaits, Since, Reads, Covers, Coming, Pipe, Owed
<1> QED BY <1>2, <1>3, <1>4 DEF Next, DaemonSide

-----------------------------------------------------------------------------
LinkInv == WireInv /\ AnswerInv /\ FactInv /\ CoverInv

LEMMA LinkInit == Init => LinkInv
<1> SUFFICES ASSUME Init PROVE LinkInv
  OBVIOUS
<1>1. WireInv
  BY TypeInit, PlacesInit DEF WireInv
<1>2. \A s \in Conns : down[s] = << >> /\ outbound[s] = EmptyOutbound /\ pc[s] = "none"
  BY DEF Init
<1>3. \A c \in Clients : ui[c].phase = "idle"
  BY DEF Init, Idle
<1>4. \A s \in Conns : outbound[s].control = << >> /\ ~ outbound[s].closed
  BY <1>2 DEF EmptyOutbound
<1>5. AnswerInv
  BY <1>2, <1>3, <1>4 DEF AnswerInv, HasLast, Awaits, Init
<1>6. FactInv
  BY <1>3, <1>4 DEF FactInv, Early, Awaits, Reads
<1>7. CoverInv
  BY <1>3 DEF CoverInv, HasTaken, HasQueued, Awaits, Since, Reads
<1> QED BY <1>1, <1>5, <1>6, <1>7 DEF LinkInv

LEMMA LinkStep == LinkInv /\ [Next]_vars => LinkInv'
  BY WireStep, AnswerStep, FactStep, CoverStep DEF LinkInv

\* Receipts come after their facts, the handshake is not answered by a picture,
\* and every queue keeps to its bound.
LEMMA LinkOrdered == LinkInv => ArrivesInOrder
<1> SUFFICES ASSUME LinkInv PROVE TypeOK /\ FactBeforeReceipt /\ NoPictureFirst
  BY DEF ArrivesInOrder
<1>1. /\ TypeInv /\ TaskInv /\ SocketInv /\ AnswerInv /\ FactInv /\ NoConn \notin Conns
      /\ version \in Nat /\ MaxVersion \in Nat
  BY Constants DEF LinkInv, WireInv, TypeInv, DeskTyped
<1>2. TypeOK
  <2>1. version \in Versions
    <3>1. Asking(up) \in Nat /\ version + Asking(up) <= MaxVersion
      BY AskingIsNatural, <1>1 DEF TypeInv, DeskTyped, LinkTyped
    <3> QED BY <1>1, <3>1 DEF Versions
  <2>2. Sent \subseteq Messages
    BY DEF Sent, Queued, Reasons, Messages
  <2>3. ASSUME NEW s \in Conns
        PROVE  /\ Len(outbound[s].control) <= ControlQueue
               /\ \A i \in 1 .. Len(outbound[s].control) : outbound[s].control[i] \in Messages
               /\ Len(down[s]) <= WireRoom
               /\ \A i \in 1 .. Len(down[s]) : down[s][i] \in Messages
               /\ s \in clients => pc[s] \in {"entered", "snapshot", "look", "select", "tell", "closing"}
    <3>1. outbound[s].control \in Seq(Sent) /\ down[s] \in Seq(Sent)
      BY <1>1, Members
    <3>2. Len(outbound[s].control) <= ControlQueue /\ Len(down[s]) <= WireRoom
      BY <1>1 DEF TypeInv, LinkTyped, OutTyped
    <3>3. s \in clients => pc[s] \in {"entered", "snapshot", "look", "select", "tell", "closing"}
      BY <1>1 DEF TaskInv, Listed, Pumped
    <3>4. /\ \A i \in 1 .. Len(outbound[s].control) : outbound[s].control[i] \in Sent
          /\ \A i \in 1 .. Len(down[s]) : down[s][i] \in Sent
      BY <3>1
    <3> QED BY <2>2, <3>2, <3>3, <3>4
  <2>4. ASSUME NEW c \in Clients
        PROVE  /\ ui[c].phase \in {"idle", "opening", "waiting-for-snapshot", "ready"}
               /\ ui[c].mirror \in Docs /\ ui[c].heard \subseteq Versions
    BY <1>1, UiMembers DEF Phases
  <2> QED BY <1>1, <2>1, <2>3, <2>4 DEF TypeOK, TypeInv, DeskTyped
<1>3. FactBeforeReceipt
  <2> SUFFICES ASSUME NEW c \in Clients, NEW s, s = ui[c].socket, ui[c].phase = "ready",
                      down[s] # << >>, Head(down[s]).t = "Ack"
               PROVE  Head(down[s]).ver \in ui[c].heard \cup 0 .. ui[c].base
    BY DEF FactBeforeReceipt
  <2>1. s \in Conns \ left
    <3>1. s \in Conns
      BY <1>1, UiMembers DEF SocketInv, Phases
    <3> QED BY <1>1, <3>1 DEF AnswerInv
  <2>2. PICK K \in SUBSET Versions : K = ui[c].heard
    BY <1>1, UiMembers
  <2>3. Behind(down[s], K)
    BY <1>1, <2>1, <2>2 DEF FactInv, Reads, InOrder
  <2>4. down[s] \in Seq(Sent) /\ 1 \in DOMAIN down[s] /\ Head(down[s]) = down[s][1]
        /\ \A j \in DOMAIN down[s] : ~ (j < 1)
    <3>1. down[s] \in Seq(Sent)
      BY <1>1, <2>1, Members
    <3> QED BY <3>1
  <2> QED BY <2>2, <2>3, <2>4 DEF Behind
<1>4. NoPictureFirst
  <2> SUFFICES ASSUME NEW c \in Clients, NEW s, s = ui[c].socket,
                      ui[c].phase = "waiting-for-snapshot", down[s] # << >>
               PROVE  Head(down[s]).t # "Telemetry"
    BY DEF NoPictureFirst
  <2>1. s \in Conns \ left
    <3>1. s \in Conns
      BY <1>1, UiMembers DEF SocketInv, Phases
    <3> QED BY <1>1, <3>1 DEF AnswerInv
  <2>2. down[s][1] # Telemetry
    BY <1>1, <2>1 DEF AnswerInv, Awaits, Answering
  <2>3. Head(down[s]) = down[s][1] /\ Head(down[s]) \in Sent
    BY <1>1, <2>1, Members, TailContents
  <2> QED BY <2>2, <2>3, Kinds
<1> QED BY <1>2, <1>3, <1>4

\* A client that has read what there is to read was told of every edit.
LEMMA LinkMissesNothing == LinkInv => NothingIsMissed
<1> SUFFICES ASSUME LinkInv, NEW c \in Clients, Caught(c),
                    NEW v \in (ui[c].base + 1) .. version
             PROVE  v \in ui[c].heard
  BY DEF NothingIsMissed
<1>1. /\ TypeInv /\ SocketInv /\ CoverInv /\ NoConn \notin Conns /\ Versions \subseteq Nat
      /\ version \in Nat /\ MaxVersion \in Nat
  BY Constants DEF LinkInv, WireInv, TypeInv, DeskTyped
<1>2. PICK s \in Conns \ left, b \in Versions, K \in SUBSET Versions :
        Since(c, s, b, K) /\ pc[s] \in Pumped /\ ~ outbound[s].closed
        /\ outbound[s].control = << >> /\ down[s] = << >>
  <2>1. ui[c].socket \in Conns \ left /\ ui[c].base \in Versions /\ ui[c].heard \in SUBSET Versions
    BY <1>1, UiMembers DEF Caught, SocketInv, Phases
  <2> QED BY <2>1 DEF Caught, Since, Reads, EmptyOutbound, Pumped
<1>3. Covers(s, b, K)
  BY <1>1, <1>2 DEF CoverInv
<1>4. Coming(s) = {}
  <2>1. \A t \in Tasks : job[t].op = {}
    BY DEF Caught, AllTold, NoJob
  <2>2. Pipe(s) = {}
    BY <1>2, EmptyContents DEF Pipe
  <2> QED BY <2>1, <2>2, FactsAdd DEF Coming, Owed
<1>5. v \in Versions /\ b < v /\ v <= version /\ K = ui[c].heard
  <2>1. Asking(up) \in Nat /\ version + Asking(up) <= MaxVersion
    BY AskingIsNatural, <1>1 DEF TypeInv, DeskTyped, LinkTyped
  <2>2. ui[c].base = b /\ K = ui[c].heard /\ b \in Nat
    BY <1>1, <1>2 DEF Since
  <2>3. v \in Nat /\ b < v /\ v <= version
    BY <1>1, <2>2
  <2> QED BY <1>1, <2>1, <2>2, <2>3 DEF Versions
<1> QED BY <1>3, <1>4, <1>5 DEF Covers

\* A client reads a receipt after the fact it is the receipt of, and no picture
\* before its snapshot; no queue outgrows its limit (Outbound, pump, Wire).
THEOREM FactsComeFirst == Spec => []ArrivesInOrder
<1>1. Init => LinkInv
  BY LinkInit
<1>2. LinkInv /\ [Next]_vars => LinkInv'
  BY LinkStep
<1>3. LinkInv => ArrivesInOrder
  BY LinkOrdered
<1> QED BY <1>1, <1>2, <1>3, PTL DEF Spec

\* Whatever joins, leaves or falls behind, a client that is connected and has
\* read its queues was told of every edit since its snapshot (serve, broadcast).
THEOREM EveryEditIsHeard == Spec => []NothingIsMissed
<1>1. Init => LinkInv
  BY LinkInit
<1>2. LinkInv /\ [Next]_vars => LinkInv'
  BY LinkStep
<1>3. LinkInv => NothingIsMissed
  BY LinkMissesNothing
<1> QED BY <1>1, <1>2, <1>3, PTL DEF Spec

==============================================================================
