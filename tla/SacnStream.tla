------------------------------ MODULE SacnStream ------------------------------
(***************************************************************************)
(* One universe of an sACN output and the gateways that listen to it        *)
(* (prism-protocols sacn.rs): the numbers its packets carry, the keep-alive *)
(* that holds a gateway, and the packets that say goodbye.                  *)
(*                                                                         *)
(* A step is one cadence of the output's thread, or one goodbye.  A frame   *)
(* is told apart only by whether it is the one sent last.  The gateways are *)
(* external: they follow E1.31.                                             *)
(***************************************************************************)
EXTENDS Integers

CONSTANTS
    Gateways,   \* the receivers
    Numbers,    \* how many sequence numbers there are: 2^8
    Window,     \* E1.31: how far back a number counts as old, 20
    Goodbyes,   \* TERMINATION_PACKETS
    KeepAlive,  \* refresh_interval less its margin, in cadences
    Loss        \* E1.31: network data loss, 2.5 seconds, in cadences

ASSUME StreamAssumption ==
    /\ {Numbers, Window, Goodbyes, KeepAlive, Loss} \subseteq Nat \ {0}
    /\ 2 * KeepAlive <= Loss
    /\ Loss + Goodbyes + Window < Numbers

VARIABLES
    stream,     \* UniverseStream, its output's socket, and its shutdown
    seen,       \* what each gateway knows of this source
    known,      \* history: a datagram went to every address since the socket is open
    missed      \* history: the goodbyes that did not reach a gateway

streamVars == <<stream, seen, known, missed>>

Unsent == -1

\* UniverseStream::new, in an output that is not connected
NewStream == [sequence |-> 0, age |-> Unsent, streaming |-> FALSE, open |-> FALSE,
              at |-> "running", left |-> Goodbyes]

\* advance_sequence: a byte that wraps to zero
Advanced(n) == IF n + 1 = Numbers THEN 0 ELSE n + 1

\* How far a number is ahead of another, round the wrap
Behind(n, m) == IF n >= m THEN n - m ELSE n + Numbers - m

\* A packet that is not old (E1.31, 6.7.2)
Newer(n, m) == Behind(n, m) \in 1 .. Numbers - Window

\* A source a gateway does not follow
Forgotten == [on |-> FALSE, number |-> 0, quiet |-> 0, mine |-> FALSE, smooth |-> FALSE]

\* A gateway takes the first packet of a source, and then the newer ones
Takes(g, n) == seen[g].on => Newer(n, seen[g].number)

\* What a cadence without a packet makes of a gateway
Quieter(g) == IF seen[g].on /\ seen[g].quiet < Loss
              THEN [seen[g] EXCEPT !.quiet = @ + 1] ELSE Forgotten

\* What a cadence makes of the gateways when packet n reaches those in got
Heard(n, got) ==
    [g \in Gateways |->
        IF g \in got /\ Takes(g, n)
        THEN [on |-> TRUE, number |-> n, quiet |-> 0, mine |-> TRUE, smooth |-> TRUE]
        ELSE Quieter(g)]

\* A cadence in which the output was not at its work
Unheard == [g \in Gateways |-> [Quieter(g) EXCEPT !.smooth = FALSE]]
------------------------------------------------------------------------------
(* sacn.rs and the step of its thread. *)

\* Mutant of IsDue: the keep-alive waits out its interval.
IsDueLate(same) == stream.age = Unsent \/ ~same \/ stream.age >= KeepAlive

\* is_due, and whether the frame is the one that was sent last
IsDue(same) == stream.age = Unsent \/ ~same \/ stream.age + 1 >= KeepAlive

Later == IF stream.age \in {Unsent, KeepAlive} THEN stream.age ELSE stream.age + 1
Sending == stream.at = "running" /\ stream.open

\* connect: the socket is open, and nothing has been sent through it
StreamConnect ==
    /\ stream.at = "running" /\ ~stream.open
    /\ stream' = [stream EXCEPT !.open = TRUE, !.age = Unsent, !.streaming = FALSE]
    /\ seen' = Unheard /\ known' = FALSE
    /\ UNCHANGED missed

\* send_frame, when nothing has to go out
FrameHeld ==
    /\ Sending /\ ~IsDue(TRUE)
    /\ stream' = [stream EXCEPT !.age = Later]
    /\ seen' = Heard(stream.sequence, {})
    /\ UNCHANGED <<known, missed>>

\* Mutant of SendFrame: a number is spent only on a packet that went out.
SendFrameCounted ==
    /\ Sending /\ \E same \in BOOLEAN : IsDue(same)
    /\ \E got \in SUBSET Gateways :
         /\ seen' = Heard(stream.sequence, got)
         /\ \/ /\ stream' = [stream EXCEPT !.sequence = Advanced(@), !.age = 0, !.streaming = TRUE]
               /\ known' = TRUE
            \/ /\ got # Gateways
               /\ stream' = [stream EXCEPT !.age = Later]
               /\ UNCHANGED known
    /\ UNCHANGED missed

\* Mutant of SendFrame: a refused packet ends the stream.
SendFrameEnds ==
    /\ Sending /\ \E same \in BOOLEAN : IsDue(same)
    /\ \E got \in SUBSET Gateways :
         /\ seen' = Heard(stream.sequence, got)
         /\ \/ /\ stream' = [stream EXCEPT !.sequence = Advanced(@), !.age = 0, !.streaming = TRUE]
               /\ known' = TRUE
            \/ /\ got # Gateways
               /\ stream' = [stream EXCEPT !.sequence = Advanced(@), !.age = Later, !.streaming = FALSE]
               /\ UNCHANGED known
    /\ UNCHANGED missed

\* send_frame: the number is spent whatever becomes of the packet; every
\* address takes it, one refuses it, or the link is lost.  What leaves the
\* socket may be lost on the way.
SendFrame ==
    /\ Sending /\ \E same \in BOOLEAN : IsDue(same)
    /\ \E got \in SUBSET Gateways :
         /\ seen' = Heard(stream.sequence, got)
         /\ \/ /\ stream' = [stream EXCEPT !.sequence = Advanced(@), !.age = 0, !.streaming = TRUE]
               /\ known' = TRUE
            \/ /\ got # Gateways
               /\ stream' = [stream EXCEPT !.sequence = Advanced(@), !.age = Later]
               /\ UNCHANGED known
            \/ /\ got # Gateways
               /\ stream' = [stream EXCEPT !.sequence = Advanced(@), !.age = Later,
                                  !.open = FALSE, !.streaming = FALSE]
               /\ known' = FALSE
    /\ UNCHANGED missed

\* A cadence in which nothing is sent: the frame panics, the thread waits to
\* reconnect or does not succeed, or it has ended.
Lapse ==
    /\ stream.at # "ending"
    /\ stream' = IF Sending THEN [stream EXCEPT !.age = Later] ELSE stream
    /\ seen' = Unheard
    /\ UNCHANGED <<known, missed>>

\* shutdown: a stream that is running is ended before the socket is closed
Shutdown ==
    /\ stream.at = "running"
    /\ stream' = IF stream.open /\ stream.streaming THEN [stream EXCEPT !.at = "ending"]
                 ELSE [stream EXCEPT !.at = "done", !.open = FALSE, !.streaming = FALSE]
    /\ missed' = [g \in Gateways |-> 0]
    /\ UNCHANGED <<seen, known>>

\* terminate: one goodbye, with a number of its own and no account of its fate
Terminate ==
    /\ stream.at = "ending"
    /\ \E got \in SUBSET Gateways :
         /\ seen' = [g \in Gateways |->
                        IF g \in got /\ Takes(g, stream.sequence) THEN Forgotten ELSE seen[g]]
         /\ missed' = [g \in Gateways |-> IF g \in got THEN missed[g] ELSE missed[g] + 1]
    /\ stream' = [stream EXCEPT
                    !.sequence = Advanced(@), !.left = @ - 1,
                    !.at = IF stream.left = 1 THEN "done" ELSE "ending",
                    !.open = stream.left > 1, !.streaming = stream.left > 1]
    /\ UNCHANGED known

\* The row is started again: a new driver, which counts from zero
Restart ==
    /\ stream.at = "done"
    /\ stream' = NewStream /\ known' = FALSE
    /\ seen' = [g \in Gateways |-> [seen[g] EXCEPT !.mine = FALSE, !.smooth = FALSE]]
    /\ UNCHANGED missed
------------------------------------------------------------------------------
StreamInit ==
    /\ stream = NewStream /\ known = FALSE
    /\ seen = [g \in Gateways |-> Forgotten]
    /\ missed = [g \in Gateways |-> 0]

StreamNext ==
    \/ StreamConnect \/ FrameHeld \/ SendFrame \/ Lapse
    \/ Shutdown \/ Terminate \/ Restart

StreamSpec == StreamInit /\ [][StreamNext]_streamVars
------------------------------------------------------------------------------
StreamTypeOK ==
    /\ stream \in [sequence : 0 .. Numbers - 1, age : {Unsent} \cup 0 .. KeepAlive,
                   streaming : BOOLEAN, open : BOOLEAN,
                   at : {"running", "ending", "done"}, left : 0 .. Goodbyes]
    /\ seen \in [Gateways -> [on : BOOLEAN, number : 0 .. Numbers - 1, quiet : 0 .. Loss,
                              mine : BOOLEAN, smooth : BOOLEAN]]
    /\ known \in BOOLEAN
    /\ missed \in [Gateways -> 0 .. Goodbyes]

\* The gateways that follow what this driver has sent
Followers == {g \in Gateways : seen[g].on /\ seen[g].mine}

\* advance_sequence: the next packet is news to every gateway that follows,
\* whatever it missed before.
NumbersMoveOn == \A g \in Followers : Newer(stream.sequence, seen[g].number)

\* is_due: while the output is at its work, a gateway is about to let go only
\* when two packets in a row were lost on it.
LossIsSurvived ==
    stream.at = "running" =>
        \A g \in Followers :
            seen[g].smooth /\ seen[g].quiet = Loss => Behind(stream.sequence, seen[g].number) > 2

\* terminate: once a whole datagram went out, whoever still follows when the
\* output has stopped has missed every goodbye.
GoodbyeIsHeard ==
    stream.at = "done" /\ known => \A g \in Followers : missed[g] = Goodbyes

\* sacn.rs: the next packet is news to every gateway that follows this driver,
\* however many were lost and however often the numbers went round; no single
\* lost packet costs a gateway its source; and when the output stops, a single
\* goodbye that arrives is enough.
GatewaysFollow == StreamTypeOK /\ NumbersMoveOn /\ LossIsSurvived /\ GoodbyeIsHeard

\* sacn.rs, on UniverseStream::streaming: "Whether a receiver is holding data
\* from this source on this universe ... Set by a datagram that actually went
\* out".
HoldersAreKnown == Sending /\ Followers # {} => stream.streaming
==============================================================================
