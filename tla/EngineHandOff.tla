--------------------------- MODULE EngineHandOff ----------------------------
(***************************************************************************)
(* How a rebuilt show reaches a running tick: the core thread against the  *)
(* tick thread, over the command queue and `BodySwap`.                     *)
(*   crates/prismd/src/engine.rs     BodySwap, DaemonBody, EngineThread    *)
(*   crates/prismd/src/core.rs       carry_out, rebuild, refollow,         *)
(*                                   push_programmer                       *)
(*   crates/prism-engine/src/tick.rs Engine::tick                          *)
(*                                                                         *)
(* Bodies and follow layers are handed over alike, each in a slot behind a *)
(* mutex and two flags, so the steps are written once for a Hand `h`.  A   *)
(* body is the edition of the show it was built from, the edition its      *)
(* follow layer was built from, the programmer value it holds and whether  *)
(* a playback runs in it.  The command queue is the FIFO that              *)
(* CommandQueue implements.  The lists that hand used-up bodies back to    *)
(* the core are left out: they decide only which thread frees the memory.  *)
(***************************************************************************)
EXTENDS Integers, Sequences, FiniteSets, SequencesExt

CONSTANTS Values,       \* what the programmer may hold
          Capacity,     \* COMMAND_QUEUE
          MaxEdition    \* bound: how often the show is rebuilt or refollowed

ASSUME HandOffAssumption ==
    Values # {} /\ Capacity \in Nat \ {0} /\ MaxEdition \in Nat

VARIABLES
    queue,      \* commands the tick has not drained
    slot,       \* Hand -> what is offered, or Empty  (incoming, follow_incoming)
    holder,     \* Hand -> who holds the slot's mutex
    waiting,    \* Hand -> the flag the tick looks at (waiting, follow_waiting)
    unmarked,   \* Hand -> whether the marker could not be queued
    cpc,        \* core: what carry_out does next
    op,         \* core: the Hand being installed
    edition,    \* core: the edition of the show, counted by what was built
    prog,       \* core: the programmer of the show file
    told,       \* core: Core::engine_programmer, "the one it was told about"
    tpc,        \* tick: where it is
    hand,       \* tick: the Hand being adopted
    back,       \* tick: where it goes on after the adoption
    todo,       \* tick: commands left in this drain
    body,       \* tick: the body that runs
    got,        \* tick: what it took out of a slot
    blank,      \* tick: DaemonBody::blank_next_frame
    frame,      \* tick: editions whose channels are lit in the frame being built
    intended,   \* history: the body that runs if every command takes effect in order
    overtaken,  \* history: something was offered while a marker was on its way
    lost        \* history: a command was refused, or went with a panic

flags    == <<waiting, unmarked>>
handOver == <<slot, holder, flags>>
core     == <<cpc, op, edition, prog, told>>
render   == <<blank, frame>>
tick     == <<tpc, hand, back, todo, body, got, render>>
history  == <<intended, overtaken, lost>>
vars     == <<queue, handOver, core, tick, history>>

Hands == {"body", "follow"}
\* A slot is an Option: nothing, or one item.
Empty == << >>
Free == "free"

SetProgrammer(v) == [kind |-> "set", arg |-> v]
Go               == [kind |-> "go", arg |-> "forward"]
Adopt(h)         == [kind |-> "adopt", arg |-> h]

\* build_body and follow_for: a rebuilt body carries a follow layer of its own,
\* the programmer of the show file, and playbacks that are all stopped.
Body(e, v) == [edition |-> e, follow |-> e, prog |-> v, playing |-> FALSE]
Built(h) == IF h = "body" THEN Body(edition, prog) ELSE edition

\* What a command does to the body it is applied to.
Applied(b, c) == CASE c.kind = "set" -> [b EXCEPT !.prog = c.arg]
                   [] c.kind = "go"  -> [b EXCEPT !.playing = TRUE]

\* What an adoption makes of it: MergeBody::set_follow, or the new body.
Adopted(b, h, item) == IF h = "body" THEN item ELSE [b EXCEPT !.follow = item]

Init ==
    \E v \in Values :
       /\ queue = << >>
       /\ slot = [h \in Hands |-> Empty] /\ holder = [h \in Hands |-> Free]
       /\ waiting = [h \in Hands |-> FALSE] /\ unmarked = [h \in Hands |-> FALSE]
       /\ cpc = "idle" /\ op = "body" /\ edition = 0 /\ prog = v /\ told = v
       /\ tpc = "idle" /\ hand = "body" /\ back = "idle" /\ todo = 0
       /\ body = Body(0, v) /\ got = Empty
       /\ blank = FALSE /\ frame = {}
       /\ intended = Body(0, v) /\ overtaken = FALSE /\ lost = FALSE

-----------------------------------------------------------------------------
(* The core thread: Core::carry_out                                        *)

\* EngineThread::send.  A full queue refuses the command.
Room == Len(queue) < Capacity
Send(c) ==
    IF Room
    THEN queue' = Append(queue, c) /\ intended' = Applied(intended, c)
         /\ UNCHANGED lost
    ELSE lost' = TRUE /\ UNCHANGED <<queue, intended>>

\* A command of the desk has been applied to the show file: it may have moved
\* the programmer, and its effects may start a playback, ask for a rebuild,
\* ask for a new follow layer, or none of it.  A rebuild that build_body
\* refuses changes nothing and is the last of these.
CarryOut(v, go, what) ==
    /\ cpc = "idle"
    /\ what # "nothing" => edition < MaxEdition
    /\ v # prog \/ go \/ what # "nothing"
    /\ prog' = v
    /\ IF go THEN Send(Go) ELSE UNCHANGED <<queue, intended, lost>>
    /\ IF what = "nothing"
       THEN cpc' = "push" /\ UNCHANGED <<op, edition>>
       ELSE cpc' = "offer" /\ op' = what /\ edition' = edition + 1
    /\ UNCHANGED <<handOver, told, tick, overtaken>>

\* A marker the tick has yet to act on, or is acting on.
MarkerOnItsWay ==
    \/ \E i \in 1 .. Len(queue) : queue[i].kind = "adopt"
    \/ tpc \in {"take", "change"}

\* Mutant of Offer: a body that has not been taken yet is not replaced.
OfferUnlessWaiting ==
    /\ cpc = "offer" /\ cpc' = "offered"
    /\ holder[op] = Free /\ holder' = [holder EXCEPT ![op] = "core"]
    /\ slot' = IF slot[op] = Empty THEN [slot EXCEPT ![op] = <<Built(op)>>] ELSE slot
    /\ told' = IF op = "body" THEN prog ELSE told
    /\ intended' = Adopted(intended, op, Built(op))
    /\ overtaken' = (overtaken \/ MarkerOnItsWay)
    /\ UNCHANGED <<queue, flags, op, edition, prog, tick, lost>>

\* rebuild / refollow, up to the store into the slot; the mutex is held.
Offer ==
    /\ cpc = "offer" /\ cpc' = "offered"
    /\ holder[op] = Free /\ holder' = [holder EXCEPT ![op] = "core"]
    /\ slot' = [slot EXCEPT ![op] = <<Built(op)>>]
    /\ told' = IF op = "body" THEN prog ELSE told
    /\ intended' = Adopted(intended, op, Built(op))
    /\ overtaken' = (overtaken \/ MarkerOnItsWay)
    /\ UNCHANGED <<queue, flags, op, edition, prog, tick, lost>>

OfferUnlock ==
    /\ cpc = "offered" /\ cpc' = "flag"
    /\ holder' = [holder EXCEPT ![op] = Free]
    /\ UNCHANGED <<queue, slot, flags, op, edition, prog, told, tick,
                   history>>

\* waiting.store(true); only BodySwap::offer goes on to discard_follow.
OfferFlag ==
    /\ cpc = "flag" /\ cpc' = IF op = "body" THEN "discard" ELSE "mark"
    /\ waiting' = [waiting EXCEPT ![op] = TRUE]
    /\ UNCHANGED <<queue, slot, holder, unmarked, op, edition, prog,
                   told, tick, history>>

\* discard_follow: the slot under its mutex, then both flags.
Discard ==
    /\ cpc = "discard" /\ cpc' = "discarded"
    /\ holder["follow"] = Free /\ holder' = [holder EXCEPT !["follow"] = "core"]
    /\ slot' = [slot EXCEPT !["follow"] = Empty]
    /\ UNCHANGED <<queue, flags, op, edition, prog, told, tick, history>>

\* With the slot empty the tick cannot tell these three stores apart.
DiscardEnd ==
    /\ cpc = "discarded" /\ cpc' = "mark"
    /\ holder' = [holder EXCEPT !["follow"] = Free]
    /\ waiting' = [waiting EXCEPT !["follow"] = FALSE]
    /\ unmarked' = [unmarked EXCEPT !["follow"] = FALSE]
    /\ UNCHANGED <<queue, slot, op, edition, prog, told, tick, history>>

\* install / install_follow: queue the marker, or fall back on `unmarked`.
Mark ==
    /\ cpc = "mark"
    /\ IF Room
       THEN queue' = Append(queue, Adopt(op)) /\ cpc' = "push" /\ UNCHANGED lost
       ELSE lost' = TRUE /\ cpc' = "fallback" /\ UNCHANGED queue
    /\ UNCHANGED <<handOver, op, edition, prog, told, tick, intended,
                   overtaken>>

\* Mutant of MarkFallback: a marker that did not fit is forgotten.
MarkForgotten ==
    /\ cpc = "fallback" /\ cpc' = "push"
    /\ UNCHANGED <<queue, handOver, op, edition, prog, told, tick, history>>

MarkFallback ==
    /\ cpc = "fallback" /\ cpc' = "push"
    /\ unmarked' = [unmarked EXCEPT ![op] = TRUE]
    /\ UNCHANGED <<queue, slot, holder, waiting, op, edition, prog,
                   told, tick, history>>

\* push_programmer: only a difference is sent, and it counts as told whether
\* or not the queue had room.
PushProgrammer ==
    /\ cpc = "push" /\ cpc' = "idle" /\ op' = "body"
    /\ IF prog = told THEN UNCHANGED <<queue, intended, lost>>
                      ELSE Send(SetProgrammer(prog))
    /\ told' = prog
    /\ UNCHANGED <<handOver, edition, prog, tick, overtaken>>

-----------------------------------------------------------------------------
(* The tick thread: Engine::tick around DaemonBody                         *)

\* Mutant of TickBegin: a tick that begins forgets to blank.
TickBeginUnblanked ==
    /\ tpc = "idle" /\ tpc' = "drain"
    /\ todo' = Len(queue) /\ blank' = FALSE
    /\ UNCHANGED <<queue, handOver, core, hand, back, body, got, frame, history>>

\* Consumer::drain takes what waits at its entry.
TickBegin ==
    /\ tpc = "idle" /\ tpc' = "drain"
    /\ todo' = Len(queue)
    /\ UNCHANGED <<queue, handOver, core, hand, back, body, got, render, history>>

StartAdopting(h, then) == tpc' = "take" /\ hand' = h /\ back' = then
EndAdopting == tpc' = back /\ hand' = "body" /\ back' = "idle"

\* DaemonBody::apply on the oldest command; a marker starts an adoption.
Drain ==
    /\ tpc = "drain" /\ todo > 0
    /\ queue' = Tail(queue) /\ todo' = todo - 1
    /\ LET c == Head(queue) IN
         IF c.kind = "adopt"
         THEN StartAdopting(c.arg, "drain") /\ UNCHANGED body
         ELSE body' = Applied(body, c) /\ UNCHANGED <<tpc, hand, back>>
    /\ UNCHANGED <<handOver, core, got, render, history>>

\* The lighting maths panics over a command: catch_unwind ends the tick.
\* Bound: one panic in a run, before anything else was lost.
DrainPanic ==
    /\ tpc = "drain" /\ todo > 0 /\ Head(queue).kind # "adopt" /\ ~ lost
    /\ queue' = Tail(queue) /\ lost' = TRUE
    /\ tpc' = "idle" /\ todo' = 0
    /\ UNCHANGED <<handOver, core, hand, back, body, got, render, intended,
                   overtaken>>

\* Mutant of RenderBody: a body is taken at a frame whenever one waits.
RenderWaitingBody ==
    /\ tpc = "drain" /\ todo = 0
    /\ IF waiting["body"] THEN StartAdopting("body", "follow")
       ELSE tpc' = "follow" /\ UNCHANGED <<hand, back>>
    /\ UNCHANGED <<queue, handOver, core, todo, body, got, render, history>>

\* The head of render: first `unmarked`, then `follow_unmarked`.
RenderBody ==
    /\ tpc = "drain" /\ todo = 0
    /\ IF unmarked["body"] THEN StartAdopting("body", "follow")
       ELSE tpc' = "follow" /\ UNCHANGED <<hand, back>>
    /\ UNCHANGED <<queue, handOver, core, todo, body, got, render, history>>

RenderFollow ==
    /\ tpc = "follow"
    /\ IF unmarked["follow"] THEN StartAdopting("follow", "render")
       ELSE tpc' = "render" /\ UNCHANGED <<hand, back>>
    /\ UNCHANGED <<queue, handOver, core, todo, body, got, render, history>>

\* The rest of render: blank once after an adoption, then write the channels
\* of the running patch over what the frame holds.  A panic in the writing
\* decides only whether this frame is published; `blank_next_frame` and the
\* frame the next tick writes over are the same.
Painted == (IF blank THEN {} ELSE frame) \cup {body.edition}

Render ==
    /\ tpc = "render" /\ tpc' = "idle"
    /\ blank' = FALSE /\ frame' = Painted
    /\ UNCHANGED <<queue, handOver, core, hand, back, todo, body, got, history>>

-----------------------------------------------------------------------------
(* adopt_waiting_body / adopt_waiting_follow, BodySwap::take / take_follow  *)

\* The load of `waiting`, unmarked.store(false) whatever becomes of the
\* attempt, try_lock, and slot.take() under it.  The core may act between
\* these, with the same outcomes as when it acts before or after them all.
Take ==
    /\ tpc = "take"
    /\ IF ~ waiting[hand]
       THEN EndAdopting /\ UNCHANGED <<slot, holder, unmarked, got>>
       ELSE /\ unmarked' = [unmarked EXCEPT ![hand] = FALSE]
            /\ IF holder[hand] = Free
               THEN /\ holder' = [holder EXCEPT ![hand] = "tick"]
                    /\ got' = slot[hand]
                    /\ slot' = [slot EXCEPT ![hand] = Empty]
                    /\ tpc' = "change" /\ UNCHANGED <<hand, back>>
               ELSE EndAdopting /\ UNCHANGED <<holder, got, slot>>
    /\ UNCHANGED <<queue, waiting, core, todo, body, render, history>>

\* waiting.store(false) before the mutex is let go, which nobody can tell
\* apart from doing both at once; then the swap, which is the tick's own.
Change ==
    /\ tpc = "change" /\ EndAdopting
    /\ waiting' = [waiting EXCEPT ![hand] = FALSE]
    /\ holder' = [holder EXCEPT ![hand] = Free]
    /\ body' = IF got = Empty THEN body ELSE Adopted(body, hand, got[1])
    /\ blank' = (blank \/ (hand = "body" /\ got # Empty))
    /\ got' = Empty
    /\ UNCHANGED <<queue, slot, unmarked, core, todo, frame, history>>

-----------------------------------------------------------------------------
CoreStep == \/ Offer \/ OfferUnlock \/ OfferFlag
            \/ Discard \/ DiscardEnd
            \/ Mark \/ MarkFallback \/ PushProgrammer
TickStep == \/ TickBegin \/ Drain \/ RenderBody \/ RenderFollow \/ Render
            \/ Take \/ Change

Next == \/ CoreStep \/ TickStep \/ DrainPanic
        \/ \E v \in Values, go \in BOOLEAN, what \in Hands \cup {"nothing"} :
             CarryOut(v, go, what)

\* The tick keeps its 44 Hz for ever and the core finishes what it has begun;
\* nobody has to touch the desk.
Fairness == WF_vars(TickStep) /\ SF_vars(CoreStep)

Spec == Init /\ [][Next]_vars /\ Fairness

-----------------------------------------------------------------------------
Bodies == [edition : 0 .. MaxEdition, follow : 0 .. MaxEdition,
           prog : Values, playing : BOOLEAN]
Commands == {Go} \cup {SetProgrammer(v) : v \in Values} \cup {Adopt(h) : h \in Hands}

\* The queue keeps to its room, a slot holds one item of its own kind, and what
\* runs is a body the core has built.  (BodySwap, DaemonBody)
TypeOK ==
    /\ queue \in Seq(Commands) /\ Len(queue) <= Capacity
    /\ \A h \in Hands : Len(slot[h]) <= 1
    /\ slot["body"] \in Seq(Bodies) /\ slot["follow"] \in Seq(0 .. MaxEdition)
    /\ holder \in [Hands -> {Free, "core", "tick"}]
    /\ waiting \in [Hands -> BOOLEAN] /\ unmarked \in [Hands -> BOOLEAN]
    /\ op \in Hands /\ edition \in 0 .. MaxEdition
    /\ prog \in Values /\ told \in Values
    /\ hand \in Hands /\ todo \in 0 .. Capacity
    /\ body \in Bodies /\ intended \in Bodies
    /\ blank \in BOOLEAN
    /\ frame \subseteq 0 .. MaxEdition

\* Nothing is under way: no command, no offer, no adoption, no call.
Quiet == /\ queue = << >> /\ cpc = "idle" /\ tpc = "idle"
         /\ \A h \in Hands : slot[h] = Empty

\* The order the core sent things in is the order they take effect: "everything
\* before [the marker] reaches the body that leaves, everything after it the
\* body that arrives" -- as long as one installation is over before the next
\* begins and no command was refused.
OrderIsKept == Quiet /\ ~ overtaken /\ ~ lost => body = intended

\* Whatever overtakes whatever, and even with the queue full, the body that
\* ends up running is the one built last.
NewestBodyRuns == Quiet => body.edition = intended.edition

\* A fixture unpatched mid-show does not stay lit: a frame shows the channels
\* of one patch only, in spite of panics between the adoption and the frame.
NoGhostChannels == TypeOK /\ Cardinality(frame) <= 1

\* A body that has been offered is adopted, it or a newer one: a try_lock
\* that fails, or a marker that did not fit, never strands it.
BodyArrives ==
    \A e \in 1 .. MaxEdition :
       (slot["body"] # Empty /\ slot["body"][1].edition = e) ~> body.edition >= e
=============================================================================
