------------------------ MODULE EngineHandOffProofs ------------------------
(***************************************************************************)
(* The body hand-off, for any queue, any values and any number of rebuilds: *)
(* the body built last is the one that runs, nothing offered is stranded,   *)
(* commands and bodies take effect in the order they were sent, and no      *)
(* frame shows two patches.                                                 *)
(***************************************************************************)
EXTENDS EngineHandOff, FiniteSetTheorems, TLAPS

-----------------------------------------------------------------------------
(* Commands and what they do to a body                                     *)

LEMMA CommandIs ==
    ASSUME NEW c \in Commands
    PROVE  /\ c.kind \in {"set", "go", "adopt"}
           /\ c.kind = "set" => c.arg \in Values
           /\ c.kind = "adopt" => c.arg \in Hands /\ c = Adopt(c.arg)
  BY DEF Commands, Go, SetProgrammer, Adopt

LEMMA CommandsAre ==
    /\ Go \in Commands /\ Go.kind = "go"
    /\ \A v \in Values : SetProgrammer(v) \in Commands
                         /\ SetProgrammer(v).kind = "set" /\ SetProgrammer(v).arg = v
    /\ \A h \in Hands : Adopt(h) \in Commands /\ Adopt(h).kind = "adopt" /\ Adopt(h).arg = h
  BY DEF Commands, Go, SetProgrammer, Adopt

LEMMA AppliedDoes ==
    ASSUME NEW b \in Bodies, NEW c \in Commands, c.kind # "adopt"
    PROVE  /\ Applied(b, c) \in Bodies
           /\ Applied(b, c).edition = b.edition /\ Applied(b, c).follow = b.follow
           /\ Applied(b, c).prog = IF c.kind = "set" THEN c.arg ELSE b.prog
           /\ Applied(b, c).playing = IF c.kind = "go" THEN TRUE ELSE b.playing
<1>1. CASE c.kind = "set"
  BY <1>1, CommandIs DEF Applied, Bodies
<1>2. CASE c.kind = "go"
  BY <1>2 DEF Applied, Bodies
<1> QED BY <1>1, <1>2, CommandIs

\* What may lie in the slot of a hand.
Items(h) == IF h = "body" THEN Bodies ELSE 0 .. MaxEdition
OneOf(S) == {Empty} \cup {<<x>> : x \in S}

LEMMA OneOfIs ==
    ASSUME NEW S, NEW s \in OneOf(S)
    PROVE  /\ s \in Seq(S) /\ Len(s) <= 1
           /\ s # Empty => s[1] \in S
<1>1. CASE s = Empty
  BY <1>1 DEF Empty
<1>2. CASE s # Empty
  <2>1. PICK x \in S : s = <<x>>
    BY <1>2 DEF OneOf
  <2>2. <<x>> \in Seq(S) /\ Len(<<x>>) = 1 /\ <<x>>[1] = x
    OBVIOUS
  <2> QED BY <1>2, <2>1, <2>2
<1> QED BY <1>1, <1>2

LEMMA OneOfHas ==
    ASSUME NEW S
    PROVE  /\ Empty \in OneOf(S)
           /\ \A x \in S : <<x>> \in OneOf(S) /\ <<x>> # Empty /\ <<x>>[1] = x
  BY DEF OneOf, Empty

LEMMA BuiltDoes ==
    ASSUME edition \in 0 .. MaxEdition, prog \in Values, NEW h \in Hands
    PROVE  /\ Built(h) \in Items(h)
           /\ h = "body" => Built(h) = Body(edition, prog)
           /\ Body(edition, prog) \in Bodies
           /\ Body(edition, prog).edition = edition
  BY DEF Built, Body, Items, Bodies, Hands

LEMMA AdoptedDoes ==
    ASSUME NEW b \in Bodies, NEW h \in Hands, NEW item \in Items(h)
    PROVE  /\ Adopted(b, h, item) \in Bodies
           /\ h = "body" => Adopted(b, h, item) = item
           /\ h = "follow" => /\ Adopted(b, h, item) = [b EXCEPT !.follow = item]
                              /\ Adopted(b, h, item).edition = b.edition
  BY DEF Adopted, Items, Bodies, Hands

-----------------------------------------------------------------------------
(* Type correctness                                                        *)

\* The core is between the store into the slot and the marker.
Offering == {"offered", "flag", "discard", "discarded", "mark", "fallback"}

SharedTyped ==
    /\ queue \in Seq(Commands) /\ Len(queue) <= Capacity
    /\ slot = [h \in Hands |-> slot[h]] /\ \A h \in Hands : slot[h] \in OneOf(Items(h))
    /\ holder \in [Hands -> {Free, "core", "tick"}]
    /\ waiting \in [Hands -> BOOLEAN] /\ unmarked \in [Hands -> BOOLEAN]

CoreTyped ==
    /\ cpc \in {"idle", "offer", "push"} \cup Offering
    /\ op \in Hands /\ edition \in 0 .. MaxEdition
    /\ prog \in Values /\ told \in Values
    /\ cpc \in {"discard", "discarded"} => op = "body"

TickTyped ==
    /\ tpc \in {"idle", "drain", "follow", "render", "take", "change"}
    /\ back \in {"idle", "drain", "follow", "render"} /\ hand \in Hands
    /\ todo \in 0 .. Len(queue)
    /\ got \in OneOf(Items(hand)) /\ (tpc # "change" => got = Empty)
    /\ body \in Bodies /\ intended \in Bodies
    /\ blank \in BOOLEAN /\ frame \subseteq 0 .. MaxEdition

Typed == SharedTyped /\ CoreTyped /\ TickTyped

LEMMA TypedIsTypeOK == Typed => TypeOK
<1> SUFFICES ASSUME Typed PROVE TypeOK
  OBVIOUS
<1>1. \A h \in Hands : slot[h] \in Seq(Items(h)) /\ Len(slot[h]) <= 1
  BY OneOfIs DEF Typed, SharedTyped
<1>2. slot["body"] \in Seq(Bodies) /\ slot["follow"] \in Seq(0 .. MaxEdition)
  BY <1>1 DEF Hands, Items
<1>3. todo \in 0 .. Capacity
  BY HandOffAssumption DEF Typed, SharedTyped, TickTyped
<1> QED BY <1>1, <1>2, <1>3 DEF TypeOK, Typed, SharedTyped, CoreTyped, TickTyped

\* What a command that is sent leaves in the queue and in the history.
LEMMA SendDoes ==
    ASSUME Typed, NEW c \in Commands, c.kind # "adopt", Send(c)
    PROVE  /\ \/ /\ queue' = Append(queue, c) /\ Len(queue) < Capacity
                 /\ intended' = Applied(intended, c) /\ lost' = lost
              \/ lost' = TRUE /\ queue' = queue /\ intended' = intended
           /\ queue' \in Seq(Commands) /\ Len(queue') <= Capacity /\ Len(queue) <= Len(queue')
           /\ intended' \in Bodies /\ intended'.edition = intended.edition
<1>1. \/ /\ queue' = Append(queue, c) /\ Len(queue) < Capacity
         /\ intended' = Applied(intended, c) /\ lost' = lost
      \/ lost' = TRUE /\ queue' = queue /\ intended' = intended
  BY DEF Send, Room
<1>2. intended \in Bodies /\ queue \in Seq(Commands) /\ Len(queue) <= Capacity
      /\ Capacity \in Nat
  BY HandOffAssumption DEF Typed, SharedTyped, TickTyped
<1>3. queue' \in Seq(Commands) /\ Len(queue') <= Capacity /\ Len(queue) <= Len(queue')
  BY <1>1, <1>2
<1>4. intended' \in Bodies /\ intended'.edition = intended.edition
  BY <1>1, <1>2, AppliedDoes
<1> QED BY <1>1, <1>3, <1>4

LEMMA TypeInit == Init => Typed
<1> SUFFICES ASSUME NEW v \in Values, Init,
                    prog = v, told = v, body = Body(0, v), intended = Body(0, v)
             PROVE  Typed
  BY DEF Init
<1>1. Body(0, v) \in Bodies /\ 0 \in 0 .. MaxEdition
  BY HandOffAssumption DEF Body, Bodies
<1>2. SharedTyped
  <2>1. queue = << >> /\ queue \in Seq(Commands) /\ Len(queue) = 0 /\ Capacity \in Nat
    BY HandOffAssumption DEF Init
  <2>2. \A h \in Hands : slot[h] \in OneOf(Items(h))
    BY OneOfHas DEF Init
  <2>3. slot = [h \in Hands |-> slot[h]]
    BY DEF Init
  <2>4. /\ holder \in [Hands -> {Free, "core", "tick"}]
        /\ waiting \in [Hands -> BOOLEAN] /\ unmarked \in [Hands -> BOOLEAN]
    BY DEF Init
  <2> QED BY <2>1, <2>2, <2>3, <2>4 DEF SharedTyped
<1>3. CoreTyped
  BY <1>1 DEF Init, CoreTyped, Hands
<1>4. TickTyped
  <2>1. queue = << >> /\ todo = 0 /\ got = Empty /\ frame = {} /\ blank = FALSE
        /\ tpc = "idle" /\ back = "idle" /\ hand = "body"
    BY DEF Init
  <2>2. todo \in 0 .. Len(queue)
    BY <2>1
  <2>3. got \in OneOf(Items(hand))
    BY <2>1, OneOfHas
  <2> QED BY <1>1, <2>1, <2>2, <2>3 DEF TickTyped, Hands
<1> QED BY <1>2, <1>3, <1>4 DEF Typed

\* The slots and flags of one hand are stored into, and the others stay.
LEMMA StoreDoes ==
    ASSUME SharedTyped, NEW h \in Hands, NEW s \in OneOf(Items(h))
    PROVE  LET t == [slot EXCEPT ![h] = s] IN
           /\ t = [g \in Hands |-> t[g]] /\ t[h] = s
           /\ \A g \in Hands : t[g] \in OneOf(Items(g)) /\ (g # h => t[g] = slot[g])
  BY DEF SharedTyped

LEMMA TypeCore == Typed /\ CoreStep => Typed'
<1> SUFFICES ASSUME Typed, CoreStep PROVE Typed'
  OBVIOUS
<1> USE DEF Hands
<1>0. op \in Hands /\ SharedTyped /\ CoreTyped /\ TickTyped
  BY DEF Typed, CoreTyped
<1>1. CASE Offer
  <2>1. Built(op) \in Items(op) /\ Built(op) \in IF op = "body" THEN Bodies ELSE 0 .. MaxEdition
    BY <1>0, BuiltDoes DEF CoreTyped, Items
  <2>2. SharedTyped'
    <3>1. <<Built(op)>> \in OneOf(Items(op))
      BY <2>1, OneOfHas
    <3>2. slot' = [slot EXCEPT ![op] = <<Built(op)>>]
      BY <1>1 DEF Offer
    <3>3. slot' = [h \in Hands |-> slot'[h]] /\ \A h \in Hands : slot'[h] \in OneOf(Items(h))
      BY <1>0, <3>1, <3>2, StoreDoes
    <3> QED BY <1>0, <1>1, <3>3 DEF Offer, SharedTyped, flags
  <2>3. CoreTyped'
    BY <1>0, <1>1 DEF Offer, CoreTyped, Offering
  <2>4. intended' \in Bodies
    BY <1>0, <1>1, <2>1, AdoptedDoes DEF Offer, TickTyped
  <2> QED BY <1>0, <1>1, <2>2, <2>3, <2>4 DEF Offer, Typed, TickTyped, tick, render
<1>2. CASE OfferUnlock
  BY <1>0, <1>2 DEF OfferUnlock, Typed, SharedTyped, CoreTyped, TickTyped, flags, tick, render,
                    history, Offering
<1>3. CASE OfferFlag
  BY <1>0, <1>3 DEF OfferFlag, Typed, SharedTyped, CoreTyped, TickTyped, tick, render, history,
                    Offering
<1>4. CASE Discard
  <2>1. SharedTyped'
    <3>1. Empty \in OneOf(Items("follow")) /\ slot' = [slot EXCEPT !["follow"] = Empty]
      BY <1>4, OneOfHas DEF Discard
    <3>2. slot' = [h \in Hands |-> slot'[h]] /\ \A h \in Hands : slot'[h] \in OneOf(Items(h))
      BY <1>0, <3>1, StoreDoes
    <3> QED BY <1>0, <1>4, <3>2 DEF Discard, SharedTyped, flags
  <2> QED BY <1>0, <1>4, <2>1 DEF Discard, Typed, CoreTyped, TickTyped, tick, render, history,
                                  Offering
<1>5. CASE DiscardEnd
  BY <1>0, <1>5 DEF DiscardEnd, Typed, SharedTyped, CoreTyped, TickTyped, tick, render, history,
                    Offering
<1>6. CASE Mark
  <2>1. queue' \in Seq(Commands) /\ Len(queue') <= Capacity /\ Len(queue) <= Len(queue')
    <3>1. queue \in Seq(Commands) /\ Len(queue) <= Capacity /\ Capacity \in Nat
          /\ Adopt(op) \in Commands
      BY <1>0, CommandsAre, HandOffAssumption DEF SharedTyped
    <3>2. queue' = queue \/ (Len(queue) < Capacity /\ queue' = Append(queue, Adopt(op)))
      BY <1>6 DEF Mark, Room
    <3> QED BY <3>1, <3>2
  <2>2. SharedTyped' /\ CoreTyped'
    BY <1>0, <1>6, <2>1 DEF Mark, SharedTyped, CoreTyped, handOver, flags, Offering
  <2>3. TickTyped'
    BY <1>0, <1>6, <2>1 DEF Mark, TickTyped, tick, render
  <2> QED BY <2>2, <2>3 DEF Typed
<1>7. CASE MarkFallback
  BY <1>0, <1>7 DEF MarkFallback, Typed, SharedTyped, CoreTyped, TickTyped, tick, render, history,
                    Offering
<1>8. CASE PushProgrammer
  <2>1. /\ queue' \in Seq(Commands) /\ Len(queue') <= Capacity /\ Len(queue) <= Len(queue')
        /\ intended' \in Bodies
    <3>1. CASE prog = told
      BY <1>0, <1>8, <3>1 DEF PushProgrammer, SharedTyped, TickTyped
    <3>2. CASE prog # told
      <4>1. Send(SetProgrammer(prog)) /\ SetProgrammer(prog) \in Commands
            /\ SetProgrammer(prog).kind # "adopt"
        BY <1>0, <1>8, <3>2, CommandsAre DEF PushProgrammer, CoreTyped
      <4> QED BY <4>1, SendDoes
    <3> QED BY <3>1, <3>2
  <2>2. SharedTyped' /\ CoreTyped'
    BY <1>0, <1>8, <2>1 DEF PushProgrammer, SharedTyped, CoreTyped, handOver, flags, Offering
  <2>3. TickTyped'
    BY <1>0, <1>8, <2>1 DEF PushProgrammer, TickTyped, tick, render
  <2> QED BY <2>2, <2>3 DEF Typed
<1> QED BY <1>1, <1>2, <1>3, <1>4, <1>5, <1>6, <1>7, <1>8 DEF CoreStep

LEMMA TypeCarryOut ==
    ASSUME Typed, NEW v \in Values, NEW go \in BOOLEAN, NEW what \in Hands \cup {"nothing"},
           CarryOut(v, go, what)
    PROVE  Typed'
<1>0. SharedTyped /\ CoreTyped /\ TickTyped
  BY DEF Typed
<1>1. /\ queue' \in Seq(Commands) /\ Len(queue') <= Capacity /\ Len(queue) <= Len(queue')
      /\ intended' \in Bodies
  <2>1. CASE ~ go
    BY <1>0, <2>1 DEF CarryOut, SharedTyped, TickTyped
  <2>2. CASE go
    BY <2>2, CommandsAre, SendDoes DEF CarryOut
  <2> QED BY <2>1, <2>2
<1>2. SharedTyped'
  BY <1>0, <1>1 DEF CarryOut, SharedTyped, handOver, flags
<1>3. CoreTyped'
  BY <1>0, HandOffAssumption DEF CarryOut, CoreTyped, Hands, Offering
<1>4. TickTyped'
  BY <1>0, <1>1 DEF CarryOut, TickTyped, tick, render
<1> QED BY <1>2, <1>3, <1>4 DEF Typed

\* What is left when the oldest command has been taken.
LEMMA TailDoes ==
    ASSUME Typed, todo > 0, queue' = Tail(queue)
    PROVE  /\ queue # << >> /\ Head(queue) = queue[1] /\ Head(queue) \in Commands
           /\ queue' \in Seq(Commands) /\ Len(queue') = Len(queue) - 1
           /\ Len(queue) \in Nat /\ Len(queue') <= Capacity
           /\ \A i \in 1 .. Len(queue') : queue'[i] = queue[i + 1]
<1>1. queue \in Seq(Commands) /\ Len(queue) <= Capacity /\ Capacity \in Nat
      /\ todo \in 0 .. Len(queue)
  BY HandOffAssumption DEF Typed, SharedTyped, TickTyped
<1> QED BY <1>1

LEMMA TypeTick == Typed /\ (TickStep \/ DrainPanic) => Typed'
<1> SUFFICES ASSUME Typed, TickStep \/ DrainPanic PROVE Typed'
  OBVIOUS
<1>0. SharedTyped /\ CoreTyped /\ TickTyped
  BY DEF Typed
<1>1. CASE TickBegin
  <2>1. Len(queue) \in 0 .. Len(queue)
    BY <1>0 DEF SharedTyped
  <2> QED BY <1>0, <1>1, <2>1 DEF TickBegin, Typed, SharedTyped, CoreTyped, TickTyped, handOver,
                                  flags, core, render, history
<1>2. CASE Drain
  <2>1. /\ Head(queue) \in Commands /\ queue' \in Seq(Commands) /\ Len(queue') <= Capacity
        /\ todo' \in 0 .. Len(queue')
    BY <1>0, <1>2, TailDoes DEF Drain, TickTyped
  <2>2. SharedTyped'
    BY <1>0, <1>2, <2>1 DEF Drain, SharedTyped, handOver, flags
  <2>3. CoreTyped'
    BY <1>0, <1>2 DEF Drain, CoreTyped, core
  <2>4. got = Empty /\ got' = Empty
    BY <1>0, <1>2 DEF Drain, TickTyped
  <2>5. got' \in OneOf(Items(hand'))
    BY <2>4, OneOfHas
  <2>6. CASE Head(queue).kind = "adopt"
    <3>1. tpc' = "take" /\ hand' \in Hands /\ back' = "drain" /\ body' = body
      BY <1>2, <2>1, <2>6, CommandIs DEF Drain, StartAdopting
    <3> QED BY <1>0, <1>2, <2>1, <2>2, <2>3, <2>4, <2>5, <3>1
            DEF Drain, Typed, TickTyped, render, history
  <2>7. CASE Head(queue).kind # "adopt"
    <3>1. body' \in Bodies
      BY <1>0, <1>2, <2>1, <2>7, AppliedDoes DEF Drain, TickTyped
    <3> QED BY <1>0, <1>2, <2>1, <2>2, <2>3, <2>4, <2>5, <2>7, <3>1
            DEF Drain, Typed, TickTyped, render, history
  <2> QED BY <2>6, <2>7
<1>3. CASE DrainPanic
  <2>1. queue' \in Seq(Commands) /\ Len(queue') <= Capacity /\ 0 \in 0 .. Len(queue')
    BY <1>0, <1>3, TailDoes DEF DrainPanic, TickTyped
  <2> QED BY <1>0, <1>3, <2>1 DEF DrainPanic, Typed, SharedTyped, CoreTyped, TickTyped, handOver,
                                  flags, core, render
<1>4. CASE RenderBody \/ RenderFollow
  <2>1. tpc' \in {"follow", "render", "take"} /\ hand' \in Hands
        /\ back' \in {"idle", "drain", "follow", "render"}
    BY <1>0, <1>4 DEF RenderBody, RenderFollow, StartAdopting, TickTyped, Hands
  <2>2. got = Empty /\ got' = Empty
    BY <1>0, <1>4 DEF RenderBody, RenderFollow, TickTyped
  <2>3. got' \in OneOf(Items(hand'))
    BY <2>2, OneOfHas
  <2> QED BY <1>0, <1>4, <2>1, <2>2, <2>3 DEF RenderBody, RenderFollow, Typed, SharedTyped,
             CoreTyped, TickTyped, handOver, flags, core, render, history
<1>5. CASE Render
  <2>1. frame' \subseteq 0 .. MaxEdition
    BY <1>0, <1>5 DEF Render, Painted, TickTyped, Bodies
  <2> QED BY <1>0, <1>5, <2>1 DEF Render, Typed, SharedTyped, CoreTyped, TickTyped, handOver,
                                  flags, core, history
<1>6. CASE Take
  <2>1. got = Empty /\ hand \in Hands /\ slot[hand] \in OneOf(Items(hand))
    BY <1>0, <1>6 DEF Take, SharedTyped, TickTyped
  <2>2. CASE tpc' = "change"
    <3>1. got' = slot[hand] /\ slot' = [slot EXCEPT ![hand] = Empty] /\ hand' = hand
          /\ back' = back /\ holder' = [holder EXCEPT ![hand] = "tick"]
          /\ unmarked' = [unmarked EXCEPT ![hand] = FALSE]
      BY <1>0, <1>6, <2>2 DEF Take, EndAdopting, TickTyped
    <3>2. slot' = [h \in Hands |-> slot'[h]] /\ \A h \in Hands : slot'[h] \in OneOf(Items(h))
      BY <1>0, <2>1, <3>1, StoreDoes, OneOfHas
    <3>3. SharedTyped'
      BY <1>0, <1>6, <3>1, <3>2 DEF Take, SharedTyped
    <3> QED BY <1>0, <1>6, <2>1, <2>2, <3>1, <3>3 DEF Take, Typed, CoreTyped, TickTyped, core,
               render, history
  <2>3. CASE tpc' # "change"
    <3>1. tpc' = back /\ hand' = "body" /\ back' = "idle" /\ got' = got /\ slot' = slot
          /\ holder' = holder /\ unmarked' \in [Hands -> BOOLEAN]
      BY <1>0, <1>6, <2>3 DEF Take, EndAdopting, SharedTyped
    <3>2. SharedTyped' /\ CoreTyped'
      BY <1>0, <1>6, <3>1 DEF Take, SharedTyped, CoreTyped, core
    <3>3. got' \in OneOf(Items(hand'))
      BY <2>1, <3>1, OneOfHas
    <3> QED BY <1>0, <1>6, <2>1, <3>1, <3>2, <3>3 DEF Take, Typed, TickTyped, Hands,
               render, history
  <2> QED BY <2>2, <2>3
<1>7. CASE Change
  <2>1. body' \in Bodies
    <3>1. CASE got = Empty
      BY <1>0, <1>7, <3>1 DEF Change, TickTyped
    <3>2. CASE got # Empty
      <4>1. got[1] \in Items(hand)
        BY <1>0, <3>2, OneOfIs DEF TickTyped
      <4> QED BY <1>0, <1>7, <3>2, <4>1, AdoptedDoes DEF Change, TickTyped
    <3> QED BY <3>1, <3>2
  <2>2. SharedTyped'
    BY <1>0, <1>7 DEF Change, SharedTyped, TickTyped
  <2>3. CoreTyped'
    BY <1>0, <1>7 DEF Change, CoreTyped, core
  <2>4. tpc' = back /\ hand' = "body" /\ back' = "idle" /\ got' = Empty /\ blank' \in BOOLEAN
    BY <1>7 DEF Change, EndAdopting
  <2>5. got' \in OneOf(Items(hand'))
    BY <2>4, OneOfHas
  <2>6. UNCHANGED <<queue, todo, frame, intended>>
    BY <1>7 DEF Change, history
  <2> QED BY <1>0, <2>1, <2>2, <2>3, <2>4, <2>5, <2>6 DEF Typed, TickTyped, Hands
<1> QED BY <1>1, <1>2, <1>3, <1>4, <1>5, <1>6, <1>7 DEF TickStep

LEMMA TypeStep == Typed /\ [Next]_vars => Typed'
<1>1. Typed /\ UNCHANGED vars => Typed'
  BY DEF vars, handOver, flags, core, tick, render, history, Typed, SharedTyped, CoreTyped,
         TickTyped
<1> QED BY <1>1, TypeCore, TypeTick, TypeCarryOut DEF Next

\* The hand-off is well typed for any queue and any number of rebuilds.
THEOREM TypeCorrect == Spec => []TypeOK
  BY TypeInit, TypeStep, TypedIsTypeOK, PTL DEF Spec

-----------------------------------------------------------------------------
(* No ghost channels                                                       *)

\* A frame lights one patch; unless the next is blanked first, it is the patch
\* of the body that runs.
FrameInv ==
    /\ \E e \in 0 .. MaxEdition : frame \subseteq {e}
    /\ ~ blank => frame \subseteq {body.edition}

LEMMA FrameInit == Init => FrameInv
  BY HandOffAssumption DEF Init, FrameInv

\* What an adoption does to the edition that runs.
LEMMA ChangeDoes ==
    ASSUME Typed, Change
    PROVE  /\ hand = "body" /\ got # Empty => body' = got[1] /\ blank' = TRUE
           /\ ~ (hand = "body" /\ got # Empty) => body'.edition = body.edition /\ blank' = blank
           /\ got # Empty => got[1] \in Items(hand)
           /\ hand' = "body" /\ got' = Empty /\ tpc' = back /\ back' = "idle"
           /\ UNCHANGED <<queue, slot, unmarked, cpc, op, edition, prog, told, todo, frame,
                          intended, overtaken, lost>>
<1>1. got # Empty => got[1] \in Items(hand)
  BY OneOfIs DEF Typed, TickTyped
<1>2. body \in Bodies /\ hand \in Hands /\ blank \in BOOLEAN
  BY DEF Typed, TickTyped
<1>3. /\ body' = IF got = Empty THEN body ELSE Adopted(body, hand, got[1])
      /\ blank' = (blank \/ (hand = "body" /\ got # Empty))
  BY DEF Change
<1>4. ASSUME hand = "body", got # Empty PROVE body' = got[1] /\ blank' = TRUE
  <2>1. Adopted(body, hand, got[1]) = got[1]
    BY <1>1, <1>2, <1>4, AdoptedDoes
  <2> QED BY <1>3, <1>4, <2>1
<1>5. ~ (hand = "body" /\ got # Empty) => body'.edition = body.edition /\ blank' = blank
  BY <1>1, <1>2, <1>3, AdoptedDoes DEF Hands
<1> QED BY <1>1, <1>4, <1>5 DEF Change, EndAdopting, core, history

\* What the oldest command does to the body, and to what the tick does next.
LEMMA DrainDoes ==
    ASSUME Typed, Drain
    PROVE  /\ tpc = "drain" /\ todo > 0 /\ queue # << >> /\ Head(queue) = queue[1]
           /\ Head(queue) \in Commands
           /\ queue' = Tail(queue) /\ Len(queue') = Len(queue) - 1 /\ Len(queue) \in Nat
           /\ \A i \in 1 .. Len(queue') : queue'[i] = queue[i + 1]
           /\ Head(queue).kind = "adopt" =>
                tpc' = "take" /\ hand' = Head(queue).arg /\ back' = "drain" /\ body' = body
           /\ Head(queue).kind # "adopt" =>
                tpc' = tpc /\ hand' = hand /\ back' = back /\ body' = Applied(body, Head(queue))
           /\ body'.edition = body.edition
           /\ UNCHANGED <<slot, holder, waiting, unmarked, cpc, op, edition, prog, told, got,
                          blank, frame, intended, overtaken, lost>>
<1>1. todo > 0 /\ queue' = Tail(queue)
  BY DEF Drain
<1>2. Head(queue) \in Commands /\ queue # << >> /\ Head(queue) = queue[1]
      /\ Len(queue') = Len(queue) - 1 /\ Len(queue) \in Nat
      /\ \A i \in 1 .. Len(queue') : queue'[i] = queue[i + 1]
  BY <1>1, TailDoes
<1>3. /\ Head(queue).kind = "adopt" =>
           tpc' = "take" /\ hand' = Head(queue).arg /\ back' = "drain" /\ body' = body
      /\ Head(queue).kind # "adopt" =>
           tpc' = tpc /\ hand' = hand /\ back' = back /\ body' = Applied(body, Head(queue))
  BY DEF Drain, StartAdopting
<1>4. body'.edition = body.edition
  <2>1. body \in Bodies
    BY DEF Typed, TickTyped
  <2>2. Head(queue).kind # "adopt" =>
           Applied(body, Head(queue)).edition = body.edition
    BY <1>2, <2>1, AppliedDoes
  <2> QED BY <1>3, <2>2
<1> QED BY <1>1, <1>2, <1>3, <1>4 DEF Drain, handOver, flags, core, render, history

\* What an attempt to adopt does: it has nothing, or takes what there is.
LEMMA TakeDoes ==
    ASSUME Typed, Take
    PROVE  /\ tpc = "take" /\ got = Empty
           /\ \/ /\ waiting[hand] /\ holder[hand] = Free
                 /\ tpc' = "change" /\ hand' = hand
                 /\ holder' = [holder EXCEPT ![hand] = "tick"]
                 /\ got' = slot[hand] /\ slot'[hand] = Empty
                 /\ \A g \in Hands : g # hand => slot'[g] = slot[g]
              \/ /\ ~ waiting[hand] \/ holder[hand] # Free
                 /\ tpc' = back /\ hand' = "body" /\ got' = Empty
                 /\ slot' = slot /\ holder' = holder
           /\ ~ waiting[hand] => unmarked' = unmarked
           /\ \A g \in Hands : g # hand => unmarked'[g] = unmarked[g]
           /\ \A g \in Hands : unmarked'[g] => unmarked[g]
           /\ UNCHANGED <<queue, waiting, cpc, op, edition, prog, told, todo, body, blank, frame,
                          intended, overtaken, lost>>
<1>1. got = Empty /\ hand \in Hands /\ unmarked \in [Hands -> BOOLEAN]
      /\ slot = [h \in Hands |-> slot[h]]
  BY DEF Take, Typed, SharedTyped, TickTyped
<1>2. \/ /\ waiting[hand] /\ holder[hand] = Free
         /\ tpc' = "change" /\ hand' = hand
         /\ holder' = [holder EXCEPT ![hand] = "tick"]
         /\ got' = slot[hand] /\ slot' = [slot EXCEPT ![hand] = Empty]
      \/ /\ ~ waiting[hand] \/ holder[hand] # Free
         /\ tpc' = back /\ hand' = "body" /\ got' = Empty
         /\ slot' = slot /\ holder' = holder
  BY <1>1 DEF Take, EndAdopting
<1>3. \/ ~ waiting[hand] /\ unmarked' = unmarked
      \/ waiting[hand] /\ unmarked' = [unmarked EXCEPT ![hand] = FALSE]
  BY DEF Take
<1>4. /\ ~ waiting[hand] => unmarked' = unmarked
      /\ \A g \in Hands : g # hand => unmarked'[g] = unmarked[g]
      /\ \A g \in Hands : unmarked'[g] => unmarked[g]
  BY <1>1, <1>3
<1>5. \/ slot' = slot
      \/ slot'[hand] = Empty /\ \A g \in Hands : g # hand => slot'[g] = slot[g]
  BY <1>1, <1>2
<1>6. UNCHANGED <<queue, waiting, cpc, op, edition, prog, told, todo, body, blank, frame,
                          intended, overtaken, lost>>
  BY DEF Take, core, render, history
<1>7. tpc = "take"
  BY DEF Take
<1>8. slot' = [slot EXCEPT ![hand] = Empty] =>
        slot'[hand] = Empty /\ \A g \in Hands : g # hand => slot'[g] = slot[g]
  BY <1>1
<1> QED BY <1>1, <1>2, <1>4, <1>6, <1>7, <1>8

LEMMA FrameStep == Typed /\ FrameInv /\ [Next]_vars => FrameInv'
<1> SUFFICES ASSUME Typed, FrameInv, [Next]_vars PROVE FrameInv'
  OBVIOUS
<1>1. ASSUME UNCHANGED <<body, blank, frame>> PROVE FrameInv'
  BY <1>1 DEF FrameInv
<1>2. CASE CoreStep
  <2>1. UNCHANGED tick
    BY <1>2 DEF CoreStep, Offer, OfferUnlock, OfferFlag, Discard, DiscardEnd, Mark, MarkFallback,
                PushProgrammer
  <2> QED BY <1>1, <2>1 DEF tick, render
<1>3. CASE \E v \in Values, go \in BOOLEAN, what \in Hands \cup {"nothing"} :
             CarryOut(v, go, what)
  BY <1>1, <1>3 DEF CarryOut, tick, render
<1>4. CASE TickBegin \/ RenderBody \/ RenderFollow \/ DrainPanic \/ UNCHANGED vars
  BY <1>1, <1>4 DEF TickBegin, RenderBody, RenderFollow, DrainPanic, vars, tick, render
<1>5. CASE Drain
  BY <1>5, DrainDoes DEF FrameInv
<1>6. CASE Render
  <2>1. body.edition \in 0 .. MaxEdition
    BY DEF Typed, TickTyped, Bodies
  <2>2. frame' \subseteq {body.edition} /\ body' = body
    BY <1>6 DEF Render, Painted, FrameInv
  <2> QED BY <2>1, <2>2 DEF FrameInv
<1>7. CASE Take
  BY <1>1, <1>7, TakeDoes
<1>8. CASE Change
  BY <1>8, ChangeDoes DEF FrameInv
<1> QED BY <1>2, <1>3, <1>4, <1>5, <1>6, <1>7, <1>8 DEF Next, TickStep

\* A frame shows the channels of one patch only, whatever panics fall between
\* an adoption and the frame that follows it.
THEOREM OnePatchIsLit == Spec => []NoGhostChannels
<1>1. FrameInv => Cardinality(frame) <= 1
  <2> SUFFICES ASSUME FrameInv PROVE Cardinality(frame) <= 1
    OBVIOUS
  <2>1. PICK e \in 0 .. MaxEdition : frame \subseteq {e}
    BY DEF FrameInv
  <2>2. frame = {} \/ frame = {e}
    BY <2>1
  <2> QED BY <2>2, FS_EmptySet, FS_Singleton
<1>2. Typed /\ FrameInv => NoGhostChannels
  BY <1>1, TypedIsTypeOK DEF NoGhostChannels
<1> QED BY <1>2, TypeInit, TypeStep, FrameInit, FrameStep, PTL DEF Spec

-----------------------------------------------------------------------------
(* The body built last is the one that runs                                *)

Held == hand = "body" /\ got # Empty

\* The newest edition lies in the slot; if the slot is empty, in the tick's
\* hand; if that is empty too, it runs.
LatestInv ==
    /\ slot["body"] # Empty => slot["body"][1].edition = intended.edition
    /\ slot["body"] = Empty /\ Held => got[1].edition = intended.edition
    /\ slot["body"] = Empty /\ ~ Held => body.edition = intended.edition

LEMMA LatestInit == Init => LatestInv
  BY DEF Init, LatestInv, Held, Hands

LEMMA LatestStep == Typed /\ LatestInv /\ [Next]_vars => LatestInv'
<1> SUFFICES ASSUME Typed, LatestInv, [Next]_vars PROVE LatestInv'
  OBVIOUS
<1>0. SharedTyped /\ CoreTyped /\ TickTyped
  BY DEF Typed
<1>1. ASSUME slot'["body"] = slot["body"], UNCHANGED <<hand, got>>,
             body'.edition = body.edition, intended'.edition = intended.edition
      PROVE  LatestInv'
  BY <1>1 DEF LatestInv, Held
<1>2. CASE Offer
  <2>1. Built(op) \in Items(op) /\ op \in Hands /\ intended \in Bodies
        /\ slot = [h \in Hands |-> slot[h]]
    BY <1>0, BuiltDoes DEF CoreTyped, TickTyped, SharedTyped
  <2>2. slot' = [slot EXCEPT ![op] = <<Built(op)>>] /\ intended' = Adopted(intended, op, Built(op))
    BY <1>2 DEF Offer
  <2>3. CASE op = "body"
    <3>1. intended' = Built(op) /\ slot'["body"] = <<Built(op)>>
      BY <2>1, <2>2, <2>3, AdoptedDoes
    <3>2. slot'["body"] # Empty /\ slot'["body"][1] = Built(op)
      BY <3>1, OneOfHas
    <3> QED BY <3>1, <3>2 DEF LatestInv
  <2>4. CASE op = "follow"
    <3>1. intended'.edition = intended.edition /\ slot'["body"] = slot["body"]
      BY <2>1, <2>2, <2>4, AdoptedDoes DEF Hands
    <3> QED BY <1>1, <1>2, <3>1 DEF Offer, tick
  <2> QED BY <2>1, <2>3, <2>4 DEF Hands
<1>3. CASE Discard
  <2>1. slot'["body"] = slot["body"]
    BY <1>0, <1>3 DEF Discard, SharedTyped, Hands
  <2> QED BY <1>1, <1>3, <2>1 DEF Discard, tick, history
<1>4. CASE OfferUnlock \/ OfferFlag \/ DiscardEnd \/ Mark \/ MarkFallback
  BY <1>1, <1>4 DEF OfferUnlock, OfferFlag, DiscardEnd, Mark, MarkFallback, handOver, tick, history
<1>5. CASE PushProgrammer
  <2>1. intended'.edition = intended.edition
    <3>1. CASE prog = told
      BY <1>5, <3>1 DEF PushProgrammer
    <3>2. CASE prog # told
      BY <1>0, <1>5, <3>2, CommandsAre, SendDoes DEF PushProgrammer, CoreTyped
    <3> QED BY <3>1, <3>2
  <2> QED BY <1>1, <1>5, <2>1 DEF PushProgrammer, handOver, tick
<1>6. ASSUME NEW v \in Values, NEW go \in BOOLEAN, NEW what \in Hands \cup {"nothing"},
             CarryOut(v, go, what)
      PROVE  LatestInv'
  <2>1. intended'.edition = intended.edition
    <3>1. CASE ~ go
      BY <1>6, <3>1 DEF CarryOut
    <3>2. CASE go
      BY <1>6, <3>2, CommandsAre, SendDoes DEF CarryOut
    <3> QED BY <3>1, <3>2
  <2> QED BY <1>1, <1>6, <2>1 DEF CarryOut, handOver, tick
<1>7. CASE TickBegin \/ Render \/ DrainPanic \/ UNCHANGED vars
  BY <1>1, <1>7 DEF TickBegin, Render, DrainPanic, vars, handOver, tick, history
<1>8. CASE RenderBody \/ RenderFollow
  <2>1. got = Empty /\ got' = Empty
    BY <1>0, <1>8 DEF RenderBody, RenderFollow, TickTyped
  <2> QED BY <1>8, <2>1 DEF RenderBody, RenderFollow, handOver, history, LatestInv, Held
<1>9. CASE Drain
  <2>1. got = Empty /\ got' = Empty
    BY <1>0, <1>9, DrainDoes DEF TickTyped
  <2> QED BY <1>9, <2>1, DrainDoes DEF LatestInv, Held
<1>10. CASE Take
  <2>1. hand \in Hands
    BY <1>0 DEF TickTyped
  <2>2. CASE hand = "body"
    BY <1>10, <2>2, TakeDoes DEF LatestInv, Held
  <2>3. CASE hand = "follow"
    <3>1. "body" \in Hands /\ "body" # hand
      BY <2>3 DEF Hands
    <3>2. slot'["body"] = slot["body"]
      BY <1>10, <3>1, TakeDoes
    <3> QED BY <1>10, <2>3, <3>2, TakeDoes DEF LatestInv, Held
  <2> QED BY <2>1, <2>2, <2>3 DEF Hands
<1>11. CASE Change
  BY <1>11, ChangeDoes DEF LatestInv, Held
<1> QED BY <1>2, <1>3, <1>4, <1>5, <1>6, <1>7, <1>8, <1>9, <1>10, <1>11
        DEF Next, CoreStep, TickStep

\* Whatever overtakes whatever, and even with the queue full, the body that
\* ends up running is the one built last.
THEOREM NewestRuns == Spec => []NewestBodyRuns
<1>1. Typed /\ LatestInv => NewestBodyRuns
  BY DEF LatestInv, Held, NewestBodyRuns, Quiet, Typed, TickTyped, Hands
<1> QED BY <1>1, TypeInit, TypeStep, LatestInit, LatestStep, PTL DEF Spec

-----------------------------------------------------------------------------
(* Nothing that was offered is stranded                                    *)

\* A mutex is held where the code holds it, and nowhere else.
LockInv ==
    \A h \in Hands :
       /\ holder[h] = "tick" <=> tpc = "change" /\ hand = h
       /\ holder[h] = "core" <=> \/ cpc = "offered" /\ op = h
                                 \/ cpc = "discarded" /\ h = "follow"

LEMMA LockInit == Init => LockInv
  BY DEF Init, LockInv, Free

LEMMA LockStep == Typed /\ LockInv /\ [Next]_vars => LockInv'
<1> SUFFICES ASSUME Typed, LockInv, [Next]_vars PROVE LockInv'
  OBVIOUS
<1>0. /\ holder \in [Hands -> {Free, "core", "tick"}] /\ op \in Hands /\ hand \in Hands
      /\ cpc \in {"discard", "discarded"} => op = "body"
      /\ Free = "free" /\ Hands = {"body", "follow"} /\ "follow" \in Hands /\ "body" \in Hands
      /\ back \notin {"take", "change"}
  BY DEF Typed, SharedTyped, CoreTyped, TickTyped, Free, Hands
<1>1. ASSUME UNCHANGED <<holder, hand>>, cpc' \notin {"offered", "discarded"},
             cpc \notin {"offered", "discarded"}, tpc' = tpc
      PROVE  LockInv'
  BY <1>1 DEF LockInv
<1>2. ASSUME UNCHANGED <<holder, cpc, op>>, tpc' # "change", tpc # "change" PROVE LockInv'
  BY <1>2 DEF LockInv
<1>3. CASE Offer
  BY <1>0, <1>3 DEF Offer, LockInv, tick
<1>4. CASE OfferUnlock
  BY <1>0, <1>4 DEF OfferUnlock, LockInv, tick
<1>5. CASE Discard
  BY <1>0, <1>5 DEF Discard, LockInv, tick
<1>6. CASE DiscardEnd
  BY <1>0, <1>6 DEF DiscardEnd, LockInv, tick
<1>7. CASE OfferFlag \/ Mark \/ MarkFallback \/ PushProgrammer
  BY <1>1, <1>7 DEF OfferFlag, Mark, MarkFallback, PushProgrammer, tick, handOver
<1>8. CASE \E v \in Values, go \in BOOLEAN, what \in Hands \cup {"nothing"} :
             CarryOut(v, go, what)
  BY <1>1, <1>8 DEF CarryOut, tick, handOver
<1>9. CASE TickBegin \/ RenderBody \/ RenderFollow \/ DrainPanic \/ Render
  BY <1>2, <1>9 DEF TickBegin, RenderBody, RenderFollow, DrainPanic, Render, StartAdopting,
                    core, handOver
<1>10. CASE Drain
  <2>1. tpc' # "change"
    BY <1>10, DrainDoes
  <2> QED BY <1>2, <1>10, <2>1, DrainDoes
<1>11. CASE Take
  <2>1. /\ tpc = "take" /\ UNCHANGED <<cpc, op>>
        /\ \/ tpc' = "change" /\ hand' = hand /\ holder[hand] = Free
              /\ holder' = [holder EXCEPT ![hand] = "tick"]
           \/ tpc' = back /\ holder' = holder
    BY <1>11, TakeDoes
  <2>2. CASE tpc' = "change"
    BY <1>0, <2>1, <2>2 DEF LockInv
  <2>3. CASE tpc' # "change"
    BY <1>0, <1>2, <2>1, <2>3
  <2> QED BY <2>2, <2>3
<1>12. CASE Change
  <2>1. tpc = "change" /\ tpc' = back /\ holder' = [holder EXCEPT ![hand] = Free]
        /\ UNCHANGED <<cpc, op>>
    BY <1>12, ChangeDoes DEF Change
  <2> QED BY <1>0, <2>1 DEF LockInv
<1>13. CASE UNCHANGED vars
  BY <1>13 DEF vars, handOver, core, tick, LockInv
<1> QED BY <1>3, <1>4, <1>5, <1>6, <1>7, <1>8, <1>9, <1>10, <1>11, <1>12, <1>13
        DEF Next, CoreStep, TickStep

Marked(h) == \E i \in 1 .. Len(queue) : queue[i] = Adopt(h)

\* What lies in a slot is on its way: the core has yet to mark it, or it is
\* flagged and something will make the tick look -- a marker, the fallback, or
\* the attempt that is under way.
OnItsWay(h) ==
    slot[h] # Empty =>
      \/ cpc \in Offering /\ op = h /\ (cpc \in {"offered", "flag"} \/ waiting[h])
      \/ waiting[h] /\ (Marked(h) \/ unmarked[h] \/ (tpc = "take" /\ hand = h))

\* While the tick holds what it took, and while the core discards, the slot is
\* empty.
Emptied(h) ==
    /\ tpc = "change" /\ hand = h => slot[h] = Empty
    /\ cpc = "discarded" => slot["follow"] = Empty

ArrivalInv == \A h \in Hands : OnItsWay(h) /\ Emptied(h)

LEMMA ArrivalInit == Init => ArrivalInv
  BY DEF Init, ArrivalInv, OnItsWay, Emptied, Hands

\* A marker stays in the queue while commands are added to it.
LEMMA MarkedGrows ==
    ASSUME Typed, NEW h \in Hands, NEW c, queue' = queue \/ queue' = Append(queue, c)
    PROVE  /\ Marked(h) => Marked(h)'
           /\ queue' = Append(queue, c) /\ c = Adopt(h) => Marked(h)'
<1>1. queue \in Seq(Commands) /\ Len(queue) \in Nat
  BY DEF Typed, SharedTyped
<1>2. CASE queue' = queue
  <2>1. Len(queue') # Len(queue) + 1
    BY <1>1, <1>2
  <2>2. queue' = Append(queue, c) => Len(queue') = Len(queue) + 1
    BY <1>1
  <2> QED BY <1>2, <2>1, <2>2 DEF Marked
<1>3. CASE queue' = Append(queue, c)
  <2>1. Len(queue') = Len(queue) + 1 /\ queue'[Len(queue) + 1] = c
        /\ \A i \in 1 .. Len(queue) : queue'[i] = queue[i]
    BY <1>1, <1>3
  <2> QED BY <1>1, <1>3, <2>1 DEF Marked
<1> QED BY <1>2, <1>3

LEMMA ArrivalCore ==
    Typed /\ LockInv /\ ArrivalInv /\ CoreStep => ArrivalInv'
<1> SUFFICES ASSUME Typed, LockInv, ArrivalInv, CoreStep, NEW h \in Hands
             PROVE  OnItsWay(h)' /\ Emptied(h)'
  BY DEF ArrivalInv
<1>0. /\ slot = [g \in Hands |-> slot[g]] /\ waiting \in [Hands -> BOOLEAN]
      /\ unmarked \in [Hands -> BOOLEAN] /\ op \in Hands /\ hand \in Hands
      /\ cpc \in {"discard", "discarded"} => op = "body"
      /\ Free = "free" /\ Hands = {"body", "follow"} /\ "follow" \in Hands /\ "body" \in Hands
      /\ OnItsWay(h) /\ Emptied(h)
  BY DEF Typed, SharedTyped, CoreTyped, TickTyped, Free, Hands, ArrivalInv
<1>1. CASE Offer
  <2>1. cpc = "offer" /\ cpc' = "offered" /\ holder[op] = Free
        /\ slot' = [slot EXCEPT ![op] = <<Built(op)>>]
        /\ UNCHANGED <<queue, waiting, unmarked, op, tpc, hand>>
    BY <1>1 DEF Offer, flags, tick
  <2>2. ~ (tpc = "change" /\ hand = op)
    BY <1>0, <2>1 DEF LockInv
  <2>3. CASE h = op
    BY <2>1, <2>2, <2>3 DEF OnItsWay, Emptied, Offering
  <2>4. CASE h # op
    BY <1>0, <2>1, <2>4 DEF OnItsWay, Emptied, Offering, Marked
  <2> QED BY <2>3, <2>4
<1>2. CASE OfferUnlock
  BY <1>0, <1>2 DEF OfferUnlock, OnItsWay, Emptied, Offering, Marked, flags, tick
<1>3. CASE OfferFlag
  BY <1>0, <1>3 DEF OfferFlag, OnItsWay, Emptied, Offering, Marked, tick
<1>4. CASE Discard
  BY <1>0, <1>4 DEF Discard, OnItsWay, Emptied, Offering, Marked, flags, tick
<1>5. CASE DiscardEnd
  BY <1>0, <1>5 DEF DiscardEnd, OnItsWay, Emptied, Offering, Marked, tick
<1>6. CASE Mark
  <2>1. /\ cpc = "mark" /\ UNCHANGED <<slot, waiting, unmarked, op, tpc, hand>>
        /\ \/ queue' = Append(queue, Adopt(op)) /\ cpc' = "push"
           \/ queue' = queue /\ cpc' = "fallback"
    BY <1>6 DEF Mark, handOver, flags, tick
  <2>2. Marked(h) => Marked(h)'
    BY <2>1, MarkedGrows
  <2>3. queue' = Append(queue, Adopt(op)) /\ op = h => Marked(h)'
    BY <2>1, MarkedGrows
  <2> QED BY <1>0, <2>1, <2>2, <2>3 DEF OnItsWay, Emptied, Offering
<1>7. CASE MarkFallback
  BY <1>0, <1>7 DEF MarkFallback, OnItsWay, Emptied, Offering, Marked, tick
<1>8. CASE PushProgrammer
  <2>1. /\ cpc = "push" /\ cpc' = "idle" /\ UNCHANGED <<slot, waiting, unmarked, tpc, hand>>
        /\ \/ queue' = queue \/ queue' = Append(queue, SetProgrammer(prog))
    BY <1>8 DEF PushProgrammer, Send, handOver, flags, tick
  <2>2. Marked(h) => Marked(h)'
    BY <2>1, MarkedGrows
  <2> QED BY <1>0, <2>1, <2>2 DEF OnItsWay, Emptied, Offering
<1> QED BY <1>1, <1>2, <1>3, <1>4, <1>5, <1>6, <1>7, <1>8 DEF CoreStep

LEMMA ArrivalCarryOut ==
    ASSUME Typed, ArrivalInv, NEW v \in Values, NEW go \in BOOLEAN,
           NEW what \in Hands \cup {"nothing"}, CarryOut(v, go, what)
    PROVE  ArrivalInv'
<1> SUFFICES ASSUME NEW h \in Hands PROVE OnItsWay(h)' /\ Emptied(h)'
  BY DEF ArrivalInv
<1>1. /\ cpc = "idle" /\ cpc' \in {"push", "offer"}
      /\ UNCHANGED <<slot, waiting, unmarked, tpc, hand>>
      /\ \/ queue' = queue \/ queue' = Append(queue, Go)
  BY DEF CarryOut, Send, handOver, flags, tick
<1>2. Marked(h) => Marked(h)'
  BY <1>1, MarkedGrows
<1> QED BY <1>1, <1>2 DEF ArrivalInv, OnItsWay, Emptied, Offering

LEMMA ArrivalTick ==
    Typed /\ LockInv /\ ArrivalInv /\ (TickStep \/ DrainPanic) => ArrivalInv'
<1> SUFFICES ASSUME Typed, LockInv, ArrivalInv, TickStep \/ DrainPanic, NEW h \in Hands
             PROVE  OnItsWay(h)' /\ Emptied(h)'
  BY DEF ArrivalInv
<1>0. /\ holder \in [Hands -> {Free, "core", "tick"}] /\ op \in Hands /\ hand \in Hands
      /\ waiting \in [Hands -> BOOLEAN] /\ back \notin {"take", "change"}
      /\ OnItsWay(h) /\ Emptied(h)
  BY DEF Typed, SharedTyped, CoreTyped, TickTyped, ArrivalInv
<1>1. ASSUME UNCHANGED <<queue, slot, waiting, unmarked, cpc, op>>, tpc # "take", tpc' # "change"
      PROVE  OnItsWay(h)' /\ Emptied(h)'
  BY <1>0, <1>1 DEF OnItsWay, Emptied, Marked
<1>2. CASE TickBegin \/ RenderBody \/ RenderFollow \/ Render
  BY <1>1, <1>2 DEF TickBegin, RenderBody, RenderFollow, Render, StartAdopting, handOver, flags,
                    core
<1>3. ASSUME queue # << >>, Head(queue) = queue[1], Len(queue') = Len(queue) - 1,
             Len(queue) \in Nat, \A i \in 1 .. Len(queue') : queue'[i] = queue[i + 1],
             Head(queue) # Adopt(h), Marked(h)
      PROVE  Marked(h)'
  <2>1. PICK i \in 1 .. Len(queue) : queue[i] = Adopt(h)
    BY <1>3 DEF Marked
  <2>2. i # 1 /\ i - 1 \in 1 .. Len(queue')
    BY <1>3, <2>1
  <2>3. queue'[i - 1] = Adopt(h)
    BY <1>3, <2>1, <2>2
  <2> QED BY <2>2, <2>3 DEF Marked
<1>4. CASE Drain
  <2>1. CASE Head(queue) = Adopt(h)
    <3>1. tpc' = "take" /\ hand' = h
      BY <1>4, <2>1, CommandsAre, DrainDoes
    <3> QED BY <1>0, <1>4, <3>1, DrainDoes DEF OnItsWay, Emptied
  <2>2. CASE Head(queue) # Adopt(h)
    <3>1. Marked(h) => Marked(h)'
      BY <1>3, <1>4, <2>2, DrainDoes
    <3> QED BY <1>0, <1>4, <3>1, DrainDoes DEF OnItsWay, Emptied
  <2> QED BY <2>1, <2>2
<1>5. CASE DrainPanic
  <2>1. /\ tpc = "drain" /\ todo > 0 /\ queue' = Tail(queue) /\ Head(queue).kind # "adopt"
        /\ tpc' = "idle" /\ UNCHANGED <<slot, waiting, unmarked, cpc, op, hand>>
    BY <1>5 DEF DrainPanic, handOver, flags, core
  <2>2. Head(queue) # Adopt(h)
    BY <2>1, CommandsAre
  <2>3. Marked(h) => Marked(h)'
    BY <1>3, <2>1, <2>2, TailDoes
  <2> QED BY <1>0, <2>1, <2>3 DEF OnItsWay, Emptied
<1>6. CASE Take
  <2>1. tpc = "take" /\ UNCHANGED <<queue, waiting, cpc, op>>
    BY <1>6, TakeDoes
  <2>2. CASE waiting[hand] /\ holder[hand] = Free
    <3>1. /\ tpc' = "change" /\ hand' = hand /\ slot'[hand] = Empty
          /\ h # hand => slot'[h] = slot[h] /\ unmarked'[h] = unmarked[h]
      BY <1>6, <2>2, TakeDoes
    <3>2. cpc = "discarded" => slot'["follow"] = Empty
      BY <1>0, <1>6, <2>1, <3>1, TakeDoes DEF Emptied, Hands
    <3> QED BY <1>0, <2>1, <3>1, <3>2 DEF OnItsWay, Emptied, Marked
  <2>3. CASE ~ (waiting[hand] /\ holder[hand] = Free)
    <3>1. /\ tpc' = back /\ slot' = slot
          /\ h # hand => unmarked'[h] = unmarked[h]
      BY <1>6, <2>3, TakeDoes
    <3>2. CASE h # hand
      BY <1>0, <2>1, <3>1, <3>2 DEF OnItsWay, Emptied, Marked
    <3>3. CASE h = hand /\ ~ waiting[hand]
      BY <1>0, <2>1, <3>1, <3>3 DEF OnItsWay, Emptied, Marked
    <3>4. CASE h = hand /\ holder[hand] # Free
      <4>1. holder[hand] = "core"
        BY <1>0, <2>1, <3>4 DEF LockInv
      <4>2. (cpc = "offered" /\ op = h) \/ (cpc = "discarded" /\ h = "follow")
        BY <1>0, <3>4, <4>1 DEF LockInv
      <4> QED BY <1>0, <2>1, <3>1, <4>2 DEF OnItsWay, Emptied, Offering
    <3> QED BY <2>3, <3>2, <3>3, <3>4
  <2> QED BY <2>2, <2>3
<1>7. CASE Change
  <2>1. /\ tpc = "change" /\ tpc' = back /\ waiting' = [waiting EXCEPT ![hand] = FALSE]
        /\ UNCHANGED <<queue, slot, unmarked, cpc, op>>
    BY <1>7, ChangeDoes DEF Change
  <2>2. h = hand => slot[h] = Empty
    BY <1>0, <2>1 DEF Emptied
  <2>3. h # hand => waiting'[h] = waiting[h]
    BY <1>0, <2>1
  <2>4. tpc' # "change" /\ tpc # "take"
    BY <1>0, <2>1
  <2>5. CASE h = hand
    BY <1>0, <2>1, <2>2, <2>4, <2>5 DEF OnItsWay, Emptied
  <2>6. CASE h # hand
    BY <1>0, <2>1, <2>3, <2>4, <2>6 DEF OnItsWay, Emptied, Marked
  <2> QED BY <2>5, <2>6
<1> QED BY <1>2, <1>4, <1>5, <1>6, <1>7 DEF TickStep

LEMMA ArrivalStep == Typed /\ LockInv /\ ArrivalInv /\ [Next]_vars => ArrivalInv'
<1>1. ArrivalInv /\ UNCHANGED vars => ArrivalInv'
  BY DEF vars, handOver, flags, core, tick, ArrivalInv, OnItsWay, Emptied, Marked
<1> QED BY <1>1, ArrivalCore, ArrivalTick, ArrivalCarryOut DEF Next

\* At rest, with nothing in the queue, whatever still lies in a slot has both
\* its flags up, so that the next frame takes it: no refused marker and no
\* failed try_lock has stranded it (install, adopt_waiting_body).
NothingStranded ==
    \A h \in Hands :
       queue = << >> /\ cpc = "idle" /\ tpc = "idle" /\ slot[h] # Empty
         => waiting[h] /\ unmarked[h]

\* A body that was offered is never stranded, however full the queue was and
\* whoever held the mutex when the tick tried it.
THEOREM OfferedIsMarked == Spec => []NothingStranded
<1>1. ArrivalInv => NothingStranded
  BY DEF ArrivalInv, OnItsWay, Marked, Offering, NothingStranded
<1> QED BY <1>1, TypeInit, TypeStep, LockInit, LockStep, ArrivalInit, ArrivalStep, PTL DEF Spec

-----------------------------------------------------------------------------
(* The order is kept                                                       *)

\* r is the programmer p after the commands of q behind the first k.
ProgAfter(p, q, k, r) ==
    \/ r = p /\ \A i \in k + 1 .. Len(q) : q[i].kind # "set"
    \/ \E i \in k + 1 .. Len(q) :
         /\ q[i].kind = "set" /\ q[i].arg = r
         /\ \A j \in i + 1 .. Len(q) : q[j].kind # "set"

\* c is what b becomes under the commands of q behind the first k.
Becomes(b, q, k, c) ==
    /\ c.edition = b.edition /\ c.follow = b.follow
    /\ c.playing = TRUE <=>
         b.playing = TRUE \/ \E i \in k + 1 .. Len(q) : q[i].kind = "go"
    /\ ProgAfter(b.prog, q, k, c.prog)

LEMMA BecomesNothing ==
    ASSUME NEW b \in Bodies, NEW c \in Bodies, NEW q \in Seq(Commands)
    PROVE  Becomes(b, q, Len(q), c) <=> c = b
<1>1. Len(q) \in Nat /\ Len(q) + 1 .. Len(q) = {}
  OBVIOUS
<1>2. Becomes(b, q, Len(q), c) <=> /\ c.edition = b.edition /\ c.follow = b.follow
                                   /\ c.playing = TRUE <=> b.playing = TRUE
                                   /\ c.prog = b.prog
  BY <1>1 DEF Becomes, ProgAfter
<1>3. b.playing \in BOOLEAN /\ c.playing \in BOOLEAN
  BY DEF Bodies
<1>4. /\ b = [edition |-> b.edition, follow |-> b.follow, prog |-> b.prog, playing |-> b.playing]
      /\ c = [edition |-> c.edition, follow |-> c.follow, prog |-> c.prog, playing |-> c.playing]
  BY DEF Bodies
<1>5. (c.playing = TRUE <=> b.playing = TRUE) <=> c.playing = b.playing
  BY <1>3
<1> QED BY <1>2, <1>4, <1>5

\* A command at the end moves the outcome as it moves a body.
LEMMA BecomesAppend ==
    ASSUME NEW b \in Bodies, NEW c \in Bodies, NEW q \in Seq(Commands),
           NEW k \in 0 .. Len(q), NEW m \in Commands, m.kind # "adopt", Becomes(b, q, k, c)
    PROVE  Becomes(b, Append(q, m), k, Applied(c, m))
<1> DEFINE p == Append(q, m)
           d == Applied(c, m)
           n == Len(q)
<1>1. n \in Nat /\ Len(p) = n + 1 /\ p[n + 1] = m /\ \A i \in 1 .. n : p[i] = q[i]
  OBVIOUS
<1>2. /\ d.edition = c.edition /\ d.follow = c.follow
      /\ d.prog = IF m.kind = "set" THEN m.arg ELSE c.prog
      /\ d.playing = IF m.kind = "go" THEN TRUE ELSE c.playing
  BY AppliedDoes
<1> HIDE DEF p, d, n
<1>3. (\E i \in k + 1 .. n + 1 : p[i].kind = "go")
        <=> (m.kind = "go" \/ \E i \in k + 1 .. n : q[i].kind = "go")
  BY <1>1 DEF n
<1>4. d.playing = TRUE <=> b.playing = TRUE \/ \E i \in k + 1 .. Len(p) : p[i].kind = "go"
  BY <1>1, <1>2, <1>3 DEF Becomes, n
<1>5. ProgAfter(b.prog, p, k, d.prog)
  <2>1. CASE m.kind = "set"
    <3>1. n + 1 \in k + 1 .. Len(p) /\ p[n + 1].kind = "set" /\ p[n + 1].arg = d.prog
          /\ \A j \in n + 2 .. Len(p) : p[j].kind # "set"
      BY <1>1, <1>2, <2>1 DEF n
    <3> QED BY <1>1, <3>1 DEF ProgAfter
  <2>2. CASE m.kind # "set"
    <3>1. ProgAfter(b.prog, q, k, c.prog) /\ d.prog = c.prog
      BY <1>2, <2>2 DEF Becomes
    <3>2. CASE c.prog = b.prog /\ \A i \in k + 1 .. n : q[i].kind # "set"
      <4>1. \A i \in k + 1 .. Len(p) : p[i].kind # "set"
        BY <1>1, <2>2, <3>2 DEF n
      <4> QED BY <3>1, <3>2, <4>1 DEF ProgAfter
    <3>3. ASSUME NEW i \in k + 1 .. n, q[i].kind = "set", q[i].arg = c.prog,
                 \A j \in i + 1 .. n : q[j].kind # "set"
          PROVE  ProgAfter(b.prog, p, k, d.prog)
      <4>1. i \in k + 1 .. Len(p) /\ p[i] = q[i]
        BY <1>1 DEF n
      <4>2. \A j \in i + 1 .. Len(p) : p[j].kind # "set"
        BY <1>1, <2>2, <3>3 DEF n
      <4> QED BY <3>1, <3>3, <4>1, <4>2 DEF ProgAfter
    <3> QED BY <3>1, <3>2, <3>3 DEF ProgAfter, n
  <2> QED BY <2>1, <2>2
<1> QED BY <1>2, <1>4, <1>5 DEF Becomes, p, d

\* A marker at the end moves nothing.
LEMMA BecomesMarker ==
    ASSUME NEW b \in Bodies, NEW c \in Bodies, NEW q \in Seq(Commands),
           NEW k \in 0 .. Len(q), NEW h \in Hands, Becomes(b, q, k, c)
    PROVE  Becomes(b, Append(q, Adopt(h)), k, c)
<1> DEFINE p == Append(q, Adopt(h))
           n == Len(q)
<1>1. n \in Nat /\ Len(p) = n + 1 /\ p[n + 1].kind = "adopt" /\ \A i \in 1 .. n : p[i] = q[i]
  BY CommandsAre
<1> HIDE DEF p, n
<1>2. (\E i \in k + 1 .. Len(p) : p[i].kind = "go")
        <=> (\E i \in k + 1 .. n : q[i].kind = "go")
  BY <1>1 DEF n
<1>3. ProgAfter(b.prog, p, k, c.prog)
  <2>1. CASE c.prog = b.prog /\ \A i \in k + 1 .. n : q[i].kind # "set"
    <3>1. \A i \in k + 1 .. Len(p) : p[i].kind # "set"
      BY <1>1, <2>1 DEF n
    <3> QED BY <2>1, <3>1 DEF ProgAfter
  <2>2. ASSUME NEW i \in k + 1 .. n, q[i].kind = "set", q[i].arg = c.prog,
               \A j \in i + 1 .. n : q[j].kind # "set"
        PROVE  ProgAfter(b.prog, p, k, c.prog)
    <3>1. i \in k + 1 .. Len(p) /\ p[i] = q[i]
      BY <1>1 DEF n
    <3>2. \A j \in i + 1 .. Len(p) : p[j].kind # "set"
      BY <1>1, <2>2 DEF n
    <3> QED BY <2>2, <3>1, <3>2 DEF ProgAfter
  <2> QED BY <2>1, <2>2 DEF Becomes, ProgAfter, n
<1> QED BY <1>2, <1>3 DEF Becomes, p, n

\* The commands in front of the first k do not count.
LEMMA BecomesTail ==
    ASSUME NEW b \in Bodies, NEW c \in Bodies, NEW q \in Seq(Commands), NEW p \in Seq(Commands),
           q # << >>, Len(p) = Len(q) - 1, \A i \in 1 .. Len(p) : p[i] = q[i + 1],
           NEW k \in 1 .. Len(q), Becomes(b, q, k, c)
    PROVE  Becomes(b, p, k - 1, c)
<1>1. Len(q) \in Nat /\ k \in Nat /\ k >= 1
  OBVIOUS
<1>2. \A i \in k + 1 .. Len(q) : i - 1 \in (k - 1) + 1 .. Len(p) /\ p[i - 1] = q[i]
  BY <1>1
<1>3. \A i \in (k - 1) + 1 .. Len(p) : i + 1 \in k + 1 .. Len(q) /\ p[i] = q[i + 1]
  BY <1>1
<1>4. (\E i \in (k - 1) + 1 .. Len(p) : p[i].kind = "go")
        <=> (\E i \in k + 1 .. Len(q) : q[i].kind = "go")
  BY <1>2, <1>3
<1>5. ProgAfter(b.prog, p, k - 1, c.prog)
  <2>1. CASE c.prog = b.prog /\ \A i \in k + 1 .. Len(q) : q[i].kind # "set"
    <3>1. \A i \in (k - 1) + 1 .. Len(p) : p[i].kind # "set"
      BY <1>3, <2>1
    <3> QED BY <2>1, <3>1 DEF ProgAfter
  <2>2. ASSUME NEW i \in k + 1 .. Len(q), q[i].kind = "set", q[i].arg = c.prog,
               \A j \in i + 1 .. Len(q) : q[j].kind # "set"
        PROVE  ProgAfter(b.prog, p, k - 1, c.prog)
    <3>1. i - 1 \in (k - 1) + 1 .. Len(p) /\ p[i - 1] = q[i]
      BY <1>2
    <3>2. \A j \in (i - 1) + 1 .. Len(p) : p[j].kind # "set"
      <4> SUFFICES ASSUME NEW j \in (i - 1) + 1 .. Len(p) PROVE p[j].kind # "set"
        OBVIOUS
      <4>1. j + 1 \in i + 1 .. Len(q) /\ p[j] = q[j + 1]
        BY <1>1, <1>3
      <4> QED BY <2>2, <4>1
    <3> QED BY <2>2, <3>1, <3>2 DEF ProgAfter
  <2> QED BY <2>1, <2>2 DEF Becomes, ProgAfter
<1> QED BY <1>4, <1>5 DEF Becomes

\* The oldest command is applied: the rest does what is left to do.
LEMMA BecomesHead ==
    ASSUME NEW b \in Bodies, NEW c \in Bodies, NEW q \in Seq(Commands), NEW p \in Seq(Commands),
           q # << >>, Len(p) = Len(q) - 1, \A i \in 1 .. Len(p) : p[i] = q[i + 1],
           Becomes(b, q, 0, c)
    PROVE  /\ q[1].kind # "adopt" => Becomes(Applied(b, q[1]), p, 0, c)
           /\ q[1].kind = "adopt" => Becomes(b, p, 0, c)
<1> DEFINE d == IF q[1].kind = "adopt" THEN b ELSE Applied(b, q[1])
<1>1. Len(q) \in Nat /\ Len(q) >= 1 /\ q[1] \in Commands
  OBVIOUS
<1>2. /\ d \in Bodies /\ d.edition = b.edition /\ d.follow = b.follow
      /\ d.prog = IF q[1].kind = "set" THEN q[1].arg ELSE b.prog
      /\ d.playing = IF q[1].kind = "go" THEN TRUE ELSE b.playing
  BY <1>1, AppliedDoes
<1>3. q[1].kind = "adopt" => d = b
  OBVIOUS
<1>4. q[1].kind # "adopt" => d = Applied(b, q[1])
  OBVIOUS
<1> HIDE DEF d
<1>5. \A i \in 2 .. Len(q) : i - 1 \in 1 .. Len(p) /\ p[i - 1] = q[i]
  BY <1>1
<1>6. Becomes(d, q, 1, c)
  <2>1. c.playing = TRUE <=> d.playing = TRUE \/ \E i \in 2 .. Len(q) : q[i].kind = "go"
    <3>1. (\E i \in 1 .. Len(q) : q[i].kind = "go")
            <=> (q[1].kind = "go" \/ \E i \in 2 .. Len(q) : q[i].kind = "go")
      BY <1>1
    <3>2. c.playing = TRUE <=> b.playing = TRUE \/ \E i \in 1 .. Len(q) : q[i].kind = "go"
      BY DEF Becomes
    <3> QED BY <1>2, <3>1, <3>2
  <2>2. ProgAfter(d.prog, q, 1, c.prog)
    <3>1. CASE c.prog = b.prog /\ \A i \in 1 .. Len(q) : q[i].kind # "set"
      BY <1>1, <1>2, <3>1 DEF ProgAfter
    <3>2. ASSUME NEW i \in 1 .. Len(q), q[i].kind = "set", q[i].arg = c.prog,
                 \A j \in i + 1 .. Len(q) : q[j].kind # "set"
          PROVE  ProgAfter(d.prog, q, 1, c.prog)
      <4>1. CASE i = 1
        BY <1>2, <3>2, <4>1 DEF ProgAfter
      <4>2. CASE i # 1
        <5>1. i \in 2 .. Len(q)
          BY <4>2
        <5> QED BY <3>2, <5>1 DEF ProgAfter
      <4> QED BY <4>1, <4>2
    <3> QED BY <3>1, <3>2 DEF Becomes, ProgAfter
  <2> QED BY <1>2, <2>1, <2>2 DEF Becomes
<1>7. Becomes(d, p, 0, c)
  BY <1>1, <1>2, <1>6, BecomesTail
<1> QED BY <1>3, <1>4, <1>7

\* A new follow layer commutes with commands.
LEMMA BecomesFollow ==
    ASSUME NEW b \in Bodies, NEW c \in Bodies, NEW q, NEW k, NEW e
    PROVE  /\ Becomes(b, q, k, c) =>
                Becomes([b EXCEPT !.follow = e], q, k, [c EXCEPT !.follow = e])
           /\ \A m \in Commands : m.kind # "adopt" =>
                Applied([b EXCEPT !.follow = e], m) = [Applied(b, m) EXCEPT !.follow = e]
<1>1. Becomes(b, q, k, c) =>
                Becomes([b EXCEPT !.follow = e], q, k, [c EXCEPT !.follow = e])
  BY DEF Becomes, Bodies
<1>2. ASSUME NEW m \in Commands, m.kind # "adopt"
      PROVE  Applied([b EXCEPT !.follow = e], m) = [Applied(b, m) EXCEPT !.follow = e]
  <2>1. m.kind = "set" \/ m.kind = "go"
    BY <1>2, CommandIs
  <2>2. CASE m.kind = "set"
    BY <2>2 DEF Applied, Bodies
  <2>3. CASE m.kind = "go"
    BY <2>3 DEF Applied, Bodies
  <2> QED BY <2>1, <2>2, <2>3
<1> QED BY <1>1, <1>2

NoMarker == \A i \in 1 .. Len(queue) : queue[i].kind # "adopt"
Adopting == tpc \in {"take", "change"}
Other(h) == IF h = "body" THEN "follow" ELSE "body"

\* What is intended is what the commands behind the first k make of the item
\* that waits for the tick; a follow layer may as well be there already.
Ahead(h, item, k) ==
    /\ item \in Items(h)
    /\ h = "body" => Becomes(item, queue, k, intended)
    /\ h = "follow" => Becomes([body EXCEPT !.follow = item], queue, 0, intended)

\* Where the one thing that is being installed can be.
Nothing ==
    /\ NoMarker /\ ~ Adopting /\ cpc \notin Offering /\ \A h \in Hands : slot[h] = Empty
    /\ Becomes(body, queue, 0, intended)
Offered ==
    /\ NoMarker /\ ~ Adopting /\ cpc \in Offering \ {"fallback"}
    /\ slot[op] # Empty /\ slot[Other(op)] = Empty
    /\ cpc \notin {"offered", "flag"} => waiting[op]
    /\ Ahead(op, slot[op][1], Len(queue))
MarkedAt(h, k) ==
    /\ queue[k] = Adopt(h) /\ \A i \in 1 .. Len(queue) : i # k => queue[i].kind # "adopt"
    /\ ~ Adopting /\ cpc \notin Offering /\ waiting[h]
    /\ slot[h] # Empty /\ slot[Other(h)] = Empty
    /\ Ahead(h, slot[h][1], k)
Reached ==
    /\ NoMarker /\ tpc = "take" /\ cpc \notin Offering /\ waiting[hand]
    /\ slot[hand] # Empty /\ slot[Other(hand)] = Empty
    /\ Ahead(hand, slot[hand][1], 0)
Taken ==
    /\ NoMarker /\ tpc = "change" /\ cpc \notin Offering
    /\ got # Empty /\ (\A h \in Hands : slot[h] = Empty)
    /\ Ahead(hand, got[1], 0)

Phase ==
    \/ Nothing \/ Offered \/ Reached \/ Taken
    \/ \E h \in Hands, k \in 1 .. Len(queue) : MarkedAt(h, k)

\* As long as nothing overtook and nothing was lost, the order is intact.
OrderInv == ~ overtaken /\ ~ lost => Phase /\ \A h \in Hands : ~ unmarked[h]

LEMMA OrderInit == Init => OrderInv
<1> SUFFICES ASSUME Init PROVE Nothing /\ \A h \in Hands : ~ unmarked[h]
  BY DEF OrderInv, Phase
<1>1. PICK v \in Values : body = Body(0, v) /\ intended = Body(0, v)
  BY DEF Init
<1>2. body \in Bodies /\ intended = body /\ queue = << >> /\ queue \in Seq(Commands)
      /\ Len(queue) = 0
  BY <1>1, HandOffAssumption DEF Init, Body, Bodies
<1>3. Becomes(body, queue, 0, intended)
  BY <1>2, BecomesNothing
<1> QED BY <1>2, <1>3 DEF Init, Nothing, NoMarker, Adopting, Offering

\* What Typed says where the order is at stake.
LEMMA OrderTypes ==
    ASSUME Typed
    PROVE  /\ queue \in Seq(Commands) /\ Len(queue) \in Nat /\ Len(queue) \in 0 .. Len(queue)
           /\ 0 \in 0 .. Len(queue)
           /\ body \in Bodies /\ intended \in Bodies /\ op \in Hands /\ hand \in Hands
           /\ slot = [h \in Hands |-> slot[h]] /\ waiting \in [Hands -> BOOLEAN]
           /\ unmarked \in [Hands -> BOOLEAN]
           /\ holder \in [Hands -> {Free, "core", "tick"}]
           /\ Hands = {"body", "follow"} /\ "body" \in Hands /\ "follow" \in Hands
           /\ back \notin {"take", "change"}
           /\ \A e \in Items("follow") : [body EXCEPT !.follow = e] \in Bodies
           /\ Items("body") = Bodies
           /\ \A h \in Hands : Other(h) \in Hands /\ Other(h) # h
                               /\ \A g \in Hands : g # h => g = Other(h)
  BY DEF Typed, SharedTyped, CoreTyped, TickTyped, Hands, Items, Bodies, Other

\* A command at the end of the queue keeps the outlook.
LEMMA AheadAppend ==
    ASSUME Typed, NEW h \in Hands, NEW item, NEW k \in 0 .. Len(queue), Ahead(h, item, k),
           NEW m \in Commands, m.kind # "adopt",
           queue' = Append(queue, m), intended' = Applied(intended, m), body' = body
    PROVE  Ahead(h, item, k)'
<1>1. h = "body" => Becomes(item, queue', k, intended')
  BY OrderTypes, BecomesAppend DEF Ahead
<1>2. h = "follow" => Becomes([body EXCEPT !.follow = item], queue', 0, intended')
  BY OrderTypes, BecomesAppend DEF Ahead
<1> QED BY <1>1, <1>2 DEF Ahead

\* So does the oldest command, when it is not behind the item.
LEMMA AheadDrain ==
    ASSUME Typed, NEW h \in Hands, NEW item, NEW k \in 1 .. Len(queue), Ahead(h, item, k),
           Drain, Typed', queue[1].kind = "adopt" => k = 1
    PROVE  Ahead(h, item, k - 1)'
<1>1. /\ queue # << >> /\ Head(queue) = queue[1] /\ queue[1] \in Commands
      /\ Len(queue') = Len(queue) - 1 /\ \A i \in 1 .. Len(queue') : queue'[i] = queue[i + 1]
      /\ intended' = intended
      /\ body' = IF queue[1].kind = "adopt" THEN body ELSE Applied(body, queue[1])
  BY DrainDoes
<1>2. queue \in Seq(Commands) /\ queue' \in Seq(Commands) /\ intended \in Bodies
      /\ body \in Bodies
  BY OrderTypes DEF Typed, SharedTyped
<1>3. h = "body" => Becomes(item, queue', k - 1, intended')
  BY <1>1, <1>2, OrderTypes, BecomesTail DEF Ahead
<1>4. ASSUME h = "follow" PROVE Becomes([body' EXCEPT !.follow = item], queue', 0, intended')
  <2> DEFINE b == [body EXCEPT !.follow = item]
  <2>1. b \in Bodies /\ Becomes(b, queue, 0, intended)
    BY <1>4, OrderTypes DEF Ahead
  <2>2. /\ queue[1].kind # "adopt" => Becomes(Applied(b, queue[1]), queue', 0, intended)
        /\ queue[1].kind = "adopt" => Becomes(b, queue', 0, intended)
    BY <1>1, <1>2, <2>1, BecomesHead
  <2>3. queue[1].kind # "adopt" => Applied(b, queue[1]) = [body' EXCEPT !.follow = item]
    BY <1>1, <1>2, BecomesFollow
  <2>4. queue[1].kind = "adopt" => b = [body' EXCEPT !.follow = item]
    BY <1>1
  <2> QED BY <1>1, <2>2, <2>3, <2>4
<1> QED BY <1>3, <1>4 DEF Ahead

LEMMA PhaseSent ==
    ASSUME Typed, Phase, cpc \notin Offering, cpc' \notin Offering,
           UNCHANGED <<slot, waiting, tpc, hand, got, body>>,
           \/ UNCHANGED <<queue, intended>>
           \/ \E m \in Commands : m.kind # "adopt" /\ queue' = Append(queue, m)
                                  /\ intended' = Applied(intended, m)
    PROVE  Phase'
<1>1. CASE UNCHANGED <<queue, intended>>
  BY <1>1 DEF Phase, Nothing, Offered, Reached, Taken, MarkedAt, NoMarker, Adopting, Ahead
<1>2. ASSUME NEW m \in Commands, m.kind # "adopt", queue' = Append(queue, m),
             intended' = Applied(intended, m)
      PROVE  Phase'
  <2>0. queue \in Seq(Commands) /\ Len(queue) \in Nat /\ body \in Bodies /\ intended \in Bodies
        /\ hand \in Hands /\ 0 \in 0 .. Len(queue)
    BY OrderTypes
  <2>1. Len(queue') = Len(queue) + 1 /\ queue'[Len(queue) + 1] = m
        /\ \A i \in 1 .. Len(queue) : queue'[i] = queue[i]
    BY <1>2, <2>0
  <2>2. NoMarker => NoMarker'
    BY <1>2, <2>0, <2>1 DEF NoMarker
  <2>3. CASE Nothing
    <3>1. Becomes(body, queue', 0, intended')
      BY <1>2, <2>0, <2>3, BecomesAppend DEF Nothing
    <3> QED BY <2>2, <2>3, <3>1 DEF Phase, Nothing, Adopting
  <2>4. CASE Reached
    <3>1. Ahead(hand, slot[hand][1], 0)'
      BY <1>2, <2>0, <2>4, AheadAppend DEF Reached
    <3> QED BY <2>2, <2>4, <3>1 DEF Phase, Reached
  <2>5. CASE Taken
    <3>1. Ahead(hand, got[1], 0)'
      BY <1>2, <2>0, <2>5, AheadAppend DEF Taken
    <3> QED BY <2>2, <2>5, <3>1 DEF Phase, Taken
  <2>6. ASSUME NEW h \in Hands, NEW k \in 1 .. Len(queue), MarkedAt(h, k)
        PROVE  Phase'
    <3>1. Ahead(h, slot[h][1], k)'
      BY <1>2, <2>0, <2>6, AheadAppend DEF MarkedAt
    <3>2. queue'[k] = Adopt(h) /\ \A i \in 1 .. Len(queue') : i # k => queue'[i].kind # "adopt"
      BY <1>2, <2>0, <2>1, <2>6 DEF MarkedAt
    <3>3. MarkedAt(h, k)' /\ k \in 1 .. Len(queue')
      BY <2>0, <2>1, <2>6, <3>1, <3>2 DEF MarkedAt, Adopting
    <3> QED BY <3>3 DEF Phase
  <2>7. ~ Offered
    BY DEF Offered
  <2> QED BY <2>3, <2>4, <2>5, <2>6, <2>7 DEF Phase
<1> QED BY <1>1, <1>2

\* What a sent command is to the order: appended and intended, or lost.
LEMMA SentInOrder ==
    ASSUME Typed, NEW c \in Commands, c.kind # "adopt", Send(c), ~ lost'
    PROVE  /\ \E m \in Commands : m.kind # "adopt" /\ queue' = Append(queue, m)
                                  /\ intended' = Applied(intended, m)
           /\ lost' = lost
  BY SendDoes

LEMMA OrderCore ==
    Typed /\ OrderInv /\ CoreStep => OrderInv'
<1> SUFFICES ASSUME Typed, OrderInv, CoreStep, ~ overtaken', ~ lost'
             PROVE  Phase' /\ \A h \in Hands : ~ unmarked'[h]
  BY DEF OrderInv
<1>0. /\ queue \in Seq(Commands) /\ Len(queue) \in Nat /\ Len(queue) \in 0 .. Len(queue)
      /\ body \in Bodies /\ intended \in Bodies /\ op \in Hands
      /\ slot = [h \in Hands |-> slot[h]] /\ unmarked \in [Hands -> BOOLEAN]
      /\ waiting \in [Hands -> BOOLEAN]
      /\ Hands = {"body", "follow"} /\ "body" \in Hands /\ "follow" \in Hands
      /\ Other("body") = "follow" /\ Other("follow") = "body"
  BY OrderTypes DEF Other
<1>1. ASSUME ~ overtaken, ~ lost PROVE Phase /\ \A h \in Hands : ~ unmarked[h]
  BY <1>1 DEF OrderInv
<1>2. CASE Offer
  <2>1. /\ cpc = "offer" /\ cpc' = "offered" /\ slot' = [slot EXCEPT ![op] = <<Built(op)>>]
        /\ intended' = Adopted(intended, op, Built(op)) /\ ~ MarkerOnItsWay
        /\ ~ overtaken /\ ~ lost
        /\ UNCHANGED <<queue, waiting, unmarked, op, tpc, body, hand>>
    BY <1>2 DEF Offer, flags, tick
  <2>2. NoMarker /\ ~ Adopting
    BY <2>1 DEF MarkerOnItsWay, NoMarker, Adopting
  <2>3. Nothing
    <3>1. ~ Offered /\ ~ Reached /\ ~ Taken
      BY <2>1, <2>2 DEF Offered, Offering, Reached, Taken, Adopting
    <3>2. ASSUME NEW h \in Hands, NEW k \in 1 .. Len(queue), MarkedAt(h, k) PROVE FALSE
      BY <2>2, <3>2, CommandsAre DEF MarkedAt, NoMarker
    <3> QED BY <1>1, <2>1, <3>1, <3>2 DEF Phase
  <2>4. Built(op) \in Items(op)
    BY <1>0, BuiltDoes DEF Typed, CoreTyped
  <2>5. slot'[op] = <<Built(op)>> /\ slot'[Other(op)] = Empty
    BY <1>0, <2>1, <2>3 DEF Nothing
  <2>6. slot'[op] # Empty /\ slot'[op][1] = Built(op)
    BY <2>4, <2>5, OneOfHas
  <2>7. Ahead(op, Built(op), Len(queue))'
    <3>1. CASE op = "body"
      <4>1. intended' = Built(op) /\ Built(op) \in Bodies
        BY <1>0, <2>1, <2>4, <3>1, AdoptedDoes DEF Items
      <4>2. Becomes(Built(op), queue, Len(queue), Built(op))
        BY <1>0, <4>1, BecomesNothing
      <4>3. Becomes(Built(op)', queue', Len(queue'), intended')
        <5>1. Built(op)' = Built(op)
          BY <1>2, <2>1 DEF Offer, Built, Body
        <5> QED BY <2>1, <4>1, <4>2, <5>1
      <4>4. Built(op)' \in Items(op)
        BY <1>2, <2>1, <2>4 DEF Offer, Built, Body
      <4> QED BY <2>1, <3>1, <4>3, <4>4 DEF Ahead
    <3>2. CASE op = "follow"
      <4>1. intended' = [intended EXCEPT !.follow = Built(op)]
        BY <1>0, <2>1, <2>4, <3>2, AdoptedDoes
      <4>2. Becomes([body EXCEPT !.follow = Built(op)], queue, 0, intended')
        BY <1>0, <2>3, <4>1, BecomesFollow DEF Nothing
      <4>3. Built(op)' = Built(op)
        BY <1>2, <2>1 DEF Offer, Built, Body
      <4> QED BY <2>1, <2>4, <3>2, <4>2, <4>3 DEF Ahead
    <3> QED BY <1>0, <3>1, <3>2
  <2>8. Built(op)' = Built(op)
    BY <1>2, <2>1 DEF Offer, Built, Body
  <2>9. Offered'
    BY <2>1, <2>2, <2>5, <2>6, <2>7, <2>8 DEF Offered, NoMarker, Adopting, Offering
  <2> QED BY <1>1, <2>1, <2>9 DEF Phase
<1>3. ASSUME cpc \in Offering, ~ lost, ~ overtaken PROVE Offered /\ cpc # "fallback"
  BY <1>1, <1>3 DEF Phase, Nothing, Offered, Reached, Taken, MarkedAt
<1>4. CASE OfferUnlock
  <2>1. Offered /\ UNCHANGED <<queue, slot, waiting, unmarked, op, tpc, body, hand, intended>>
        /\ cpc' = "flag"
    BY <1>3, <1>4 DEF OfferUnlock, flags, tick, history, Offering
  <2> QED BY <1>1, <1>4, <2>1 DEF OfferUnlock, Phase, Offered, NoMarker, Adopting, Ahead, Offering,
             history
<1>5. CASE OfferFlag
  <2>1. Offered /\ UNCHANGED <<queue, slot, unmarked, op, tpc, body, hand, intended>>
        /\ cpc' \in {"discard", "mark"} /\ waiting' = [waiting EXCEPT ![op] = TRUE]
    BY <1>3, <1>5 DEF OfferFlag, tick, history, Offering
  <2>2. Offered'
    BY <1>0, <2>1 DEF Offered, NoMarker, Adopting, Ahead, Offering
  <2> QED BY <1>1, <1>5, <2>1, <2>2 DEF OfferFlag, Phase, history
<1>6. CASE Discard
  <2>1. Offered /\ UNCHANGED <<queue, waiting, unmarked, op, tpc, body, hand, intended>>
        /\ cpc = "discard" /\ cpc' = "discarded" /\ slot' = [slot EXCEPT !["follow"] = Empty]
        /\ op = "body"
    BY <1>3, <1>6 DEF Discard, flags, tick, history, Offering, Typed, CoreTyped
  <2>2. slot' = slot
    BY <1>0, <2>1 DEF Offered
  <2>3. Offered'
    BY <2>1, <2>2 DEF Offered, NoMarker, Adopting, Ahead, Offering
  <2> QED BY <1>1, <1>6, <2>1, <2>3 DEF Discard, Phase, history
<1>7. CASE DiscardEnd
  <2>1. Offered /\ UNCHANGED <<queue, slot, op, tpc, body, hand, intended>>
        /\ cpc = "discarded" /\ cpc' = "mark" /\ op = "body"
        /\ waiting' = [waiting EXCEPT !["follow"] = FALSE]
        /\ unmarked' = [unmarked EXCEPT !["follow"] = FALSE]
        /\ \A h \in Hands : ~ unmarked[h]
    BY <1>1, <1>3, <1>7 DEF DiscardEnd, tick, history, Offering, Typed, CoreTyped
  <2>2. waiting'["body"] = waiting["body"]
    BY <1>0, <2>1
  <2>3. Offered'
    BY <2>1, <2>2 DEF Offered, NoMarker, Adopting, Ahead, Offering
  <2>4. \A h \in Hands : ~ unmarked'[h]
    BY <1>0, <2>1
  <2> QED BY <2>3, <2>4 DEF Phase
<1>8. CASE Mark
  <2>1. /\ cpc = "mark" /\ queue' = Append(queue, Adopt(op)) /\ cpc' = "push" /\ ~ lost
        /\ ~ overtaken
        /\ UNCHANGED <<slot, waiting, unmarked, op, tpc, body, hand, intended>>
    BY <1>8 DEF Mark, handOver, flags, tick
  <2>2. Offered
    BY <1>3, <2>1 DEF Offering
  <2>3. Len(queue') = Len(queue) + 1 /\ queue'[Len(queue) + 1] = Adopt(op)
        /\ \A i \in 1 .. Len(queue) : queue'[i] = queue[i]
    BY <1>0, <2>1
  <2>4. PICK h, item, k : /\ h \in Hands /\ item \in Items(h) /\ k \in Nat
                          /\ h = op /\ item = slot[op][1] /\ k = Len(queue) + 1
    <3>1. Ahead(op, slot[op][1], Len(queue)) /\ Len(queue) + 1 \in Nat
      BY <1>0, <2>2 DEF Offered
    <3> QED BY <1>0, <3>1 DEF Ahead
  <2>5. Ahead(h, item, Len(queue))
    BY <2>2, <2>4 DEF Offered
  <2>6. h = "body" => Becomes(item, queue', k, intended')
    <3> SUFFICES ASSUME h = "body" PROVE Becomes(item, queue', k, intended)
      BY <2>1
    <3>1. item \in Bodies /\ intended = item
      BY <1>0, <2>5, BecomesNothing DEF Ahead, Items
    <3>2. queue' \in Seq(Commands)
      BY <1>0, <2>1, CommandsAre
    <3> QED BY <2>3, <2>4, <3>1, <3>2, BecomesNothing
  <2>7. h = "follow" => Becomes([body EXCEPT !.follow = item], queue', 0, intended')
    <3> SUFFICES ASSUME h = "follow"
                 PROVE  Becomes([body EXCEPT !.follow = item], queue', 0, intended)
      BY <2>1
    <3>1. [body EXCEPT !.follow = item] \in Bodies /\ 0 \in 0 .. Len(queue)
      BY <1>0, <2>5, OrderTypes DEF Ahead
    <3> QED BY <1>0, <2>1, <2>5, <3>1, BecomesMarker DEF Ahead
  <2>8. Ahead(h, item, k)'
    BY <2>1, <2>4, <2>6, <2>7 DEF Ahead
  <2>9. \A i \in 1 .. Len(queue') : i # k => queue'[i].kind # "adopt"
    BY <1>0, <2>2, <2>3, <2>4 DEF Offered, NoMarker
  <2>10. /\ queue'[k] = Adopt(h) /\ ~ Adopting' /\ cpc' \notin Offering /\ waiting'[h]
         /\ slot'[h] # Empty /\ slot'[Other(h)] = Empty /\ slot'[h][1] = item
         /\ k \in 1 .. Len(queue')
    BY <1>0, <2>1, <2>2, <2>3, <2>4 DEF Offered, Adopting, Offering
  <2>11. MarkedAt(h, k)'
    BY <2>8, <2>9, <2>10 DEF MarkedAt
  <2> QED BY <1>1, <2>1, <2>4, <2>10, <2>11 DEF Phase
<1>9. CASE MarkFallback
  BY <1>3, <1>9 DEF MarkFallback, history, Offering
<1>10. CASE PushProgrammer
  <2>1. /\ cpc = "push" /\ cpc' = "idle" /\ overtaken' = overtaken
        /\ UNCHANGED <<slot, waiting, unmarked, tpc, hand, got, body>>
    BY <1>10 DEF PushProgrammer, handOver, flags, tick
  <2>2. /\ \/ UNCHANGED <<queue, intended>>
           \/ \E m \in Commands : m.kind # "adopt" /\ queue' = Append(queue, m)
                                  /\ intended' = Applied(intended, m)
        /\ lost' = lost
    <3>1. CASE prog = told
      BY <1>10, <3>1 DEF PushProgrammer
    <3>2. CASE prog # told
      <4>1. SetProgrammer(prog) \in Commands /\ SetProgrammer(prog).kind # "adopt"
        BY CommandsAre DEF Typed, CoreTyped
      <4>2. Send(SetProgrammer(prog))
        BY <1>10, <3>2 DEF PushProgrammer
      <4> QED BY <4>1, <4>2, SentInOrder
    <3> QED BY <3>1, <3>2
  <2>3. Phase'
    BY <1>1, <2>1, <2>2, PhaseSent DEF Offering
  <2> QED BY <1>1, <2>1, <2>2, <2>3
<1> QED BY <1>2, <1>4, <1>5, <1>6, <1>7, <1>8, <1>9, <1>10 DEF CoreStep

LEMMA OrderCarryOut ==
    ASSUME Typed, OrderInv, NEW v \in Values, NEW go \in BOOLEAN,
           NEW what \in Hands \cup {"nothing"}, CarryOut(v, go, what)
    PROVE  OrderInv'
<1> SUFFICES ASSUME ~ overtaken', ~ lost' PROVE Phase' /\ \A h \in Hands : ~ unmarked'[h]
  BY DEF OrderInv
<1>1. /\ cpc = "idle" /\ cpc' \in {"push", "offer"} /\ overtaken' = overtaken
      /\ UNCHANGED <<slot, waiting, unmarked, tpc, hand, got, body>>
  BY DEF CarryOut, handOver, flags, tick
<1>2. /\ \/ UNCHANGED <<queue, intended>>
         \/ \E m \in Commands : m.kind # "adopt" /\ queue' = Append(queue, m)
                                /\ intended' = Applied(intended, m)
      /\ lost' = lost
  <2>1. CASE ~ go
    BY <2>1 DEF CarryOut
  <2>2. CASE go
    BY <2>2, CommandsAre, SentInOrder DEF CarryOut
  <2> QED BY <2>1, <2>2
<1>3. Phase /\ \A h \in Hands : ~ unmarked[h]
  BY <1>1, <1>2 DEF OrderInv
<1> QED BY <1>1, <1>2, <1>3, PhaseSent DEF Offering

LEMMA OrderTick ==
    Typed /\ Typed' /\ LockInv /\ OrderInv /\ (TickStep \/ DrainPanic) => OrderInv'
<1> SUFFICES ASSUME Typed, Typed', LockInv, OrderInv, TickStep \/ DrainPanic,
                    ~ overtaken', ~ lost'
             PROVE  Phase' /\ \A h \in Hands : ~ unmarked'[h]
  BY DEF OrderInv
<1>0. /\ queue \in Seq(Commands) /\ Len(queue) \in Nat /\ hand \in Hands
      /\ body \in Bodies /\ intended \in Bodies /\ back \notin {"take", "change"}
      /\ holder \in [Hands -> {Free, "core", "tick"}]
      /\ Hands = {"body", "follow"} /\ "body" \in Hands /\ "follow" \in Hands
      /\ Other("body") = "follow" /\ Other("follow") = "body"
  BY OrderTypes DEF Other
<1>1. ~ overtaken /\ ~ lost => Phase /\ \A h \in Hands : ~ unmarked[h]
  BY DEF OrderInv
<1>2. CASE TickBegin \/ RenderBody \/ RenderFollow \/ Render
  <2>1. /\ UNCHANGED <<queue, slot, waiting, unmarked, cpc, op, body, got, intended, overtaken,
                       lost>>
        /\ tpc \notin {"take", "change"}
    BY <1>2 DEF TickBegin, RenderBody, RenderFollow, Render, handOver, flags, core, history
  <2>2. Phase /\ \A h \in Hands : ~ unmarked[h]
    BY <1>1, <2>1
  <2>3. tpc' \notin {"take", "change"}
    BY <1>0, <1>2, <2>2 DEF TickBegin, RenderBody, RenderFollow, Render
  <2> QED BY <2>1, <2>2, <2>3 DEF Phase, Nothing, Offered, Reached, Taken, MarkedAt, NoMarker,
             Adopting, Ahead
<1>3. CASE Drain
  <2>1. /\ tpc = "drain" /\ queue # << >> /\ Head(queue) = queue[1] /\ Head(queue) \in Commands
        /\ Len(queue') = Len(queue) - 1 /\ Len(queue') \in Nat
        /\ \A i \in 1 .. Len(queue') : queue'[i] = queue[i + 1]
        /\ queue' \in Seq(Commands)
        /\ UNCHANGED <<slot, waiting, unmarked, cpc, op, intended, overtaken, lost>>
        /\ 1 \in 1 .. Len(queue)
    BY <1>0, <1>3, DrainDoes, OrderTypes DEF Typed, SharedTyped
  <2>2. Phase /\ \A h \in Hands : ~ unmarked[h]
    BY <1>1, <2>1
  <2>3. NoMarker => NoMarker' /\ queue[1].kind # "adopt"
    BY <2>1 DEF NoMarker
  <2>4. queue[1].kind # "adopt" => tpc' = "drain" /\ body' = Applied(body, queue[1])
    BY <1>3, <2>1, DrainDoes
  <2>5. CASE Nothing
    <3>1. Becomes(Applied(body, queue[1]), queue', 0, intended)
      BY <1>0, <2>1, <2>3, <2>5, BecomesHead DEF Nothing
    <3> QED BY <2>1, <2>2, <2>3, <2>4, <2>5, <3>1 DEF Phase, Nothing, Adopting
  <2>6. CASE Offered
    <3>1. Len(queue) \in 1 .. Len(queue) /\ queue[1].kind # "adopt"
          /\ Len(queue) - 1 = Len(queue')
      BY <1>0, <2>1, <2>3, <2>6 DEF Offered
    <3>2. op \in Hands /\ Ahead(op, slot[op][1], Len(queue))
      BY <2>6, OrderTypes DEF Offered
    <3> DEFINE item == slot[op][1]
               n == Len(queue)
    <3>3. item' = item
      BY <2>1
    <3> HIDE DEF item, n
    <3>4. \A k \in 1 .. Len(queue) : \A h \in Hands : \A x :
             Ahead(h, x, k) => /\ x \in Items(h)
                               /\ h = "body" => Becomes(x, queue', k - 1, intended')
                               /\ h = "follow" => Becomes([body' EXCEPT !.follow = x], queue', 0, intended')
      <4> SUFFICES ASSUME NEW k \in 1 .. Len(queue), NEW h \in Hands, NEW x, Ahead(h, x, k)
                   PROVE  /\ x \in Items(h)
                          /\ h = "body" => Becomes(x, queue', k - 1, intended')
                          /\ h = "follow" => Becomes([body' EXCEPT !.follow = x], queue', 0, intended')
        OBVIOUS
      <4>1. Ahead(h, x, k - 1)'
        BY <1>3, <3>1, AheadDrain
      <4> QED BY <4>1 DEF Ahead
    <3>5. Ahead(op, item, Len(queue))'
      BY <2>1, <3>1, <3>2, <3>3, <3>4 DEF Ahead, item
    <3> QED BY <2>1, <2>2, <2>3, <2>4, <2>6, <3>1, <3>5 DEF Phase, Offered, Adopting, item
  <2>7. ASSUME NEW h \in Hands, NEW k \in 1 .. Len(queue), MarkedAt(h, k)
        PROVE  Phase'
    <3>1. k = 1 <=> queue[1].kind = "adopt"
      BY <2>1, <2>7, CommandsAre DEF MarkedAt
    <3>2. Ahead(h, slot[h][1], k - 1)'
      BY <1>3, <2>1, <2>7, <3>1, AheadDrain DEF MarkedAt
    <3>3. CASE k = 1
      <4>1. tpc' = "take" /\ hand' = h
        BY <1>3, <2>1, <2>7, <3>3, DrainDoes, CommandsAre DEF MarkedAt
      <4>2. NoMarker'
        <5> SUFFICES ASSUME NEW i \in 1 .. Len(queue') PROVE queue'[i].kind # "adopt"
          BY DEF NoMarker
        <5>1. i + 1 \in 1 .. Len(queue) /\ i + 1 # k /\ queue'[i] = queue[i + 1]
          BY <2>1, <3>3
        <5> QED BY <2>7, <5>1 DEF MarkedAt
      <4> QED BY <2>1, <2>7, <3>2, <3>3, <4>1, <4>2 DEF Phase, MarkedAt, Reached
    <3>4. CASE k # 1
      <4>1. k - 1 \in 1 .. Len(queue') /\ queue'[k - 1] = Adopt(h)
        BY <2>1, <2>7, <3>4 DEF MarkedAt
      <4>2. \A i \in 1 .. Len(queue') : i # k - 1 => queue'[i].kind # "adopt"
        <5> SUFFICES ASSUME NEW i \in 1 .. Len(queue'), i # k - 1 PROVE queue'[i].kind # "adopt"
          OBVIOUS
        <5>1. i + 1 \in 1 .. Len(queue) /\ i + 1 # k /\ queue'[i] = queue[i + 1]
          BY <2>1
        <5> QED BY <2>7, <5>1 DEF MarkedAt
      <4>3. MarkedAt(h, k - 1)'
        BY <2>1, <2>4, <2>7, <3>1, <3>2, <3>4, <4>1, <4>2 DEF MarkedAt, Adopting
      <4> QED BY <4>1, <4>3 DEF Phase
    <3> QED BY <3>3, <3>4
  <2>8. ~ Reached /\ ~ Taken
    BY <2>1 DEF Reached, Taken
  <2> QED BY <2>1, <2>2, <2>5, <2>6, <2>7, <2>8 DEF Phase
<1>4. CASE DrainPanic
  BY <1>4 DEF DrainPanic
<1>5. CASE Take
  <2>1. /\ tpc = "take" /\ ~ overtaken /\ ~ lost
        /\ UNCHANGED <<queue, waiting, cpc, op, body, intended>>
        /\ \A g \in Hands : unmarked'[g] => unmarked[g]
    BY <1>5, TakeDoes
  <2>2. Reached /\ \A h \in Hands : ~ unmarked[h]
    BY <1>1, <2>1 DEF Phase, Nothing, Offered, Taken, MarkedAt, Adopting
  <2>3. holder[hand] = Free
    BY <1>0, <2>1, <2>2 DEF LockInv, Reached, Offering
  <2>4. /\ tpc' = "change" /\ hand' = hand /\ got' = slot[hand] /\ slot'[hand] = Empty
        /\ \A g \in Hands : g # hand => slot'[g] = slot[g]
    BY <1>5, <2>2, <2>3, TakeDoes DEF Reached
  <2>5. \A h \in Hands : slot'[h] = Empty
    BY <1>0, <2>2, <2>4 DEF Reached
  <2>6. Taken'
    BY <2>1, <2>2, <2>4, <2>5 DEF Reached, Taken, NoMarker, Ahead
  <2> QED BY <2>1, <2>2, <2>6 DEF Phase
<1>6. CASE Change
  <2>1. /\ tpc = "change" /\ tpc' = back /\ ~ overtaken /\ ~ lost
        /\ UNCHANGED <<queue, slot, unmarked, cpc, intended>>
        /\ body' = IF got = Empty THEN body ELSE Adopted(body, hand, got[1])
    BY <1>6, ChangeDoes DEF Change
  <2>2. Taken /\ \A h \in Hands : ~ unmarked[h]
    BY <1>1, <2>1 DEF Phase, Nothing, Offered, Reached, MarkedAt, Adopting
  <2>3. got[1] \in Items(hand) /\ body' = Adopted(body, hand, got[1])
    BY <2>1, <2>2 DEF Taken, Ahead
  <2>4. Becomes(body', queue, 0, intended)
    <3>1. CASE hand = "body"
      BY <1>0, <2>2, <2>3, <3>1, AdoptedDoes DEF Taken, Ahead
    <3>2. CASE hand = "follow"
      BY <1>0, <2>2, <2>3, <3>2, AdoptedDoes DEF Taken, Ahead
    <3> QED BY <1>0, <3>1, <3>2
  <2>5. Nothing'
    BY <1>0, <2>1, <2>2, <2>4 DEF Taken, Nothing, NoMarker, Adopting
  <2> QED BY <2>1, <2>2, <2>5 DEF Phase
<1> QED BY <1>2, <1>3, <1>4, <1>5, <1>6 DEF TickStep

LEMMA OrderStep == Typed /\ LockInv /\ OrderInv /\ [Next]_vars => OrderInv'
<1> SUFFICES ASSUME Typed, LockInv, OrderInv, [Next]_vars PROVE OrderInv'
  OBVIOUS
<1>1. Typed'
  BY TypeStep
<1>2. CASE UNCHANGED vars
  BY <1>2 DEF vars, handOver, flags, core, tick, history, OrderInv, Phase, Nothing, Offered,
              Reached, Taken, MarkedAt, NoMarker, Adopting, Ahead
<1> QED BY <1>1, <1>2, OrderCore, OrderTick, OrderCarryOut DEF Next

\* Everything sent before a body reaches the body that leaves and everything
\* after it the body that arrives, as long as no command was refused and no
\* installation overtook another; the queue may be of any length.
THEOREM SentInOrderTaken == Spec => []OrderIsKept
<1>1. Typed /\ OrderInv => OrderIsKept
  <2> SUFFICES ASSUME Typed, OrderInv, Quiet, ~ overtaken, ~ lost PROVE body = intended
    BY DEF OrderIsKept
  <2>1. Nothing
    BY DEF OrderInv, Phase, Offered, Reached, Taken, Quiet, Offering
  <2>2. Becomes(body, queue, Len(queue), intended)
    BY <2>1 DEF Nothing, Quiet
  <2> QED BY <2>2, OrderTypes, BecomesNothing
<1> QED BY <1>1, TypeInit, TypeStep, LockInit, LockStep, OrderInit, OrderStep, PTL DEF Spec

==============================================================================
