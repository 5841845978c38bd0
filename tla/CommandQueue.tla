---------------------------- MODULE CommandQueue ----------------------------
(***************************************************************************)
(* The single-producer, single-consumer ring that carries commands into    *)
(* the tick: crates/prism-engine/src/spsc.rs.                              *)
(*                                                                         *)
(* A slot is PAYLOAD_BYTES separate atomics, so nothing but the two        *)
(* counters makes a value whole: the producer stores the bytes one by one  *)
(* and then publishes `tail`; the consumer loads the bytes one by one and  *)
(* then gives the slot back by publishing `head`.  Every such access is a  *)
(* step of its own here.  The Release store of one counter and the Acquire *)
(* load of it on the other side order the Relaxed accesses to the bytes,   *)
(* so interleaving them in program order loses no behaviour.               *)
(*                                                                         *)
(* The counters wrap (`wrapping_add`), which this module keeps: they range *)
(* over 0 .. Modulus - 1, standing for usize.                              *)
(***************************************************************************)
EXTENDS Integers, Sequences

CONSTANTS Payload,      \* encoded values a producer pushes
          Decodable,    \* the ones `TickPayload::decode` recognises
          Capacity,     \* slots in the ring
          Cells,        \* atomics per slot (PAYLOAD_BYTES in the code)
          Modulus,      \* 2^64: where a counter wraps
          Nothing       \* the zeroed content of a slot nothing was written to

ASSUME RingAssumption ==
    /\ Capacity \in Nat \ {0}
    /\ Cells \in Nat \ {0}
    /\ Modulus \in Nat
    /\ Decodable \subseteq Payload
    /\ Nothing \notin Payload

\* The capacity divides the range of the counters, as COMMAND_QUEUE = 1024
\* divides 2^64, and leaves room to tell a full ring from an empty one.
ASSUME WrapAssumption ==
    \E k \in 2 .. Modulus : Modulus = k * Capacity

VARIABLES
    slots,      \* the ring: slot -> cell -> what is stored there
    head, tail, \* the shared counters
    rejected,   \* whether a slot has ever failed to decode
    ppc,        \* producer: "idle" or "write"
    pval,       \* producer: the value being pushed
    pcell,      \* producer: the next cell to store
    cpc,        \* consumer: "idle", "take" or "read"
    left,       \* consumer: takes left in this drain
    ccell,      \* consumer: the next cell to load
    bytes,      \* consumer: what it has loaded so far
    last        \* the value handed to `visit` or rejected most recently

ring     == <<slots, head, tail, rejected>>
producer == <<ppc, pval, pcell>>
consumer == <<cpc, left, ccell, bytes, last>>
vars     == <<ring, producer, consumer>>

Counter == 0 .. Modulus - 1

\* wrapping_add(1) and wrapping_sub on a counter.
Succ(c) == IF c + 1 = Modulus THEN 0 ELSE c + 1
Dist(hi, lo) == IF lo <= hi THEN hi - lo ELSE hi - lo + Modulus

\* The ring's slot for a counter, and how many values wait.
SlotOf(c) == c % Capacity
Waiting == Dist(tail, head)

Blank == [i \in 1 .. Cells |-> Nothing]

Init ==
    /\ slots = [s \in 0 .. Capacity - 1 |-> Blank]
    /\ head = 0 /\ tail = 0 /\ rejected = FALSE
    /\ ppc = "idle" /\ pval = Nothing /\ pcell = 1
    /\ cpc = "idle" /\ left = 0 /\ ccell = 1
    /\ bytes = Blank /\ last = Nothing

-----------------------------------------------------------------------------
(* Producer::push                                                          *)

\* Mutant of PushBegin: a full ring takes one more.
PushBeginOffByOne(v) ==
    /\ ppc = "idle" /\ Waiting <= Capacity
    /\ ppc' = "write" /\ pval' = v /\ pcell' = 1
    /\ UNCHANGED <<ring, consumer>>

\* The two counter loads and the test.  A full ring hands the value back and
\* changes nothing, so only the accepted case is a step.
PushBegin(v) ==
    /\ ppc = "idle"
    /\ Waiting < Capacity
    /\ ppc' = "write" /\ pval' = v /\ pcell' = 1
    /\ UNCHANGED <<ring, consumer>>

\* One Relaxed store of one cell.
PushCell ==
    /\ ppc = "write" /\ pcell <= Cells
    /\ slots' = [slots EXCEPT ![SlotOf(tail)][pcell] = pval]
    /\ pcell' = pcell + 1
    /\ UNCHANGED <<head, tail, rejected, ppc, pval, consumer>>

\* Mutant of PushPublish: the slot is published before its last cell is stored.
PushPublishEarly ==
    /\ ppc = "write" /\ pcell >= Cells
    /\ tail' = Succ(tail)
    /\ ppc' = "idle" /\ pval' = Nothing /\ pcell' = 1
    /\ UNCHANGED <<slots, head, rejected, consumer>>

\* The Release store of `tail`.
PushPublish ==
    /\ ppc = "write" /\ pcell > Cells
    /\ tail' = Succ(tail)
    /\ ppc' = "idle" /\ pval' = Nothing /\ pcell' = 1
    /\ UNCHANGED <<slots, head, rejected, consumer>>

-----------------------------------------------------------------------------
(* Consumer::drain, and Consumer::take inside it                           *)

\* `let pending = self.len()`: the bound on what this drain may take.
DrainBegin ==
    /\ cpc = "idle" /\ Waiting > 0
    /\ cpc' = "take" /\ left' = Waiting
    /\ UNCHANGED <<ring, producer, ccell, bytes, last>>

\* The two counter loads of `take`; an empty ring breaks out of the loop.
TakeBegin ==
    /\ cpc = "take"
    /\ IF head = tail
       THEN cpc' = "idle" /\ left' = 0
       ELSE cpc' = "read" /\ UNCHANGED left
    /\ ccell' = 1 /\ bytes' = Blank
    /\ UNCHANGED <<ring, producer, last>>

\* One Relaxed load of one cell.
TakeCell ==
    /\ cpc = "read" /\ ccell <= Cells
    /\ bytes' = [bytes EXCEPT ![ccell] = slots[SlotOf(head)][ccell]]
    /\ ccell' = ccell + 1
    /\ UNCHANGED <<ring, producer, cpc, left, last>>

\* The value a slot holds: the common content of its cells, Nothing if torn.
Whole(cells) == IF \A i \in 1 .. Cells : cells[i] = cells[1]
                THEN cells[1] ELSE Nothing

\* Mutant of TakeRelease: the drain goes on until it finds the ring empty.
TakeReleaseUnbounded ==
    /\ cpc = "read" /\ ccell > Cells
    /\ head' = Succ(head)
    /\ last' = Whole(bytes)
    /\ rejected' = (rejected \/ Whole(bytes) \notin Decodable)
    /\ cpc' = "take" /\ ccell' = 1 /\ bytes' = Blank
    /\ UNCHANGED <<slots, tail, producer, left>>

\* The Release store of `head`, then the decode; the loop of `drain` goes
\* round until the bound taken at entry is used up.
TakeRelease ==
    /\ cpc = "read" /\ ccell > Cells
    /\ head' = Succ(head)
    /\ last' = Whole(bytes)
    /\ rejected' = (rejected \/ Whole(bytes) \notin Decodable)
    /\ left' = left - 1
    /\ cpc' = IF left' = 0 THEN "idle" ELSE "take"
    /\ ccell' = 1 /\ bytes' = Blank
    /\ UNCHANGED <<slots, tail, producer>>

-----------------------------------------------------------------------------
Produce == PushCell \/ PushPublish \/ \E v \in Payload : PushBegin(v)
Consume == DrainBegin \/ TakeBegin \/ TakeCell \/ TakeRelease

Next == Produce \/ Consume

\* The tick drains whenever it runs; nobody owes it another command.
Fairness == WF_vars(Consume)

Spec == Init /\ [][Next]_vars /\ Fairness

-----------------------------------------------------------------------------
\* The counters stay below the modulus they wrap at, every cell holds a part of
\* a command, and neither thread is between two steps its code does not have.
TypeOK ==
    /\ slots \in [0 .. Capacity - 1 -> [1 .. Cells -> Payload \cup {Nothing}]]
    /\ head \in Counter /\ tail \in Counter
    /\ rejected \in BOOLEAN
    /\ ppc \in {"idle", "write"}
    /\ pval \in Payload \cup {Nothing}
    /\ pcell \in 1 .. Cells + 1
    /\ cpc \in {"idle", "take", "read"}
    /\ left \in Nat
    /\ ccell \in 1 .. Cells + 1
    /\ bytes \in [1 .. Cells -> Payload \cup {Nothing}]
    /\ last \in Payload \cup {Nothing}

\* While the tick is copying a slot out, the producer is never storing into
\* that slot: full and empty cannot be confused, across the wrap included.
NoSharedSlot ==
    ~ (ppc = "write" /\ cpc = "read" /\ SlotOf(tail) = SlotOf(head))

\* The ring is the bounded FIFO it promises to be: the values between head
\* and tail are the queue, and what a take delivers is its oldest value,
\* whole.  (Producer::push, Consumer::take)
Fifo == INSTANCE BoundedQueue WITH
    queue <- [i \in 1 .. Waiting |->
                 Whole(slots[SlotOf((head + i - 1) % Modulus)])],
    last  <- last

ImplementsFifo == Fifo!Spec

\* A producer that keeps pushing cannot hold the tick inside `drain`: every
\* drain comes to an end although nothing limits the pushes.
DrainEnds == (cpc # "idle") ~> (cpc = "idle")
=============================================================================
