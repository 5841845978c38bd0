---------------------------- MODULE HandOffProofs ----------------------------
(***************************************************************************)
(* The three structures the tick shares with other threads without waiting *)
(* for them, for every size of each.                                       *)
(*                                                                         *)
(* The command queue, for every capacity that divides the range of its     *)
(* counters, every number of cells and every set of payloads: it stays     *)
(* well typed, the tick never copies a slot the producer is storing into,  *)
(* and the ring implements the bounded queue of whole values BoundedQueue. *)
(*                                                                         *)
(* One subscriber's frame buffer, for every size of a frame and every      *)
(* range of its sequence numbers: the three slots are always a             *)
(* permutation, so no slot is touched by both sides; no driver sees a      *)
(* frame mixed from two publishes; and the buffer implements the           *)
(* newest-frame register LatestFrame.                                      *)
(*                                                                         *)
(* The enrolment, for any number of callers and places: each subscriber is *)
(* in one place, the count is exact, the tick's vector keeps to its room   *)
(* and no change is left behind a flag that nobody will raise.             *)
(***************************************************************************)
EXTENDS CommandQueue, TripleBuffer, FrameEnrolment, FiniteSetTheorems, TLAPS

(***************************************************************************)
(* THE COMMAND QUEUE                                                       *)
(***************************************************************************)
-----------------------------------------------------------------------------
(* The arithmetic of the counters                                          *)

\* No multiple of c lies strictly between 0 and c.
LEMMA NoMultipleBetween ==
    ASSUME NEW c \in Nat \ {0}, NEW a \in Int
    PROVE  ~ (0 < c * a /\ c * a < c)
<1>1. CASE a <= 0
  <2>1. c * a <= 0 BY <1>1
  <2> QED BY <2>1
<1>2. CASE a >= 1
  <2>1. c * a >= c BY <1>2
  <2> QED BY <2>1
<1> QED BY <1>1, <1>2

\* A number is a multiple of b and a remainder.
LEMMA Division ==
    ASSUME NEW a \in Nat, NEW b \in Nat \ {0}
    PROVE  a % b \in 0 .. b - 1 /\ \E q \in Nat : a = b * q + (a % b)
<1>1. a % b \in 0 .. b - 1 OBVIOUS
<1>2. a \div b \in Nat OBVIOUS
<1>3. a = b * (a \div b) + (a % b) OBVIOUS
<1> QED BY <1>1, <1>2, <1>3

\* What the two assumptions say of the constants, without the quantifier over
\* a range.
LEMMA Constants ==
    /\ Capacity \in Nat \ {0} /\ Cells \in Nat \ {0} /\ Modulus \in Nat
    /\ 2 * Capacity <= Modulus
    /\ \E k \in Nat : Modulus = Capacity * k
<1>1. Capacity \in Nat \ {0} /\ Cells \in Nat \ {0} /\ Modulus \in Nat
  BY RingAssumption
<1>2. PICK k \in 2 .. Modulus : Modulus = k * Capacity
  BY WrapAssumption
<1>3. k \in Nat /\ k >= 2
  BY <1>1, <1>2
<1>4. k * Capacity = Capacity * k /\ 2 * Capacity <= k * Capacity
  BY <1>1, <1>3
<1> QED BY <1>1, <1>2, <1>3, <1>4

\* Distances and successors of counters, across the wrap included.
LEMMA Counting ==
    ASSUME NEW hi \in Counter, NEW lo \in Counter
    PROVE  /\ Dist(hi, lo) \in 0 .. Modulus - 1
           /\ Dist(hi, lo) = 0 <=> hi = lo
           /\ Succ(hi) \in Counter
           /\ Dist(hi, lo) < Modulus - 1 => Dist(Succ(hi), lo) = Dist(hi, lo) + 1
           /\ Dist(hi, lo) > 0 => Dist(hi, Succ(lo)) = Dist(hi, lo) - 1
  BY Constants DEF Counter, Dist, Succ

LEMMA SlotInRing == ASSUME NEW c \in Counter PROVE SlotOf(c) \in 0 .. Capacity - 1
  BY Constants, Division DEF Counter, SlotOf

\* Two counters less than a ring apart have slots of their own.  This is where
\* the capacity has to divide the range of the counters.
LEMMA SlotsDiffer ==
    ASSUME NEW hi \in Counter, NEW lo \in Counter,
           0 < Dist(hi, lo), Dist(hi, lo) < Capacity
    PROVE  SlotOf(hi) # SlotOf(lo)
<1> SUFFICES ASSUME SlotOf(hi) = SlotOf(lo) PROVE FALSE
  OBVIOUS
<1> DEFINE r == lo % Capacity
<1>0. hi \in Nat /\ lo \in Nat /\ hi % Capacity = r
  BY Constants DEF Counter, SlotOf
<1>1. PICK k \in Nat : Modulus = Capacity * k
  BY Constants
<1>2. PICK q \in Nat : hi = Capacity * q + r
  BY <1>0, Constants, Division
<1>3. PICK p \in Nat : lo = Capacity * p + r
  BY <1>0, Constants, Division
<1>4. r \in Nat
  BY <1>0, Constants, Division
<1>5. Capacity \in Nat \ {0}
  BY Constants
<1> HIDE DEF r
<1>6. CASE lo <= hi
  <2>1. Dist(hi, lo) = Capacity * (q - p)
    <3>1. Capacity * (q - p) = Capacity * q - Capacity * p BY <1>5
    <3> QED BY <3>1, <1>2, <1>3, <1>4, <1>5, <1>6 DEF Dist
  <2> QED BY <2>1, <1>5, NoMultipleBetween
<1>7. CASE ~ (lo <= hi)
  <2>1. Dist(hi, lo) = Capacity * (q - p + k)
    <3>1. Capacity * (q - p + k) = Capacity * q - Capacity * p + Capacity * k
      BY <1>5
    <3> QED BY <3>1, <1>1, <1>2, <1>3, <1>4, <1>5, <1>7 DEF Dist
  <2> QED BY <2>1, <1>5, NoMultipleBetween
<1> QED BY <1>6, <1>7

-----------------------------------------------------------------------------
(* Type correctness.  A drain that is under way has takes left, or the     *)
(* subtraction in TakeRelease would leave the naturals.                    *)

TypeInv == TypeOK /\ (cpc # "idle" => left > 0)

LEMMA TypeInit == Init => TypeInv
<1> SUFFICES ASSUME Init PROVE TypeInv
  OBVIOUS
<1>1. Blank \in [1 .. Cells -> Payload \cup {Nothing}]
  BY DEF Blank
<1>2. slots \in [0 .. Capacity - 1 -> [1 .. Cells -> Payload \cup {Nothing}]]
  BY <1>1 DEF Init
<1>3. 0 \in Counter /\ 1 \in 1 .. Cells + 1
  BY Constants DEF Counter
<1> QED BY <1>1, <1>2, <1>3 DEF Init, TypeInv, TypeOK

LEMMA TypeStep == TypeInv /\ [Next]_vars => TypeInv'
<1> SUFFICES ASSUME TypeInv, [Next]_vars PROVE TypeInv'
  OBVIOUS
<1>0. Waiting \in Nat /\ (Waiting = 0 <=> tail = head)
  <2>1. tail \in Counter /\ head \in Counter
    BY DEF TypeInv, TypeOK
  <2> QED BY <2>1, Counting, Constants DEF Waiting
<1> USE Constants DEF TypeInv, TypeOK
<1>b. Blank \in [1 .. Cells -> Payload \cup {Nothing}]
  BY DEF Blank
<1>w. Whole(bytes) \in Payload \cup {Nothing}
  BY DEF Whole
<1>1. ASSUME NEW v \in Payload, PushBegin(v) PROVE TypeInv'
  BY <1>1 DEF PushBegin, ring, consumer
<1>2. CASE PushCell
  <2>1. SlotOf(tail) \in 0 .. Capacity - 1
    BY SlotInRing
  <2>2. pcell \in 1 .. Cells
    BY <1>2 DEF PushCell
  <2>3. slots' \in [0 .. Capacity - 1 -> [1 .. Cells -> Payload \cup {Nothing}]]
    BY <1>2, <2>1, <2>2 DEF PushCell
  <2> QED BY <1>2, <2>2, <2>3 DEF PushCell, consumer
<1>3. CASE PushPublish
  <2>1. Succ(tail) \in Counter
    BY Counting
  <2> QED BY <1>3, <2>1 DEF PushPublish, consumer
<1>4. CASE DrainBegin
  BY <1>0, <1>4 DEF DrainBegin, ring, producer
<1>5. CASE TakeBegin
  BY <1>5, <1>b DEF TakeBegin, ring, producer
<1>6. CASE TakeCell
  <2>1. SlotOf(head) \in 0 .. Capacity - 1
    BY SlotInRing
  <2>2. ccell \in 1 .. Cells
    BY <1>6 DEF TakeCell
  <2> QED BY <1>6, <2>1, <2>2 DEF TakeCell, ring, producer
<1>7. CASE TakeRelease
  <2>1. Succ(head) \in Counter
    BY Counting
  <2>2. left' \in Nat /\ (cpc' # "idle" => left' > 0)
    BY <1>7 DEF TakeRelease
  <2>3. rejected' \in BOOLEAN
    BY <1>7 DEF TakeRelease
  <2>4. last' \in Payload \cup {Nothing}
    BY <1>7, <1>w DEF TakeRelease
  <2> QED BY <1>7, <1>b, <2>1, <2>2, <2>3, <2>4 DEF TakeRelease, producer
<1>8. CASE UNCHANGED vars
  BY <1>8 DEF vars, ring, producer, consumer
<1> QED BY <1>1, <1>2, <1>3, <1>4, <1>5, <1>6, <1>7, <1>8
        DEF Next, Produce, Consume

\* The ring is well typed for every capacity, cell count and set of payloads.
THEOREM TypeCorrect == Spec => []TypeOK
<1>1. TypeInv => TypeOK
  BY DEF TypeInv
<1> QED BY TypeInit, TypeStep, <1>1, PTL DEF Spec

-----------------------------------------------------------------------------
(* The ring never overfills; a slot being written is empty and a slot      *)
(* being read is full, so the two counters are less than a ring apart.     *)

Occupancy ==
    /\ Waiting <= Capacity
    /\ ppc = "write" => Waiting < Capacity
    /\ cpc = "read" => Waiting > 0

LEMMA OccupancyInit == Init => Occupancy
  BY Constants DEF Init, Occupancy, Waiting, Dist

LEMMA OccupancyStep == TypeInv /\ Occupancy /\ [Next]_vars => Occupancy'
<1> SUFFICES ASSUME TypeInv, Occupancy, [Next]_vars PROVE Occupancy'
  OBVIOUS
<1>0. tail \in Counter /\ head \in Counter
  BY DEF TypeInv, TypeOK
<1>1. Waiting \in Nat /\ Capacity \in Nat /\ (Waiting = 0 <=> tail = head)
  BY <1>0, Constants, Counting DEF Waiting
<1>2. ASSUME NEW v \in Payload, PushBegin(v) PROVE Occupancy'
  BY <1>2 DEF PushBegin, Occupancy, Waiting, ring, consumer
<1>3. CASE PushCell
  BY <1>3 DEF PushCell, Occupancy, Waiting, consumer
<1>4. CASE PushPublish
  <2>1. Waiting < Capacity /\ Waiting < Modulus - 1
    BY <1>1, <1>4, Constants DEF PushPublish, Occupancy
  <2>2. Waiting' = Waiting + 1
    BY <1>0, <1>4, <2>1, Counting DEF PushPublish, Waiting
  <2> QED BY <1>1, <1>4, <2>1, <2>2 DEF PushPublish, Occupancy, consumer
<1>5. CASE DrainBegin
  BY <1>5 DEF DrainBegin, Occupancy, Waiting, ring, producer
<1>6. CASE TakeBegin
  BY <1>1, <1>6 DEF TakeBegin, Occupancy, Waiting, ring, producer
<1>7. CASE TakeCell
  BY <1>7 DEF TakeCell, Occupancy, Waiting, ring, producer
<1>8. CASE TakeRelease
  <2>1. Waiting > 0 /\ cpc' # "read"
    BY <1>8 DEF TakeRelease, Occupancy
  <2>2. Waiting' = Waiting - 1
    BY <1>0, <1>8, <2>1, Counting DEF TakeRelease, Waiting
  <2> QED BY <1>1, <1>8, <2>1, <2>2 DEF TakeRelease, Occupancy, producer
<1>9. CASE UNCHANGED vars
  BY <1>9 DEF vars, ring, producer, consumer, Occupancy, Waiting
<1> QED BY <1>2, <1>3, <1>4, <1>5, <1>6, <1>7, <1>8, <1>9
        DEF Next, Produce, Consume

LEMMA OccupancySeparates == TypeInv /\ Occupancy => NoSharedSlot
<1> SUFFICES ASSUME TypeInv, Occupancy, ppc = "write", cpc = "read"
             PROVE  SlotOf(tail) # SlotOf(head)
  BY DEF NoSharedSlot
<1>1. tail \in Counter /\ head \in Counter
  BY DEF TypeInv, TypeOK
<1>2. 0 < Dist(tail, head) /\ Dist(tail, head) < Capacity
  BY <1>1, Constants, Counting DEF Occupancy, Waiting
<1> QED BY <1>1, <1>2, SlotsDiffer

\* The tick never copies a slot the producer is storing into, whatever the
\* interleaving of the stores and loads and wherever the counters wrap.
THEOREM SlotsAreNeverShared == Spec => []NoSharedSlot
<1> QED BY TypeInit, TypeStep, OccupancyInit, OccupancyStep,
           OccupancySeparates, PTL DEF Spec

-----------------------------------------------------------------------------
(* The ring is a bounded FIFO                                              *)

\* The k-th counter from lo on, across the wrap.
LEMMA Wrapping ==
    ASSUME NEW lo \in Counter, NEW k \in 0 .. Modulus - 1
    PROVE  /\ (lo + k) % Modulus = IF lo + k < Modulus THEN lo + k ELSE lo + k - Modulus
           /\ (lo + k) % Modulus \in Counter
<1>0. /\ Modulus \in Nat \ {0} /\ lo \in Nat /\ k \in Nat
      /\ lo + k \in Nat /\ lo + k < 2 * Modulus
  BY Constants DEF Counter
<1> DEFINE r == (lo + k) % Modulus
<1>1. r \in 0 .. Modulus - 1 /\ \E q \in Nat : lo + k = Modulus * q + r
  BY <1>0, Division
<1>2. PICK q \in Nat : lo + k = Modulus * q + r
  BY <1>1
<1> HIDE DEF r
<1>3. q = 0 \/ q = 1
  <2> SUFFICES ASSUME q >= 2 PROVE FALSE
    OBVIOUS
  <2>1. Modulus * q >= Modulus * 2
    BY <1>0
  <2> QED BY <1>0, <1>1, <1>2, <2>1
<1>4. r = IF lo + k < Modulus THEN lo + k ELSE lo + k - Modulus
  <2>1. CASE q = 0
    <3>1. lo + k = r
      BY <1>0, <1>1, <1>2, <2>1
    <3> QED BY <1>0, <1>1, <3>1
  <2>2. CASE q = 1
    <3>1. lo + k = Modulus + r
      BY <1>0, <1>1, <1>2, <2>2
    <3> QED BY <1>0, <1>1, <3>1
  <2> QED BY <1>3, <2>1, <2>2
<1> QED BY <1>1, <1>4 DEF r, Counter

\* The counter of the i-th waiting value, and the cells of its slot.
Place(i) == (head + i - 1) % Modulus
Held(i)  == slots[SlotOf(Place(i))]

\* The waiting values' counters: they lie between head and tail, and both
\* counters move them by one place.
LEMMA Places ==
    ASSUME TypeOK, Occupancy, NEW i \in 1 .. Waiting
    PROVE  /\ Place(i) \in Counter /\ Dist(tail, Place(i)) = Waiting - i + 1
           /\ Waiting \in Nat /\ Waiting <= Capacity /\ Waiting < Modulus
           /\ i = 1 => Place(i) = head
<1>1. head \in Counter /\ tail \in Counter /\ Modulus \in Nat /\ Capacity \in Nat
      /\ 2 * Capacity <= Modulus /\ 0 < Capacity
  BY Constants DEF TypeOK
<1>2. Waiting \in Nat /\ Waiting <= Capacity /\ Waiting < Modulus
  BY <1>1, Counting DEF Occupancy, Waiting
<1>3. i - 1 \in 0 .. Modulus - 1 /\ head + i - 1 = head + (i - 1)
  BY <1>1, <1>2 DEF Counter
<1>4. /\ Place(i) = IF head + (i - 1) < Modulus THEN head + (i - 1)
                    ELSE head + (i - 1) - Modulus
      /\ Place(i) \in Counter
  BY <1>1, <1>3, Wrapping DEF Place
<1>5. Dist(tail, Place(i)) = Waiting - i + 1
  BY <1>1, <1>2, <1>4 DEF Dist, Waiting, Counter
<1>6. i = 1 => Place(i) = head
  BY <1>1, <1>4 DEF Counter
<1> QED BY <1>2, <1>4, <1>5, <1>6

LEMMA WaitingIsNatural == ASSUME TypeOK PROVE Waiting \in Nat /\ Waiting < Modulus
<1>1. tail \in Counter /\ head \in Counter /\ Modulus \in Nat
  BY Constants DEF TypeOK
<1>2. Dist(tail, head) \in 0 .. Modulus - 1
  BY <1>1, Counting
<1> QED BY <1>1, <1>2 DEF Waiting

\* What a slot's cells hold of the value that waits in it, that is being stored
\* into it, or that is being copied out of it.
WholeIn(cells, v) == \A j \in 1 .. Cells : cells[j] = v
RingInv ==
    /\ \A i \in 1 .. Waiting : \E v \in Payload : WholeIn(Held(i), v)
    /\ ppc = "write" => /\ pval \in Payload
                        /\ \A j \in 1 .. pcell - 1 : slots[SlotOf(tail)][j] = pval
    /\ cpc = "read" => \A j \in 1 .. ccell - 1 : bytes[j] = slots[SlotOf(head)][j]

LEMMA WholeOf ==
    ASSUME NEW cells, NEW v, WholeIn(cells, v)
    PROVE  Whole(cells) = v
<1>1. 1 \in 1 .. Cells
  BY Constants
<1> QED BY <1>1 DEF WholeIn, Whole

QueueInv == TypeInv /\ Occupancy /\ RingInv

LEMMA QueueInit == Init => QueueInv
<1> SUFFICES ASSUME Init PROVE QueueInv
  OBVIOUS
<1>1. Waiting = 0 /\ ppc = "idle" /\ cpc = "idle"
  BY Constants DEF Init, Waiting, Dist
<1> QED BY <1>1, TypeInit, OccupancyInit DEF QueueInv, RingInv

\* The values that wait, as the promise sees them.
Queue == [i \in 1 .. Waiting |-> Whole(slots[SlotOf((head + i - 1) % Modulus)])]

LEMMA SequenceIsFunction ==
    ASSUME NEW S, NEW s \in Seq(S)
    PROVE  s = [i \in 1 .. Len(s) |-> s[i]]
  OBVIOUS

LEMMA QueueHolds ==
    ASSUME QueueInv
    PROVE  /\ Queue \in Seq(Payload) /\ Len(Queue) = Waiting
           /\ \A i \in 1 .. Waiting : Queue[i] = Whole(Held(i)) /\ WholeIn(Held(i), Queue[i])
<1>1. Waiting \in Nat
  BY WaitingIsNatural DEF QueueInv, TypeInv
<1>2. Queue = [i \in 1 .. Waiting |-> Whole(Held(i))]
  BY DEF Queue, Held, Place
<1>3. ASSUME NEW i \in 1 .. Waiting
      PROVE  Whole(Held(i)) \in Payload /\ WholeIn(Held(i), Whole(Held(i)))
  <2>1. PICK v \in Payload : WholeIn(Held(i), v)
    BY <1>3 DEF QueueInv, RingInv
  <2> QED BY <2>1, WholeOf
<1> QED BY <1>1, <1>2, <1>3

\* A store of a cell goes to a slot nothing waits in.
LEMMA StoreIsApart ==
    ASSUME QueueInv, ppc = "write", NEW i \in 1 .. Waiting
    PROVE  SlotOf(tail) # SlotOf(Place(i))
<1>1. TypeOK /\ Occupancy /\ Waiting < Capacity /\ tail \in Counter
  BY DEF QueueInv, TypeInv, Occupancy, TypeOK
<1>2. /\ Place(i) \in Counter /\ Dist(tail, Place(i)) = Waiting - i + 1 /\ Waiting \in Nat
  BY <1>1, Places
<1>3. 0 < Dist(tail, Place(i)) /\ Dist(tail, Place(i)) < Capacity
  BY <1>1, <1>2, Constants
<1> QED BY <1>1, <1>2, <1>3, SlotsDiffer

\* The producer's and the consumer's steps, and what each does to the queue.
LEMMA QueueStep ==
    ASSUME QueueInv, [Next]_vars
    PROVE  /\ QueueInv'
           /\ \/ Queue' = Queue /\ last' = last
              \/ \E v \in Payload : /\ Len(Queue) < Capacity /\ Queue' = Append(Queue, v)
                                    /\ last' = last
              \/ Queue # << >> /\ last' = Head(Queue) /\ Queue' = Tail(Queue)
<1> DEFINE Stays   == Queue' = Queue /\ last' = last
           Accepts == \E v \in Payload : /\ Len(Queue) < Capacity
                                         /\ Queue' = Append(Queue, v) /\ last' = last
           Delivers == Queue # << >> /\ last' = Head(Queue) /\ Queue' = Tail(Queue)
           Goal == RingInv' /\ (Stays \/ Accepts \/ Delivers)
<1> HIDE DEF Stays, Accepts, Delivers, Goal
<1>0. /\ TypeInv /\ TypeOK /\ Occupancy /\ RingInv
      /\ tail \in Counter /\ head \in Counter /\ Waiting \in Nat
      /\ slots \in [0 .. Capacity - 1 -> [1 .. Cells -> Payload \cup {Nothing}]]
      /\ bytes \in [1 .. Cells -> Payload \cup {Nothing}]
      /\ pcell \in 1 .. Cells + 1 /\ ccell \in 1 .. Cells + 1
  <2>1. TypeInv /\ TypeOK /\ Occupancy /\ RingInv
    BY DEF QueueInv, TypeInv
  <2> QED BY <2>1, WaitingIsNatural DEF TypeOK
<1>a. TypeInv' /\ Occupancy'
  BY <1>0, TypeStep, OccupancyStep
<1>b. SlotOf(tail) \in 0 .. Capacity - 1 /\ SlotOf(head) \in 0 .. Capacity - 1
  BY <1>0, SlotInRing
<1>1. ASSUME NEW v \in Payload, PushBegin(v) PROVE Goal
  <2>1. /\ UNCHANGED <<slots, head, tail, cpc, ccell, bytes, last>>
        /\ ppc' = "write" /\ pval' = v /\ pcell' = 1
    BY <1>1 DEF PushBegin, ring, consumer
  <2>2. UNCHANGED Waiting /\ Stays
    BY <2>1 DEF Waiting, Queue, Stays
  <2>3. RingInv'
    BY <1>0, <2>1, <2>2 DEF RingInv, Held, Place
  <2> QED BY <2>2, <2>3 DEF Goal
<1>2. ASSUME PushCell PROVE Goal
  <2>1. /\ UNCHANGED <<head, tail, ppc, pval, cpc, ccell, bytes, last>>
        /\ ppc = "write" /\ pcell \in 1 .. Cells /\ pcell' = pcell + 1
        /\ slots' = [slots EXCEPT ![SlotOf(tail)][pcell] = pval]
    BY <1>0, <1>2, Constants DEF PushCell, consumer
  <2>2. UNCHANGED Waiting /\ \A i \in 1 .. Waiting : Place(i)' = Place(i)
    BY <2>1 DEF Waiting, Place
  <2>3. \A s \in 0 .. Capacity - 1 : s # SlotOf(tail) => slots'[s] = slots[s]
    BY <1>0, <2>1
  <2>4. ASSUME NEW i \in 1 .. Waiting PROVE Held(i)' = Held(i)
    <3>1. SlotOf(tail) # SlotOf(Place(i))
      BY <2>1, StoreIsApart
    <3>2. SlotOf(Place(i)) \in 0 .. Capacity - 1
      BY <1>0, Places, SlotInRing
    <3> QED BY <2>2, <2>3, <3>1, <3>2 DEF Held
  <2>5. Stays
    <3>1. Queue = [i \in 1 .. Waiting |-> Whole(Held(i))]
      BY DEF Queue, Held, Place
    <3>2. Queue' = [i \in 1 .. Waiting' |-> Whole(Held(i)')]
      BY DEF Queue, Held, Place, Whole
    <3> QED BY <2>1, <2>2, <2>4, <3>1, <3>2 DEF Stays
  <2>6. \A j \in 1 .. Cells : slots'[SlotOf(tail)][j]
                              = IF j = pcell THEN pval ELSE slots[SlotOf(tail)][j]
    BY <1>0, <1>b, <2>1
  <2>7. ASSUME cpc = "read" PROVE slots'[SlotOf(head)] = slots[SlotOf(head)]
    <3>1. SlotOf(tail) # SlotOf(head)
      BY <1>0, <2>1, <2>7, OccupancySeparates DEF NoSharedSlot
    <3> QED BY <1>b, <2>3, <3>1
  <2>8. RingInv'
    <3>1. \A i \in 1 .. Waiting' : \E v \in Payload : WholeIn(Held(i)', v)
      BY <1>0, <2>2, <2>4 DEF RingInv
    <3>2. pval' \in Payload /\ \A j \in 1 .. pcell' - 1 : slots'[SlotOf(tail')][j] = pval'
      BY <1>0, <2>1, <2>6 DEF RingInv
    <3>3. cpc' = "read" => \A j \in 1 .. ccell' - 1 : bytes'[j] = slots'[SlotOf(head')][j]
      BY <1>0, <2>1, <2>7 DEF RingInv
    <3> QED BY <3>1, <3>2, <3>3 DEF RingInv, WholeIn
  <2> QED BY <2>5, <2>8 DEF Goal
<1>3. ASSUME PushPublish PROVE Goal
  <2>1. /\ UNCHANGED <<slots, head, cpc, ccell, bytes, last>>
        /\ ppc = "write" /\ pcell > Cells /\ ppc' = "idle" /\ tail' = Succ(tail)
    BY <1>3 DEF PushPublish, consumer
  <2>2. Waiting < Capacity /\ Waiting < Modulus - 1
    BY <1>0, <2>1, Constants, SMTT(60) DEF Occupancy
  <2>3. Waiting' = Waiting + 1
    BY <1>0, <2>1, <2>2, Counting DEF Waiting
  <2>4. pval \in Payload /\ WholeIn(slots[SlotOf(tail)], pval)
    BY <1>0, <2>1, Constants DEF RingInv, WholeIn
  <2>5. Place(Waiting + 1) = tail
    <3>1. (head + Waiting) % Modulus = tail
      <4>1. Waiting \in 0 .. Modulus - 1
        BY <1>0, <2>2, Constants
      <4>2. (head + Waiting) % Modulus
              = IF head + Waiting < Modulus THEN head + Waiting ELSE head + Waiting - Modulus
        BY <1>0, <4>1, Wrapping
      <4> QED BY <1>0, <4>2, Constants DEF Waiting, Dist, Counter
    <3>2. head + (Waiting + 1) - 1 = head + Waiting
      BY <1>0, Constants DEF Counter
    <3> QED BY <3>1, <3>2 DEF Place
  <2>6. \A i \in 1 .. Waiting + 1 : Held(i)' = Held(i)
    BY <2>1 DEF Held, Place
  <2>7. Held(Waiting + 1) = slots[SlotOf(tail)]
    BY <2>5 DEF Held
  <2>8. RingInv'
    <3>1. \A i \in 1 .. Waiting' : \E v \in Payload : WholeIn(Held(i)', v)
      BY <1>0, <2>3, <2>4, <2>6, <2>7 DEF RingInv
    <3> QED BY <1>0, <2>1, <3>1 DEF RingInv, WholeIn
  <2>9. Accepts
    <3>1. Queue \in Seq(Payload) /\ Len(Queue) = Waiting
          /\ \A i \in 1 .. Waiting : Queue[i] = Whole(Held(i))
      BY QueueHolds
    <3>2. Queue' = [i \in 1 .. Waiting + 1 |-> Whole(Held(i))]
      <4>1. Queue' = [i \in 1 .. Waiting' |-> Whole(Held(i)')]
        BY DEF Queue, Held, Place, Whole
      <4> QED BY <2>3, <2>6, <4>1
    <3>3. Whole(Held(Waiting + 1)) = pval
      BY <2>4, <2>7, WholeOf
    <3> DEFINE t == Append(Queue, pval)
    <3>4. /\ t \in Seq(Payload) /\ Len(t) = Waiting + 1 /\ t[Waiting + 1] = pval
          /\ \A i \in 1 .. Waiting : t[i] = Queue[i]
      BY <1>0, <2>4, <3>1
    <3> HIDE DEF t
    <3>5. \A i \in 1 .. Waiting + 1 : t[i] = Whole(Held(i))
      BY <1>0, <3>1, <3>3, <3>4
    <3>6. t = [i \in 1 .. Waiting + 1 |-> t[i]]
      BY <3>4, SequenceIsFunction
    <3>7. Queue' = Append(Queue, pval)
      BY <3>2, <3>5, <3>6 DEF t
    <3> QED BY <2>1, <2>2, <2>4, <3>1, <3>7 DEF Accepts
  <2> QED BY <2>8, <2>9 DEF Goal
<1>4. ASSUME DrainBegin PROVE Goal
  <2>1. UNCHANGED <<slots, head, tail, ppc, pval, pcell, last>> /\ cpc' = "take"
    BY <1>4 DEF DrainBegin, ring, producer
  <2>2. UNCHANGED Waiting /\ Stays
    BY <2>1 DEF Waiting, Queue, Stays
  <2>3. RingInv'
    BY <1>0, <2>1, <2>2 DEF RingInv, Held, Place
  <2> QED BY <2>2, <2>3 DEF Goal
<1>5. ASSUME TakeBegin PROVE Goal
  <2>1. UNCHANGED <<slots, head, tail, ppc, pval, pcell, last>> /\ ccell' = 1
    BY <1>5 DEF TakeBegin, ring, producer
  <2>2. UNCHANGED Waiting /\ Stays
    BY <2>1 DEF Waiting, Queue, Stays
  <2>3. RingInv'
    BY <1>0, <2>1, <2>2 DEF RingInv, Held, Place
  <2> QED BY <2>2, <2>3 DEF Goal
<1>6. ASSUME TakeCell PROVE Goal
  <2>1. /\ UNCHANGED <<slots, head, tail, ppc, pval, pcell, cpc, last>>
        /\ ccell' = ccell + 1 /\ ccell \in 1 .. Cells /\ cpc = "read"
        /\ bytes' = [bytes EXCEPT ![ccell] = slots[SlotOf(head)][ccell]]
    BY <1>0, <1>6, Constants DEF TakeCell, ring, producer
  <2>2. UNCHANGED Waiting /\ Stays
    BY <2>1 DEF Waiting, Queue, Stays
  <2>3. \A j \in 1 .. ccell' - 1 : bytes'[j] = slots'[SlotOf(head')][j]
    BY <1>0, <2>1, Constants DEF RingInv
  <2>4. RingInv'
    BY <1>0, <2>1, <2>2, <2>3 DEF RingInv, Held, Place
  <2> QED BY <2>2, <2>4 DEF Goal
<1>7. ASSUME TakeRelease PROVE Goal
  <2>1. /\ UNCHANGED <<slots, tail, ppc, pval, pcell>> /\ cpc = "read" /\ ccell > Cells
        /\ head' = Succ(head) /\ last' = Whole(bytes) /\ cpc' # "read"
    BY <1>7 DEF TakeRelease, producer
  <2>2. Waiting > 0 /\ Waiting <= Capacity /\ Waiting < Modulus
    BY <1>0, <2>1, WaitingIsNatural DEF Occupancy
  <2>3. Waiting' = Waiting - 1
    BY <1>0, <2>1, <2>2, Counting DEF Waiting
  <2>4. ASSUME NEW i \in 1 .. Waiting - 1 PROVE Held(i)' = Held(i + 1)
    <3>1. (Succ(head) + (i - 1)) % Modulus = (head + i) % Modulus
      <4>1. Succ(head) \in Counter /\ i - 1 \in 0 .. Modulus - 1 /\ i \in 0 .. Modulus - 1
        BY <1>0, <2>2, Counting, Constants
      <4>2. (Succ(head) + (i - 1)) % Modulus
              = IF Succ(head) + (i - 1) < Modulus THEN Succ(head) + (i - 1)
                ELSE Succ(head) + (i - 1) - Modulus
        BY <4>1, Wrapping
      <4>3. (head + i) % Modulus = IF head + i < Modulus THEN head + i ELSE head + i - Modulus
        BY <1>0, <4>1, Wrapping
      <4>4. head \in Nat /\ head < Modulus /\ i \in Nat /\ Modulus \in Nat
            /\ Succ(head) = (IF head + 1 = Modulus THEN 0 ELSE head + 1)
        BY <1>0, <4>1, Constants DEF Succ, Counter
      <4>5. CASE head + 1 = Modulus
        BY <4>1, <4>2, <4>3, <4>4, <4>5
      <4>6. CASE head + 1 # Modulus
        BY <4>1, <4>2, <4>3, <4>4, <4>6
      <4> QED BY <4>5, <4>6
    <3>2. Succ(head) + i - 1 = Succ(head) + (i - 1) /\ head + (i + 1) - 1 = head + i
      BY <1>0, Counting, Constants DEF Counter
    <3> QED BY <2>1, <3>1, <3>2 DEF Held, Place
  <2>5. RingInv'
    <3>1. \A i \in 1 .. Waiting' : \E v \in Payload : WholeIn(Held(i)', v)
      BY <1>0, <2>2, <2>3, <2>4 DEF RingInv
    <3> QED BY <1>0, <2>1, <3>1 DEF RingInv, WholeIn
  <2>6. Delivers
    <3>1. /\ Queue \in Seq(Payload) /\ Len(Queue) = Waiting
          /\ \A i \in 1 .. Waiting : Queue[i] = Whole(Held(i)) /\ WholeIn(Held(i), Queue[i])
      BY QueueHolds
    <3>2. Held(1) = slots[SlotOf(head)]
      BY <1>0, <2>2, Places DEF Held
    <3>3. WholeIn(bytes, Queue[1])
      <4>1. \A j \in 1 .. Cells : bytes[j] = slots[SlotOf(head)][j]
        BY <1>0, <2>1, Constants DEF RingInv
      <4>2. WholeIn(Held(1), Queue[1])
        BY <1>0, <2>2, <3>1
      <4> QED BY <3>2, <4>1, <4>2 DEF WholeIn
    <3>4. last' = Head(Queue) /\ Queue # << >>
      BY <1>0, <2>1, <2>2, <3>1, <3>3, WholeOf
    <3>5. Queue' = [i \in 1 .. Waiting - 1 |-> Whole(Held(i + 1))]
      <4>1. Queue' = [i \in 1 .. Waiting' |-> Whole(Held(i)')]
        BY DEF Queue, Held, Place, Whole
      <4> QED BY <2>3, <2>4, <4>1
    <3> DEFINE t == Tail(Queue)
    <3>6. /\ t \in Seq(Payload) /\ Len(t) = Waiting - 1
          /\ \A i \in 1 .. Waiting - 1 : t[i] = Queue[i + 1]
      BY <1>0, <2>2, <3>1
    <3>7. t = [i \in 1 .. Waiting - 1 |-> Queue[i + 1]]
      <4> HIDE DEF t
      <4>1. t = [i \in 1 .. Waiting - 1 |-> t[i]]
        BY <3>6, SequenceIsFunction
      <4> QED BY <3>6, <4>1
    <3>8. \A i \in 1 .. Waiting - 1 : Queue[i + 1] = Whole(Held(i + 1))
      BY <1>0, <3>1
    <3> QED BY <3>4, <3>5, <3>7, <3>8 DEF Delivers
  <2> QED BY <2>5, <2>6 DEF Goal
<1>8. ASSUME UNCHANGED vars PROVE Goal
  <2>1. UNCHANGED <<slots, head, tail, ppc, pval, pcell, cpc, ccell, bytes, last>>
    BY <1>8 DEF vars, ring, producer, consumer
  <2>2. UNCHANGED Waiting /\ Stays
    BY <2>1 DEF Waiting, Queue, Stays
  <2>3. RingInv'
    BY <1>0, <2>1, <2>2 DEF RingInv, Held, Place
  <2> QED BY <2>2, <2>3 DEF Goal
<1>9. Goal
  BY <1>1, <1>2, <1>3, <1>4, <1>5, <1>6, <1>7, <1>8 DEF Next, Produce, Consume
<1> QED BY <1>a, <1>9 DEF QueueInv, Goal, Stays, Accepts, Delivers

\* The ring keeps the promise of the bounded queue: whatever the interleaving of
\* the byte accesses and wherever the counters wrap, every accepted value is
\* delivered once, whole and in order (Producer::push, Consumer::take).
THEOREM RingIsAFifo == Spec => ImplementsFifo
<1>1. Init => Fifo!Init
  <2> SUFFICES ASSUME Init PROVE Queue = << >> /\ last = Nothing
    BY DEF Fifo!Init, Queue
  <2>1. Waiting = 0
    BY Constants DEF Init, Waiting, Dist
  <2> QED BY <2>1 DEF Init, Queue
<1>2. QueueInv /\ [Next]_vars => QueueInv' /\ [Fifo!Next]_(Fifo!vars)
  <2> SUFFICES ASSUME QueueInv, [Next]_vars PROVE QueueInv' /\ [Fifo!Next]_(Fifo!vars)
    OBVIOUS
  <2>1. QueueInv'
    BY QueueStep
  <2>2. CASE Queue' = Queue /\ last' = last
    BY <2>1, <2>2 DEF Fifo!vars, Queue
  <2>3. CASE \E v \in Payload : /\ Len(Queue) < Capacity /\ Queue' = Append(Queue, v)
                                /\ last' = last
    BY <2>1, <2>3 DEF Fifo!Next, Fifo!Accept, Queue
  <2>4. CASE Queue # << >> /\ last' = Head(Queue) /\ Queue' = Tail(Queue)
    BY <2>1, <2>4 DEF Fifo!Next, Fifo!Deliver, Queue
  <2> QED BY <2>2, <2>3, <2>4, QueueStep
<1> QED BY <1>1, <1>2, QueueInit, PTL DEF Spec, ImplementsFifo, Fifo!Spec

(***************************************************************************)
(* THE FRAME BUFFER                                                        *)
(***************************************************************************)
-----------------------------------------------------------------------------
(* Type correctness                                                        *)

LEMMA Numbers ==
    /\ WordsPerSlot \in Nat \ {0} /\ SequenceModulus \in Nat /\ SequenceModulus > 1
    /\ 1 \in WordIndex /\ 0 \in Frames
    /\ \A n \in Nat : n % SequenceModulus \in Frames
<1>1. ASSUME NEW n \in Nat PROVE n % SequenceModulus \in 0 .. SequenceModulus - 1
  BY BufferAssumption
<1> QED BY <1>1, BufferAssumption DEF Frames, WordIndex

LEMMA BufferTypeInit == BufferInit => BufferTypeOK
<1> SUFFICES ASSUME BufferInit PROVE BufferTypeOK
  OBVIOUS
<1>1. Filled(0) \in [WordIndex -> Frames]
  BY Numbers DEF Filled
<1>2. 0 \in Slots /\ 1 \in Slots /\ 2 \in Slots /\ 1 \in 1 .. WordsPerSlot + 1
  BY Numbers DEF Slots
<1> QED BY <1>1, <1>2, Numbers DEF BufferInit, BufferTypeOK

LEMMA BufferTypeStep == BufferTypeOK /\ [BufferNext]_bufferVars => BufferTypeOK'
<1> SUFFICES ASSUME BufferTypeOK, [BufferNext]_bufferVars PROVE BufferTypeOK'
  OBVIOUS
<1>1. CASE PublishBegin
  <2>1. (sequence + 1) % SequenceModulus \in Frames
    BY Numbers DEF BufferTypeOK, Frames
  <2>2. 1 \in 1 .. WordsPerSlot + 1
    BY Numbers
  <2> QED BY <1>1, <2>1, <2>2 DEF PublishBegin, BufferTypeOK, control, reader
<1>2. CASE StoreWord
  <2>1. wword \in WordIndex /\ wword + 1 \in 1 .. WordsPerSlot + 1
    BY <1>2, Numbers DEF StoreWord, BufferTypeOK, WordIndex
  <2>2. words' \in [Slots -> [WordIndex -> Frames]]
    BY <1>2, <2>1 DEF StoreWord, BufferTypeOK
  <2> QED BY <1>2, <2>1, <2>2 DEF StoreWord, BufferTypeOK, control, reader
<1>3. CASE PublishSwap
  <2>1. 1 \in 1 .. WordsPerSlot + 1
    BY Numbers
  <2> QED BY <1>3, <2>1 DEF PublishSwap, BufferTypeOK, reader
<1>4. CASE RefreshBegin
  BY <1>4 DEF RefreshBegin, BufferTypeOK, control, writer
<1>5. CASE TakeSwap
  BY <1>5, Numbers DEF TakeSwap, BufferTypeOK, writer
<1>6. CASE LoadWord
  <2>1. frame' \in [WordIndex -> Frames]
    BY <1>6 DEF LoadWord, BufferTypeOK
  <2>2. rword' \in WordIndex /\ rpc' \in {"idle", "load"}
    <3>1. CASE rword = WordsPerSlot
      BY <1>6, <3>1, Numbers DEF LoadWord
    <3>2. CASE rword # WordsPerSlot
      <4>1. rword \in WordIndex
        BY DEF BufferTypeOK
      <4>2. rword + 1 \in WordIndex
        BY <3>2, <4>1, Numbers DEF WordIndex
      <4> QED BY <1>6, <3>2, <4>2 DEF LoadWord
    <3> QED BY <3>1, <3>2
  <2> QED BY <1>6, <2>1, <2>2 DEF LoadWord, BufferTypeOK, control, writer
<1>7. CASE UNCHANGED bufferVars
  BY <1>7 DEF bufferVars, BufferTypeOK, control, writer, reader
<1> QED BY <1>1, <1>2, <1>3, <1>4, <1>5, <1>6, <1>7 DEF BufferNext, Write, Read

\* The buffer is well typed for every frame size and range of numbers.
THEOREM BufferTypeCorrect == BufferSpec => []BufferTypeOK
<1> QED BY BufferTypeInit, BufferTypeStep, PTL DEF BufferSpec

-----------------------------------------------------------------------------
(* The ownership of the slots                                              *)

LEMMA PermutedInit == BufferInit => SlotsArePermuted
  BY DEF BufferInit, SlotsArePermuted, Slots

LEMMA PermutedStep == SlotsArePermuted /\ [BufferNext]_bufferVars => SlotsArePermuted'
<1> SUFFICES ASSUME SlotsArePermuted, [BufferNext]_bufferVars PROVE SlotsArePermuted'
  OBVIOUS
<1>1. CASE PublishBegin
  BY <1>1 DEF PublishBegin, SlotsArePermuted, control, reader
<1>2. CASE StoreWord
  BY <1>2 DEF StoreWord, SlotsArePermuted, control, reader
<1>3. CASE PublishSwap
  BY <1>3 DEF PublishSwap, SlotsArePermuted, reader
<1>4. CASE RefreshBegin
  BY <1>4 DEF RefreshBegin, SlotsArePermuted, control, writer
<1>5. CASE TakeSwap
  BY <1>5 DEF TakeSwap, SlotsArePermuted, writer
<1>6. CASE LoadWord
  BY <1>6 DEF LoadWord, SlotsArePermuted, control, writer
<1>7. CASE UNCHANGED bufferVars
  BY <1>7 DEF bufferVars, SlotsArePermuted, control, writer, reader
<1> QED BY <1>1, <1>2, <1>3, <1>4, <1>5, <1>6, <1>7 DEF BufferNext, Write, Read

\* "The three indices are always a permutation of 0..SLOTS", through any
\* number of publishes overtaking a refresh.
THEOREM OwnershipIsExclusive == BufferSpec => []SlotsArePermuted
<1> QED BY PermutedInit, PermutedStep, PTL DEF BufferSpec

LEMMA ThreeSlots ==
    SlotsArePermuted =>
        wowned # shared /\ wowned # rowned /\ shared # rowned
<1> SUFFICES ASSUME {wowned, shared, rowned} = 0 .. 2
             PROVE  wowned # shared /\ wowned # rowned /\ shared # rowned
  BY DEF SlotsArePermuted, Slots
<1>1. 0 \in {wowned, shared, rowned} /\ 1 \in {wowned, shared, rowned}
      /\ 2 \in {wowned, shared, rowned}
  OBVIOUS
<1> QED BY <1>1

-----------------------------------------------------------------------------
(* What the slots hold                                                     *)

\* The words the writer has stored carry the number it is publishing; a FRESH
\* slot holds one whole frame, the one published last; the slot the reader is
\* copying holds one whole frame, and so does what it has copied so far.
Contents ==
    /\ wpc = "store" => \A w \in WordIndex : w < wword => words[wowned][w] = sequence
    /\ fresh => words[shared] = Filled(Published)
    /\ rpc = "swap" => fresh
    /\ rpc = "load" => \A w \in WordIndex : words[rowned][w] = words[rowned][1]
    /\ rpc = "load" => \A w \in WordIndex : w < rword => frame[w] = words[rowned][1]
    /\ rpc # "load" => \A w \in WordIndex : frame[w] = frame[1]

LEMMA ContentsWhole == Contents => FrameIsWhole
  BY DEF Contents, FrameIsWhole

LEMMA ContentsInit == BufferInit => Contents
  BY Numbers DEF BufferInit, Contents, Filled, WordIndex

LEMMA Stamping ==
    ASSUME NEW n \in Frames
    PROVE  /\ (n + 1) % SequenceModulus \in Frames
           /\ (((n + 1) % SequenceModulus) + SequenceModulus - 1) % SequenceModulus = n
<1>1. CASE n + 1 = SequenceModulus
  <2>1. (n + 1) % SequenceModulus = 0
    BY <1>1, Numbers
  <2>2. (SequenceModulus - 1) % SequenceModulus = SequenceModulus - 1
    BY Numbers
  <2> QED BY <1>1, <2>1, <2>2, Numbers DEF Frames
<1>2. CASE n + 1 < SequenceModulus
  <2>1. (n + 1) % SequenceModulus = n + 1
    BY <1>2, Numbers DEF Frames
  <2>2. (n + SequenceModulus) % SequenceModulus = n
    BY <1>2, Numbers DEF Frames
  <2> QED BY <1>2, <2>1, <2>2, Numbers DEF Frames
<1> QED BY <1>1, <1>2, Numbers DEF Frames

LEMMA ContentsStep ==
    BufferTypeOK /\ SlotsArePermuted /\ Contents /\ [BufferNext]_bufferVars => Contents'
<1> SUFFICES ASSUME BufferTypeOK, SlotsArePermuted, Contents, [BufferNext]_bufferVars
             PROVE  Contents'
  OBVIOUS
<1>s. wowned # shared /\ wowned # rowned /\ shared # rowned
  BY ThreeSlots
<1>t. /\ words \in [Slots -> [WordIndex -> Frames]]
      /\ wowned \in Slots /\ shared \in Slots /\ rowned \in Slots
      /\ rword \in WordIndex /\ frame \in [WordIndex -> Frames]
      /\ wword \in 1 .. WordsPerSlot + 1 /\ sequence \in Frames
      /\ rpc \in {"idle", "swap", "load"} /\ wpc \in {"idle", "store"}
  BY DEF BufferTypeOK
<1>n. WordsPerSlot \in Nat \ {0} /\ 1 \in WordIndex
      /\ \A w \in WordIndex : w \in Nat /\ 1 <= w /\ w <= WordsPerSlot
  BY Numbers DEF WordIndex
<1>1. CASE PublishBegin
  <2>1. Published' = Published
    BY <1>1, <1>t, Stamping DEF PublishBegin, Published
  <2>2. \A w \in WordIndex : ~ (w < wword')
    BY <1>1, <1>n DEF PublishBegin
  <2> QED BY <1>1, <2>1, <2>2 DEF PublishBegin, Contents, control, reader
<1>2. CASE StoreWord
  <2>0. wword \in WordIndex
    BY <1>2, <1>t, <1>n DEF StoreWord, WordIndex
  <2>1. \A s \in Slots : s # wowned => words'[s] = words[s]
    BY <1>2, <1>t DEF StoreWord
  <2>2. words'[wowned] = [words[wowned] EXCEPT ![wword] = sequence]
    BY <1>2, <1>t DEF StoreWord
  <2>3. \A w \in WordIndex : words'[wowned][w] =
            IF w = wword THEN sequence ELSE words[wowned][w]
    BY <1>t, <2>0, <2>2
  <2>4. Published' = Published
    BY <1>2 DEF StoreWord, Published
  <2>5. \A w \in WordIndex : w < wword' => words'[wowned'][w] = sequence'
    BY <1>2, <1>t, <1>n, <2>0, <2>3 DEF StoreWord, Contents
  <2>6. words'[shared'] = words[shared] /\ words'[rowned'] = words[rowned]
    BY <1>2, <1>s, <1>t, <2>1 DEF StoreWord, control, reader
  <2> QED BY <1>2, <2>4, <2>5, <2>6 DEF StoreWord, Contents, control, reader
<1>3. CASE PublishSwap
  <2>1. \A w \in WordIndex : words[wowned][w] = sequence
    BY <1>3, <1>t, <1>n DEF PublishSwap, Contents
  <2>2. words[wowned] = Filled(sequence)
    BY <1>t, <2>1 DEF Filled
  <2>3. Published' = sequence
    BY <1>3 DEF PublishSwap, Published
  <2> QED BY <1>3, <2>2, <2>3 DEF PublishSwap, Contents, reader
<1>4. CASE RefreshBegin
  BY <1>4 DEF RefreshBegin, Contents, control, writer, Published
<1>5. CASE TakeSwap
  <2>0. fresh /\ words[shared] = Filled(Published)
    BY <1>5 DEF TakeSwap, Contents
  <2>1. \A w \in WordIndex : words[shared][w] = words[shared][1]
    BY <1>n, <2>0 DEF Filled
  <2>2. \A w \in WordIndex : ~ (w < rword')
    BY <1>5, <1>n DEF TakeSwap
  <2> QED BY <1>5, <2>1, <2>2 DEF TakeSwap, Contents, writer
<1>6. CASE LoadWord
  <2>1. Published' = Published
    BY <1>6 DEF LoadWord, writer, Published
  <2>2. \A w \in WordIndex : frame'[w] =
            IF w = rword THEN words[rowned][rword] ELSE frame[w]
    BY <1>6, <1>t DEF LoadWord
  <2>3. /\ words' = words /\ rowned' = rowned
        /\ \A w \in WordIndex : words[rowned][w] = words[rowned][1]
    BY <1>6 DEF LoadWord, Contents
  <2>4. \A w \in WordIndex : w <= rword => frame'[w] = words[rowned][1]
    BY <1>6, <1>t, <1>n, <2>2, <2>3 DEF LoadWord, Contents
  <2>5. CASE rword = WordsPerSlot
    <3>1. rpc' = "idle"
      BY <1>6, <2>5 DEF LoadWord
    <3>2. \A w \in WordIndex : frame'[w] = frame'[1]
      BY <1>n, <2>4, <2>5
    <3> QED BY <1>6, <2>1, <3>1, <3>2 DEF LoadWord, Contents, control, writer
  <2>6. CASE rword # WordsPerSlot
    <3>1. rpc' = "load" /\ rword' = rword + 1
      BY <1>6, <2>6 DEF LoadWord
    <3>2. \A w \in WordIndex : w < rword' => frame'[w] = words'[rowned'][1]
      BY <1>t, <1>n, <2>3, <2>4, <3>1
    <3> QED BY <1>6, <2>1, <2>3, <3>1, <3>2 DEF LoadWord, Contents, control, writer
  <2> QED BY <2>5, <2>6
<1>7. CASE UNCHANGED bufferVars
  BY <1>7 DEF bufferVars, Contents, control, writer, reader, Published
<1> QED BY <1>1, <1>2, <1>3, <1>4, <1>5, <1>6, <1>7 DEF BufferNext, Write, Read

\* No driver sees a frame mixed from two publishes.
THEOREM FramesAreWhole == BufferSpec => []FrameIsWhole
<1> QED BY BufferTypeInit, BufferTypeStep, PermutedInit, PermutedStep, ContentsInit,
           ContentsStep, ContentsWhole, PTL DEF BufferSpec

-----------------------------------------------------------------------------
(* The buffer implements the newest-frame register                         *)

\* The number before a stamped one is the number it was stamped from.
LEMMA Unstamping ==
    ASSUME NEW n \in Frames
    PROVE  (((n + SequenceModulus - 1) % SequenceModulus) + 1) % SequenceModulus = n
<1>1. CASE n = 0
  <2>1. (n + SequenceModulus - 1) % SequenceModulus = SequenceModulus - 1
    BY <1>1, Numbers
  <2>2. SequenceModulus % SequenceModulus = 0
    BY Numbers
  <2> QED BY <1>1, <2>1, <2>2, Numbers
<1>2. CASE n > 0
  <2>1. (n + SequenceModulus - 1) % SequenceModulus = n - 1
    <3> DEFINE m == n - 1
    <3>1. m \in Nat /\ m < SequenceModulus /\ n + SequenceModulus - 1 = m + SequenceModulus
      BY <1>2, Numbers DEF Frames
    <3> HIDE DEF m
    <3>2. (m + SequenceModulus) % SequenceModulus = m
      BY <3>1, Numbers
    <3>3. (n + SequenceModulus - 1) % SequenceModulus = m
      BY <3>1, <3>2
    <3> QED BY <3>3 DEF m
  <2>2. n % SequenceModulus = n
    BY Numbers DEF Frames
  <2> QED BY <1>2, <2>1, <2>2, Numbers DEF Frames
<1> QED BY <1>1, <1>2, Numbers DEF Frames

LEMMA LatestInit == BufferInit => Latest!Init
  BY Numbers DEF BufferInit, Latest!Init, Latest!Frames, Frames, Published, Taken, Filled

LEMMA LatestStep ==
    BufferTypeOK /\ SlotsArePermuted /\ Contents /\ [BufferNext]_bufferVars
      => [Latest!Next]_(Latest!vars)
<1> SUFFICES ASSUME BufferTypeOK, SlotsArePermuted, Contents, [BufferNext]_bufferVars
             PROVE  Latest!Next \/ UNCHANGED <<Published, fresh, Taken>>
  BY DEF Latest!vars
<1>s. wowned # shared /\ wowned # rowned /\ shared # rowned
  BY ThreeSlots
<1>t. /\ words \in [Slots -> [WordIndex -> Frames]]
      /\ wowned \in Slots /\ rowned \in Slots /\ 1 \in WordIndex
      /\ rword \in WordIndex /\ frame \in [WordIndex -> Frames]
      /\ sequence \in Frames
  BY Numbers DEF BufferTypeOK
<1>1. CASE PublishBegin
  <2>1. Published' = Published
    BY <1>1, <1>t, Stamping DEF PublishBegin, Published
  <2> QED BY <1>1, <2>1 DEF PublishBegin, control, reader, Taken
<1>2. CASE StoreWord
  <2>1. words'[rowned] = words[rowned]
    BY <1>2, <1>s, <1>t DEF StoreWord
  <2> QED BY <1>2, <2>1 DEF StoreWord, control, reader, Published, Taken
<1>3. CASE PublishSwap
  <2>1. Published' = sequence /\ Published = (sequence + SequenceModulus - 1) % SequenceModulus
    BY <1>3 DEF PublishSwap, Published
  <2>2. Published' = (Published + 1) % SequenceModulus
    BY <1>t, <2>1, Unstamping
  <2>3. Taken' = Taken /\ fresh' = TRUE
    BY <1>3 DEF PublishSwap, reader, Taken
  <2> QED BY <2>2, <2>3 DEF Latest!Next, Latest!Publish
<1>4. CASE RefreshBegin
  BY <1>4 DEF RefreshBegin, control, writer, Published, Taken
<1>5. CASE TakeSwap
  <2>1. fresh /\ words[shared][1] = Published
    BY <1>5, <1>t DEF TakeSwap, Contents, Filled
  <2>2. Taken' = Published /\ fresh' = FALSE /\ Published' = Published
    BY <1>5, <2>1 DEF TakeSwap, writer, Published, Taken
  <2> QED BY <2>1, <2>2 DEF Latest!Next, Latest!Refresh
<1>6. CASE LoadWord
  <2>1. Taken = words[rowned][1] /\ words' = words /\ rowned' = rowned
    BY <1>6 DEF LoadWord, Taken
  <2>2. CASE rword = WordsPerSlot
    <3>1. frame'[1] = words[rowned][1]
      <4>1. CASE rword = 1
        BY <1>6, <1>t, <4>1 DEF LoadWord
      <4>2. CASE rword # 1
        <5>1. 1 < rword
          BY <1>t, <4>2, Numbers DEF WordIndex
        <5>2. frame[1] = words[rowned][1]
          BY <1>6, <1>t, <5>1 DEF LoadWord, Contents
        <5> QED BY <1>6, <1>t, <4>2, <5>2 DEF LoadWord
      <4> QED BY <4>1, <4>2
    <3> QED BY <1>6, <2>1, <2>2, <3>1 DEF LoadWord, control, writer, Published, Taken
  <2>3. CASE rword # WordsPerSlot
    BY <1>6, <2>1, <2>3 DEF LoadWord, control, writer, Published, Taken
  <2> QED BY <2>2, <2>3
<1>7. CASE UNCHANGED bufferVars
  BY <1>7 DEF bufferVars, control, writer, reader, Published, Taken
<1> QED BY <1>1, <1>2, <1>3, <1>4, <1>5, <1>6, <1>7 DEF BufferNext, Write, Read

\* The buffer is the newest-frame register: a refresh gets, whole, the frame
\* published last when it swaps, for every frame size and range of numbers.
THEOREM BufferImplementsLatest == BufferSpec => ImplementsLatest
<1> QED BY BufferTypeInit, BufferTypeStep, PermutedInit, PermutedStep, ContentsInit,
           ContentsStep, LatestInit, LatestStep, PTL
        DEF BufferSpec, ImplementsLatest, Latest!Spec

(***************************************************************************)
(* THE ENROLMENT                                                           *)
(***************************************************************************)
-----------------------------------------------------------------------------
(* Sequences that hold nothing twice                                       *)

Names == Nat \ {0}
Apart(A, B) == \A x \in A : x \notin B

LEMMA EmptySet == ToSet(<< >>) = {} /\ IsInjective(<< >>) /\ << >> \in Seq(Names)
  BY DEF ToSet, IsInjective

LEMMA AppendSet ==
    ASSUME NEW s \in Seq(Names), IsInjective(s), NEW x \in Names \ ToSet(s)
    PROVE  /\ Append(s, x) \in Seq(Names) /\ IsInjective(Append(s, x))
           /\ ToSet(Append(s, x)) = ToSet(s) \cup {x}
<1> DEFINE t == Append(s, x)
<1>1. t \in Seq(Names) /\ Len(t) = Len(s) + 1 /\ Len(s) \in Nat /\ t[Len(s) + 1] = x
      /\ \A i \in 1 .. Len(s) : t[i] = s[i]
  OBVIOUS
<1>2. DOMAIN s = 1 .. Len(s) /\ DOMAIN t = 1 .. Len(s) + 1
  BY <1>1
<1> HIDE DEF t
<1>3. \A i \in 1 .. Len(s) : s[i] # x
  BY <1>2 DEF ToSet
<1>4. IsInjective(t)
  BY <1>1, <1>2, <1>3 DEF IsInjective
<1>5. ToSet(t) = ToSet(s) \cup {x}
  BY <1>1, <1>2 DEF ToSet
<1> QED BY <1>1, <1>4, <1>5 DEF t

LEMMA TailSet ==
    ASSUME NEW s \in Seq(Names), IsInjective(s), s # << >>
    PROVE  /\ Tail(s) \in Seq(Names) /\ IsInjective(Tail(s))
           /\ ToSet(Tail(s)) = ToSet(s) \ {Head(s)}
           /\ Head(s) \in ToSet(s) /\ Head(s) \in Names
<1> DEFINE t == Tail(s)
<1>1. /\ t \in Seq(Names) /\ Len(t) = Len(s) - 1 /\ Len(s) \in Nat \ {0} /\ Head(s) = s[1]
      /\ \A i \in 1 .. Len(t) : t[i] = s[i + 1]
  OBVIOUS
<1>2. DOMAIN s = 1 .. Len(s) /\ DOMAIN t = 1 .. Len(s) - 1
  BY <1>1
<1> HIDE DEF t
<1>3. IsInjective(t)
  BY <1>1, <1>2 DEF IsInjective
<1>4. Head(s) \in ToSet(s) /\ Head(s) \in Names
  BY <1>1, <1>2 DEF ToSet
<1>5. ASSUME NEW x \in ToSet(t) PROVE x \in ToSet(s) \ {Head(s)}
  <2>1. PICK i \in 1 .. Len(s) - 1 : x = t[i]
    BY <1>2, <1>5 DEF ToSet
  <2>2. i + 1 \in DOMAIN s /\ x = s[i + 1] /\ 1 \in DOMAIN s /\ i + 1 # 1
    BY <1>1, <1>2, <2>1
  <2> QED BY <1>1, <2>2 DEF ToSet, IsInjective
<1>6. ASSUME NEW x \in ToSet(s) \ {Head(s)} PROVE x \in ToSet(t)
  <2>1. PICK i \in 1 .. Len(s) : x = s[i]
    BY <1>2, <1>6 DEF ToSet
  <2>2. i - 1 \in 1 .. Len(s) - 1 /\ t[i - 1] = x
    BY <1>1, <1>6, <2>1
  <2> QED BY <1>2, <2>2 DEF ToSet
<1> QED BY <1>1, <1>3, <1>4, <1>5, <1>6 DEF t

LEMMA RemoveAtSet ==
    ASSUME NEW s \in Seq(Names), IsInjective(s), NEW k \in DOMAIN s
    PROVE  /\ RemoveAt(s, k) \in Seq(Names) /\ IsInjective(RemoveAt(s, k))
           /\ ToSet(RemoveAt(s, k)) = ToSet(s) \ {s[k]}
           /\ Len(RemoveAt(s, k)) = Len(s) - 1
<1> DEFINE t == RemoveAt(s, k)
<1>1. DOMAIN s = 1 .. Len(s) /\ Len(s) \in Nat /\ k \in 1 .. Len(s)
  OBVIOUS
<1>2. /\ t \in Seq(Names) /\ Len(t) = Len(s) - 1
      /\ \A i \in 1 .. Len(s) - 1 : t[i] = IF i < k THEN s[i] ELSE s[i + 1]
  <2> DEFINE a == SubSeq(s, 1, k - 1)
             b == SubSeq(s, k + 1, Len(s))
  <2>1. /\ a \in Seq(Names) /\ Len(a) = k - 1 /\ \A i \in 1 .. k - 1 : a[i] = s[i]
    BY <1>1
  <2>2. /\ b \in Seq(Names) /\ Len(b) = Len(s) - k
        /\ \A i \in 1 .. Len(s) - k : b[i] = s[i + k]
    BY <1>1
  <2>3. t = a \o b
    BY DEF RemoveAt
  <2> HIDE DEF a, b, t
  <2>4. t \in Seq(Names) /\ Len(t) = Len(s) - 1
    <3>1. a \in Seq(Names) /\ b \in Seq(Names)
      BY <2>1, <2>2
    <3>2. a \o b \in Seq(Names) /\ Len(a \o b) = Len(a) + Len(b)
      BY <3>1
    <3>3. (k - 1) + (Len(s) - k) = Len(s) - 1
      BY <1>1
    <3> QED BY <2>1, <2>2, <2>3, <3>2, <3>3
  <2>5. ASSUME NEW i \in 1 .. Len(s) - 1
        PROVE  t[i] = IF i < k THEN s[i] ELSE s[i + 1]
    <3>1. t[i] = IF i <= Len(a) THEN a[i] ELSE b[i - Len(a)]
      BY <1>1, <2>1, <2>2, <2>3
    <3>2. CASE i < k
      BY <1>1, <2>1, <3>1, <3>2
    <3>3. CASE ~ (i < k)
      <4>1. i - Len(a) \in 1 .. Len(s) - k /\ (i - Len(a)) + k = i + 1
        BY <1>1, <2>1, <3>3
      <4> QED BY <1>1, <2>1, <2>2, <3>1, <3>3, <4>1, SMTT(60)
    <3> QED BY <3>2, <3>3
  <2> QED BY <2>4, <2>5
<1>3. \A i \in 1 .. Len(s) - 1 : t[i] = IF i < k THEN s[i] ELSE s[i + 1]
  BY <1>2
<1>4. DOMAIN t = 1 .. Len(s) - 1
  BY <1>1, <1>2
<1> HIDE DEF t
<1>5. IsInjective(t)
  <2> DEFINE Spot(i) == IF i < k THEN i ELSE i + 1
  <2>1. \A i \in DOMAIN t : Spot(i) \in DOMAIN s /\ t[i] = s[Spot(i)]
    BY <1>1, <1>3, <1>4
  <2>2. \A i, j \in DOMAIN t : Spot(i) = Spot(j) => i = j
    BY <1>1, <1>4
  <2> HIDE DEF Spot
  <2>3. \A i, j \in DOMAIN t : t[i] = t[j] => i = j
    BY <2>1, <2>2 DEF IsInjective
  <2> QED BY <2>3 DEF IsInjective
<1>6. ASSUME NEW x \in ToSet(t) PROVE x \in ToSet(s) \ {s[k]}
  <2>1. PICK i \in 1 .. Len(s) - 1 : x = t[i]
    BY <1>4, <1>6 DEF ToSet
  <2>2. PICK j \in DOMAIN s : x = s[j] /\ j # k
    BY <1>1, <1>3, <2>1
  <2> QED BY <2>2 DEF ToSet, IsInjective
<1>7. ASSUME NEW x \in ToSet(s) \ {s[k]} PROVE x \in ToSet(t)
  <2>1. PICK i \in 1 .. Len(s) : x = s[i] /\ i # k
    BY <1>1, <1>7 DEF ToSet
  <2>2. \E j \in 1 .. Len(s) - 1 : t[j] = x
    <3>1. CASE i < k
      BY <1>1, <1>3, <2>1, <3>1
    <3>2. CASE i > k
      <4>1. i - 1 \in 1 .. Len(s) - 1 /\ ~ (i - 1 < k) /\ (i - 1) + 1 = i
        BY <1>1, <3>2
      <4> QED BY <1>3, <2>1, <4>1
    <3> QED BY <1>1, <2>1, <3>1, <3>2
  <2> QED BY <1>4, <2>2 DEF ToSet
<1> QED BY <1>2, <1>5, <1>6, <1>7 DEF t

LEMMA ConcatSet ==
    ASSUME NEW s \in Seq(Names), NEW t \in Seq(Names), IsInjective(s), IsInjective(t),
           Apart(ToSet(s), ToSet(t))
    PROVE  /\ s \o t \in Seq(Names) /\ IsInjective(s \o t)
           /\ ToSet(s \o t) = ToSet(s) \cup ToSet(t)
<1> DEFINE u == s \o t
<1>1. /\ u \in Seq(Names) /\ Len(u) = Len(s) + Len(t) /\ Len(s) \in Nat /\ Len(t) \in Nat
      /\ \A i \in 1 .. Len(s) + Len(t) : u[i] = IF i <= Len(s) THEN s[i] ELSE t[i - Len(s)]
  OBVIOUS
<1>2. DOMAIN s = 1 .. Len(s) /\ DOMAIN t = 1 .. Len(t) /\ DOMAIN u = 1 .. Len(s) + Len(t)
  BY <1>1
<1> HIDE DEF u
<1>3. \A i \in DOMAIN s : \A j \in DOMAIN t : s[i] # t[j]
  BY DEF ToSet, Apart
<1>4. IsInjective(u)
  <2> SUFFICES ASSUME NEW i \in DOMAIN u, NEW j \in DOMAIN u, u[i] = u[j] PROVE i = j
    BY DEF IsInjective
  <2>1. CASE i <= Len(s) /\ j <= Len(s)
    BY <1>1, <1>2, <2>1 DEF IsInjective
  <2>2. CASE i > Len(s) /\ j > Len(s)
    <3>1. i - Len(s) \in DOMAIN t /\ j - Len(s) \in DOMAIN t
          /\ t[i - Len(s)] = t[j - Len(s)]
      BY <1>1, <1>2, <2>2
    <3>2. i - Len(s) = j - Len(s)
      BY <3>1 DEF IsInjective
    <3> QED BY <1>1, <1>2, <3>2
  <2>3. CASE i <= Len(s) /\ j > Len(s)
    <3>1. i \in DOMAIN s /\ j - Len(s) \in DOMAIN t /\ s[i] = t[j - Len(s)]
      BY <1>1, <1>2, <2>3
    <3> QED BY <1>3, <3>1
  <2>4. CASE i > Len(s) /\ j <= Len(s)
    <3>1. j \in DOMAIN s /\ i - Len(s) \in DOMAIN t /\ s[j] = t[i - Len(s)]
      BY <1>1, <1>2, <2>4
    <3> QED BY <1>3, <3>1
  <2> QED BY <1>1, <1>2, <2>1, <2>2, <2>3, <2>4
<1>5. ASSUME NEW x \in ToSet(u) PROVE x \in ToSet(s) \cup ToSet(t)
  <2>1. PICK i \in DOMAIN u : x = u[i]
    BY <1>5 DEF ToSet
  <2>2. CASE i <= Len(s)
    <3>1. i \in DOMAIN s /\ x = s[i]
      BY <1>1, <1>2, <2>1, <2>2
    <3> QED BY <3>1 DEF ToSet
  <2>3. CASE i > Len(s)
    <3>1. i - Len(s) \in DOMAIN t /\ x = t[i - Len(s)]
      BY <1>1, <1>2, <2>1, <2>3
    <3> QED BY <3>1 DEF ToSet
  <2> QED BY <1>1, <1>2, <2>2, <2>3
<1>6. ASSUME NEW x \in ToSet(s) \cup ToSet(t) PROVE x \in ToSet(u)
  <2>1. CASE x \in ToSet(s)
    <3>1. PICK i \in DOMAIN s : x = s[i]
      BY <2>1 DEF ToSet
    <3>2. i \in DOMAIN u /\ u[i] = x
      BY <1>1, <1>2, <3>1
    <3> QED BY <3>2 DEF ToSet
  <2>2. CASE x \in ToSet(t)
    <3>1. PICK i \in DOMAIN t : x = t[i]
      BY <2>2 DEF ToSet
    <3>2. i + Len(s) \in DOMAIN u /\ u[i + Len(s)] = x
      BY <1>1, <1>2, <3>1
    <3> QED BY <3>2 DEF ToSet
  <2> QED BY <2>1, <2>2
<1> QED BY <1>1, <1>4, <1>5, <1>6 DEF u

\* Nothing twice: as long as the set it holds is large.
LEMMA LengthIsCardinality ==
    ASSUME NEW s \in Seq(Names), IsInjective(s)
    PROVE  IsFiniteSet(ToSet(s)) /\ Cardinality(ToSet(s)) = Len(s)
<1>1. Len(s) \in Nat /\ DOMAIN s = 1 .. Len(s) /\ s = [i \in 1 .. Len(s) |-> s[i]]
  OBVIOUS
<1>2. ExistsBijection(1 .. Len(s), ToSet(s))
  <2>1. \A i \in 1 .. Len(s) : s[i] \in ToSet(s)
    BY <1>1 DEF ToSet
  <2>2. s \in [1 .. Len(s) -> ToSet(s)]
    BY <1>1, <2>1
  <2>3. \A x \in ToSet(s) : \E i \in 1 .. Len(s) : s[i] = x
    BY <1>1 DEF ToSet
  <2>4. s \in Bijection(1 .. Len(s), ToSet(s))
    BY <2>2, <2>3, IsInjective(s), Zenon DEF Bijection, Injection, Surjection
  <2> QED BY <2>4 DEF ExistsBijection
<1> QED BY <1>1, <1>2, FS_NatBijection, FS_CountingElements

-----------------------------------------------------------------------------
(* The inductive invariant                                                 *)

Joining == ToSet(joining)
Walked  == ToSet(links)
Retired == ToSet(retired)
Leaving == ToSet(leaving)
Alive   == Joining \cup Walked
Buried  == Retired \cup freed
Issued  == 1 .. nextId - 1

States == {"idle", "claim", "push", "pushed", "joined",
           "leave", "left", "drop", "flag", "collect"}

Typed ==
    /\ live \in Nat /\ nextId \in Names /\ pending \in BOOLEAN
    /\ changes \in Callers \cup {Tick, Nobody} /\ retiring \in Callers \cup {Nobody}
    /\ joining \in Seq(Names) /\ leaving \in Seq(Names)
    /\ retired \in Seq(Names) /\ links \in Seq(Names)
    /\ pc \in [Callers -> States] /\ arg \in [Callers -> Nat]
    /\ tpc \in {"idle", "try", "leave", "unlock"}

\* An id is in one place and nothing is in a place twice; who waits to leave is
\* there, and who is buried had left.
PlaceInv ==
    /\ IsInjective(joining) /\ IsInjective(links)
    /\ IsInjective(retired) /\ IsInjective(leaving)
    /\ Apart(Joining, Walked) /\ Apart(Retired, freed) /\ Apart(Alive, Buried)
    /\ given \subseteq Alive \cup Buried /\ Alive \cup Buried \subseteq Issued
    /\ Leaving \subseteq Alive /\ Leaving \subseteq gone
    /\ Buried \subseteq gone /\ gone \subseteq given

\* What each caller knows of the id it is busy with.
Joiners == {"push", "pushed", "joined"}
Leavers == {"leave", "left", "drop"}
CallerInv ==
    /\ \A c \in Callers :
         /\ pc[c] = "claim" => arg[c] < MaxSubscribers
         /\ pc[c] = "push" => arg[c] \in Issued \ (Alive \cup Buried)
         /\ pc[c] \in {"pushed", "joined"} => arg[c] \in Alive \ given
         /\ pc[c] = "leave" => arg[c] \in Alive \ Leaving /\ arg[c] \in gone
         /\ pc[c] \in {"left", "drop"} => arg[c] \in gone \ (Alive \ Leaving)
    /\ \A c, d \in Callers :
         c # d => /\ pc[c] \in Joiners /\ pc[d] \in Joiners => arg[c] # arg[d]
                  /\ pc[c] \in Leavers /\ pc[d] \in Leavers => arg[c] # arg[d]

\* `live` counts whoever is enrolled and not about to leave, whoever has claimed
\* a place and not taken it, and whoever left and has not given it back.
Claims == {c \in Callers : pc[c] \in {"push", "left", "drop"}}
Living == (Alive \ Leaving) \cup {arg[c] : c \in Claims}
CountInv == live = Cardinality(Living) /\ live <= MaxSubscribers

\* Each claim that is under way may still number one more.
Claimers == {c \in Callers : pc[c] = "claim"}
NumberInv == nextId + Cardinality(Claimers) <= MaxId + 1 + Cardinality(Callers)

RollInv == Typed /\ PlaceInv /\ CallerInv

\* A place is left to the graves: retired, or freed at once.
LEMMA RetireDoes ==
    ASSUME Typed, PlaceInv, NEW id \in Names \ Buried, Retire(id)
    PROVE  /\ retired' \in Seq(Names) /\ IsInjective(retired') /\ retiring' = retiring
           /\ Apart(Retired', freed') /\ Buried' = Buried \cup {id}
<1>1. CASE retiring = Nobody
  <2>1. retired' = Append(retired, id) /\ UNCHANGED <<retiring, freed>>
    BY <1>1 DEF Retire
  <2>2. retired' \in Seq(Names) /\ IsInjective(retired') /\ Retired' = Retired \cup {id}
    BY <2>1, AppendSet DEF Typed, PlaceInv, Apart, Retired, Buried
  <2> QED BY <2>1, <2>2 DEF PlaceInv, Apart, Buried
<1>2. CASE retiring # Nobody
  <2>1. freed' = freed \cup {id} /\ UNCHANGED <<retired, retiring>>
    BY <1>2 DEF Retire
  <2> QED BY <2>1 DEF Typed, PlaceInv, Apart, Buried, Retired
<1> QED BY <1>1, <1>2

LEMMA RollInit == EnrolmentInit => RollInv
<1> SUFFICES ASSUME EnrolmentInit PROVE RollInv
  OBVIOUS
<1>1. SetUp \in Nat /\ MaxSubscribers \in Nat
  BY EnrolmentAssumption
<1>2. /\ links \in Seq(Names) /\ IsInjective(links) /\ Walked = 1 .. SetUp
  <2>1. links = [i \in 1 .. SetUp |-> i]
    BY DEF EnrolmentInit
  <2>2. links \in Seq(Names)
    BY <1>1, <2>1 DEF Names
  <2>3. IsInjective(links) /\ ToSet(links) = 1 .. SetUp
    BY <1>1, <2>1 DEF IsInjective, ToSet
  <2> QED BY <2>2, <2>3 DEF Walked
<1>3. Joining = {} /\ Retired = {} /\ Leaving = {} /\ freed = {} /\ gone = {}
      /\ given = 1 .. SetUp /\ nextId = SetUp + 1
  BY EmptySet DEF EnrolmentInit, Joining, Retired, Leaving
<1>4. /\ joining \in Seq(Names) /\ IsInjective(joining)
      /\ retired \in Seq(Names) /\ IsInjective(retired)
      /\ leaving \in Seq(Names) /\ IsInjective(leaving)
  BY EmptySet DEF EnrolmentInit
<1>5. Typed
  <2>1. /\ live \in Nat /\ nextId \in Names /\ pending \in BOOLEAN
        /\ changes \in Callers \cup {Tick, Nobody} /\ retiring \in Callers \cup {Nobody}
        /\ tpc \in {"idle", "try", "leave", "unlock"}
    <3>1. SetUp + 1 \in Names
      BY <1>1 DEF Names
    <3> QED BY <1>1, <3>1 DEF EnrolmentInit
  <2>2. pc \in [Callers -> States] /\ arg \in [Callers -> Nat]
    BY DEF EnrolmentInit, States
  <2> QED BY <1>2, <1>4, <2>1, <2>2 DEF Typed
<1>6. PlaceInv
  BY <1>1, <1>2, <1>3, <1>4 DEF PlaceInv, Apart, Alive, Buried, Issued
<1>7. CallerInv
  BY DEF EnrolmentInit, CallerInv, Joiners, Leavers
<1> QED BY <1>5, <1>6, <1>7 DEF RollInv

\* A step that leaves the places alone.
Still == UNCHANGED <<nextId, joining, leaving, retired, links, freed, given, gone>>

LEMMA StillDoes ==
    ASSUME PlaceInv, Still
    PROVE  /\ PlaceInv' /\ UNCHANGED <<Joining, Walked, Retired, Leaving, Alive, Buried, Issued>>
  BY DEF PlaceInv, Apart, Still, Joining, Walked, Retired, Leaving, Alive, Buried, Issued

LEMMA RollSubscribing ==
    ASSUME RollInv, NEW c \in Callers, ClaimLoad(c) \/ Subscribing(c)
    PROVE  RollInv'
<1>0. /\ Typed /\ PlaceInv /\ CallerInv /\ MaxSubscribers \in Nat
      /\ pc \in [Callers -> States] /\ arg \in [Callers -> Nat] /\ nextId \in Names
  BY EnrolmentAssumption DEF RollInv, Typed
<1>1. CASE ClaimLoad(c)
  <2>1. /\ pc[c] = "idle" /\ pc' = [pc EXCEPT ![c] = "claim"] /\ live < MaxSubscribers
        /\ arg' = [arg EXCEPT ![c] = live] /\ Still
    BY <1>1 DEF ClaimLoad, At, Keep, Still, roll, graves
  <2>2. PlaceInv' /\ UNCHANGED <<Joining, Walked, Retired, Leaving, Alive, Buried, Issued>>
    BY <1>0, <2>1, StillDoes
  <2>3. CallerInv'
    BY <1>0, <2>1, <2>2 DEF CallerInv, Joiners, Leavers, Still
  <2>4. Typed'
    BY <1>0, <1>1, <2>1 DEF ClaimLoad, Typed, roll, graves, States
  <2> QED BY <2>2, <2>3, <2>4 DEF RollInv
<1>2. CASE ClaimExchange(c) /\ live = arg[c]
  <2>1. /\ pc[c] = "claim" /\ pc' = [pc EXCEPT ![c] = "push"]
        /\ arg' = [arg EXCEPT ![c] = nextId] /\ live' = live + 1 /\ nextId' = nextId + 1
        /\ UNCHANGED <<pending, changes, joining, leaving, graves, links, given, gone, tpc>>
    BY <1>2 DEF ClaimExchange, At, Keep
  <2>2. UNCHANGED <<Joining, Walked, Retired, Leaving, Alive, Buried>>
    BY <2>1 DEF graves, Joining, Walked, Retired, Leaving, Alive, Buried
  <2>3. Issued' = Issued \cup {nextId} /\ nextId \notin Issued
    BY <1>0, <2>1 DEF Issued, Names
  <2>4. PlaceInv'
    BY <1>0, <2>1, <2>2, <2>3 DEF PlaceInv, Apart, graves
  <2>5. CallerInv'
    <3>1. nextId \notin Alive \cup Buried /\ Alive \cup Buried \subseteq Issued
      BY <1>0, <2>3 DEF PlaceInv, Apart
    <3> QED BY <1>0, <2>1, <2>2, <2>3, <3>1 DEF CallerInv, Joiners, Leavers
  <2>6. Typed'
    BY <1>0, <2>1 DEF Typed, graves, States, Names
  <2> QED BY <2>4, <2>5, <2>6 DEF RollInv
<1>3. CASE ClaimExchange(c) /\ live # arg[c]
  <2>1. /\ pc[c] = "claim" /\ arg' = [arg EXCEPT ![c] = live] /\ Still
        /\ pc' = [pc EXCEPT ![c] = IF live < MaxSubscribers THEN "claim" ELSE "idle"]
        /\ UNCHANGED <<live, nextId, pending, changes, joining, leaving, graves, links, given,
                       gone, tpc>>
    BY <1>3 DEF ClaimExchange, At, Keep, Still, graves
  <2>2. PlaceInv' /\ UNCHANGED <<Joining, Walked, Retired, Leaving, Alive, Buried, Issued>>
    BY <1>0, <2>1, StillDoes
  <2>3. CallerInv'
    BY <1>0, <2>1, <2>2 DEF CallerInv, Joiners, Leavers, Still
  <2>4. Typed'
    BY <1>0, <2>1 DEF Typed, graves, States
  <2> QED BY <2>2, <2>3, <2>4 DEF RollInv
<1>4. CASE Join(c)
  <2>1. /\ pc[c] = "push" /\ pc' = [pc EXCEPT ![c] = "pushed"] /\ changes' = c
        /\ joining' = Append(joining, arg[c])
        /\ UNCHANGED <<live, nextId, pending, leaving, graves, links, arg, given, gone, tpc>>
    BY <1>4 DEF Join, At
  <2>2. arg[c] \in Issued \ (Alive \cup Buried) /\ arg[c] \in Names
    BY <1>0, <2>1 DEF CallerInv, Issued, Names
  <2>3. joining' \in Seq(Names) /\ IsInjective(joining') /\ Joining' = Joining \cup {arg[c]}
    BY <1>0, <2>1, <2>2, AppendSet DEF Typed, PlaceInv, Apart, Alive, Joining
  <2>4. /\ UNCHANGED <<Walked, Retired, Leaving, Buried, Issued>>
        /\ Alive' = Alive \cup {arg[c]}
    BY <2>1, <2>3 DEF graves, Walked, Retired, Leaving, Alive, Buried, Issued
  <2>5. PlaceInv'
    BY <1>0, <2>1, <2>2, <2>3, <2>4 DEF PlaceInv, Apart, graves, Alive
  <2>6. CallerInv'
    <3>1. arg[c] \notin given /\ arg[c] \notin Leaving /\ arg[c] \notin gone
      BY <1>0, <2>2 DEF PlaceInv, Apart
    <3> QED BY <1>0, <2>1, <2>2, <2>4, <3>1 DEF CallerInv, Joiners, Leavers
  <2>7. Typed'
    BY <1>0, <2>1, <2>3 DEF Typed, graves, States
  <2> QED BY <2>5, <2>6, <2>7 DEF RollInv
<1>5. CASE JoinUnlock(c)
  <2>1. /\ pc[c] = "pushed" /\ pc' = [pc EXCEPT ![c] = "joined"] /\ changes' = Nobody /\ Still
        /\ UNCHANGED <<live, nextId, pending, joining, leaving, graves, links, arg, given,
                       gone, tpc>>
    BY <1>5 DEF JoinUnlock, At, Still, graves
  <2>2. PlaceInv' /\ UNCHANGED <<Joining, Walked, Retired, Leaving, Alive, Buried, Issued>>
    BY <1>0, <2>1, StillDoes
  <2>3. CallerInv'
    BY <1>0, <2>1, <2>2 DEF CallerInv, Joiners, Leavers, Still
  <2>4. Typed'
    BY <1>0, <2>1 DEF Typed, graves, States
  <2> QED BY <2>2, <2>3, <2>4 DEF RollInv
<1>6. CASE JoinFlag(c)
  <2>1. /\ pc[c] = "joined" /\ pc' = [pc EXCEPT ![c] = "idle"] /\ pending' = TRUE
        /\ given' = given \cup {arg[c]} /\ arg' = [arg EXCEPT ![c] = 0]
        /\ UNCHANGED <<live, nextId, changes, joining, leaving, graves, links, gone, tpc>>
    BY <1>6 DEF JoinFlag, At, Keep
  <2>2. arg[c] \in Alive \ given
    BY <1>0, <2>1 DEF CallerInv
  <2>3. UNCHANGED <<Joining, Walked, Retired, Leaving, Alive, Buried, Issued>>
    BY <2>1 DEF graves, Joining, Walked, Retired, Leaving, Alive, Buried, Issued
  <2>4. PlaceInv'
    BY <1>0, <2>1, <2>2, <2>3 DEF PlaceInv, Apart, graves
  <2>5. \A d \in Callers : d # c /\ pc[d] \in Joiners => arg[d] # arg[c]
    BY <1>0, <2>1 DEF CallerInv, Joiners
  <2>6. CallerInv'
    BY <1>0, <2>1, <2>2, <2>3, <2>5 DEF CallerInv, Joiners, Leavers
  <2>7. Typed'
    BY <1>0, <2>1 DEF Typed, graves, States
  <2> QED BY <2>4, <2>6, <2>7 DEF RollInv
<1> QED BY <1>1, <1>2, <1>3, <1>4, <1>5, <1>6 DEF Subscribing

LEMMA RollUnsubscribing ==
    ASSUME RollInv, NEW c \in Callers,
           (\E id \in Ids : LeaveBegin(c, id)) \/ Unsubscribing(c)
    PROVE  RollInv'
<1>0. /\ Typed /\ PlaceInv /\ CallerInv
      /\ pc \in [Callers -> States] /\ arg \in [Callers -> Nat] /\ nextId \in Names
  BY DEF RollInv, Typed
<1>1. ASSUME NEW id \in Ids, LeaveBegin(c, id) PROVE RollInv'
  <2>1. /\ pc[c] = "idle" /\ pc' = [pc EXCEPT ![c] = "leave"] /\ id \in given \ gone
        /\ arg' = [arg EXCEPT ![c] = id] /\ gone' = gone \cup {id}
        /\ UNCHANGED <<roll, graves, links, given, tpc>>
    BY <1>1 DEF LeaveBegin, At, Keep
  <2>2. id \in Nat
    BY EnrolmentAssumption DEF Ids
  <2>3. UNCHANGED <<Joining, Walked, Retired, Leaving, Alive, Buried, Issued>>
    BY <2>1 DEF roll, graves, Joining, Walked, Retired, Leaving, Alive, Buried, Issued
  <2>4. id \in Alive \ Leaving
    BY <1>0, <2>1 DEF PlaceInv, Apart
  <2>5. PlaceInv'
    BY <1>0, <2>1, <2>3 DEF PlaceInv, Apart, roll, graves
  <2>6. \A d \in Callers : pc[d] \in Leavers => arg[d] \in gone
    BY <1>0 DEF CallerInv, Leavers
  <2>7. CallerInv'
    BY <1>0, <2>1, <2>3, <2>4, <2>6 DEF CallerInv, Joiners, Leavers
  <2>8. Typed'
    BY <1>0, <2>1, <2>2 DEF Typed, roll, graves, States
  <2> QED BY <2>5, <2>7, <2>8 DEF RollInv
<1>2. CASE Leave(c)
  <2>1. /\ pc[c] = "leave" /\ pc' = [pc EXCEPT ![c] = "left"] /\ changes' = c
        /\ leaving' = Append(leaving, arg[c])
        /\ UNCHANGED <<live, nextId, pending, joining, graves, links, arg, given, gone, tpc>>
    BY <1>2 DEF Leave, At
  <2>2. arg[c] \in Alive \ Leaving /\ arg[c] \in gone /\ arg[c] \in Names
    BY <1>0, <2>1 DEF CallerInv, PlaceInv, Apart, Issued, Names
  <2>3. leaving' \in Seq(Names) /\ IsInjective(leaving') /\ Leaving' = Leaving \cup {arg[c]}
    BY <1>0, <2>1, <2>2, AppendSet DEF Typed, PlaceInv, Apart, Leaving
  <2>4. UNCHANGED <<Joining, Walked, Retired, Alive, Buried, Issued>>
    BY <2>1 DEF graves, Joining, Walked, Retired, Alive, Buried, Issued
  <2>5. PlaceInv'
    BY <1>0, <2>1, <2>2, <2>3, <2>4 DEF PlaceInv, Apart, graves
  <2>6. CallerInv'
    BY <1>0, <2>1, <2>2, <2>3, <2>4 DEF CallerInv, Joiners, Leavers
  <2>7. Typed'
    BY <1>0, <2>1, <2>3 DEF Typed, graves, States
  <2> QED BY <2>5, <2>6, <2>7 DEF RollInv
<1>3. CASE LeaveUnlock(c)
  <2>1. /\ pc[c] = "left" /\ pc' = [pc EXCEPT ![c] = "drop"] /\ changes' = Nobody /\ Still
        /\ UNCHANGED <<live, nextId, pending, joining, leaving, graves, links, arg, given,
                       gone, tpc>>
    BY <1>3 DEF LeaveUnlock, At, Still, graves
  <2>2. PlaceInv' /\ UNCHANGED <<Joining, Walked, Retired, Leaving, Alive, Buried, Issued>>
    BY <1>0, <2>1, StillDoes
  <2>3. CallerInv'
    BY <1>0, <2>1, <2>2 DEF CallerInv, Joiners, Leavers, Still
  <2>4. Typed'
    BY <1>0, <2>1 DEF Typed, graves, States
  <2> QED BY <2>2, <2>3, <2>4 DEF RollInv
<1>4. CASE LeaveDrop(c)
  <2>1. /\ pc[c] = "drop" /\ pc' = [pc EXCEPT ![c] = "flag"] /\ live' = (live - 1) % Wide
        /\ Still
        /\ UNCHANGED <<nextId, pending, changes, joining, leaving, graves, links, arg, given,
                       gone, tpc>>
    BY <1>4 DEF LeaveDrop, At, Still, graves
  <2>2. PlaceInv' /\ UNCHANGED <<Joining, Walked, Retired, Leaving, Alive, Buried, Issued>>
    BY <1>0, <2>1, StillDoes
  <2>3. CallerInv'
    BY <1>0, <2>1, <2>2 DEF CallerInv, Joiners, Leavers, Still
  <2>4. live' \in Nat
    BY <1>0, <2>1, EnrolmentAssumption DEF Typed
  <2>5. Typed'
    BY <1>0, <2>1, <2>4 DEF Typed, graves, States
  <2> QED BY <2>2, <2>3, <2>5 DEF RollInv
<1>5. CASE LeaveFlag(c)
  <2>1. /\ pc[c] = "flag" /\ pc' = [pc EXCEPT ![c] = "idle"] /\ pending' = TRUE /\ Still
        /\ arg' = [arg EXCEPT ![c] = 0]
        /\ UNCHANGED <<live, nextId, changes, joining, leaving, graves, links, given, gone,
                       tpc>>
    BY <1>5 DEF LeaveFlag, At, Keep, Still, graves
  <2>2. PlaceInv' /\ UNCHANGED <<Joining, Walked, Retired, Leaving, Alive, Buried, Issued>>
    BY <1>0, <2>1, StillDoes
  <2>3. CallerInv'
    BY <1>0, <2>1, <2>2 DEF CallerInv, Joiners, Leavers, Still
  <2>4. Typed'
    BY <1>0, <2>1 DEF Typed, graves, States
  <2> QED BY <2>2, <2>3, <2>4 DEF RollInv
<1> QED BY <1>1, <1>2, <1>3, <1>4, <1>5 DEF Unsubscribing

LEMMA RollCollecting ==
    ASSUME RollInv, NEW c \in Callers, Collecting(c)
    PROVE  RollInv'
<1>0. /\ Typed /\ PlaceInv /\ CallerInv
      /\ pc \in [Callers -> States] /\ arg \in [Callers -> Nat]
  BY DEF RollInv, Typed
<1>1. CASE CollectBegin(c)
  <2>1. /\ pc[c] = "idle" /\ pc' = [pc EXCEPT ![c] = "collect"] /\ retiring' = c /\ Still
        /\ UNCHANGED <<roll, retired, freed, links, arg, given, gone, tpc>>
    BY <1>1 DEF CollectBegin, At, Still, roll
  <2>2. PlaceInv' /\ UNCHANGED <<Joining, Walked, Retired, Leaving, Alive, Buried, Issued>>
    BY <1>0, <2>1, StillDoes
  <2>3. CallerInv'
    BY <1>0, <2>1, <2>2 DEF CallerInv, Joiners, Leavers, Still
  <2>4. Typed'
    BY <1>0, <2>1 DEF Typed, roll, States
  <2> QED BY <2>2, <2>3, <2>4 DEF RollInv
<1>2. CASE CollectEnd(c)
  <2>1. /\ pc[c] = "collect" /\ pc' = [pc EXCEPT ![c] = "idle"] /\ retiring' = Nobody
        /\ freed' = freed \cup Retired /\ retired' = << >>
        /\ UNCHANGED <<roll, links, arg, given, gone, tpc>>
    BY <1>2 DEF CollectEnd, At, Retired
  <2>2. Retired' = {} /\ Buried' = Buried /\ retired' \in Seq(Names) /\ IsInjective(retired')
    BY <2>1, EmptySet DEF Retired, Buried
  <2>3. UNCHANGED <<Joining, Walked, Leaving, Alive, Issued>>
    BY <2>1 DEF roll, Joining, Walked, Leaving, Alive, Issued
  <2>4. PlaceInv'
    BY <1>0, <2>1, <2>2, <2>3 DEF PlaceInv, Apart, roll
  <2>5. CallerInv'
    BY <1>0, <2>1, <2>2, <2>3 DEF CallerInv, Joiners, Leavers
  <2>6. Typed'
    BY <1>0, <2>1, <2>2 DEF Typed, roll, States
  <2> QED BY <2>4, <2>5, <2>6 DEF RollInv
<1> QED BY <1>1, <1>2 DEF Collecting

\* The tick takes up one leaver: its link goes to the graves.
LEMMA TakingUpALeaver ==
    ASSUME RollInv, TickLeave
    PROVE  /\ RollInv' /\ Alive' \ Leaving' = Alive \ Leaving
           /\ UNCHANGED <<live, nextId, pending, changes, pc, arg, given, gone, tpc>>
<1>0. /\ Typed /\ PlaceInv /\ CallerInv
      /\ pc \in [Callers -> States] /\ arg \in [Callers -> Nat]
  BY DEF RollInv, Typed
<1> DEFINE id == Head(leaving)
<1>1. /\ tpc = "leave" /\ leaving # << >> /\ leaving' = Tail(leaving)
      /\ UNCHANGED <<live, nextId, pending, changes, pc, arg, given, gone, tpc>>
  BY DEF TickLeave, callers
<1>2. /\ leaving' \in Seq(Names) /\ IsInjective(leaving') /\ Leaving' = Leaving \ {id}
      /\ id \in Leaving /\ id \in Names
  BY <1>0, <1>1, TailSet DEF Typed, PlaceInv, Apart, Leaving
<1>3. id \in Alive /\ id \in gone /\ id \in given /\ id \notin Buried
  BY <1>0, <1>2 DEF PlaceInv, Apart
<1>4. /\ Retire(id)
      /\ \/ \E i \in Position(joining, id) : joining' = RemoveAt(joining, i) /\ UNCHANGED links
         \/ \E i \in Position(links, id) : links' = RemoveAt(links, i) /\ UNCHANGED joining
  <2>1. ~ (~ Contains(joining, id) /\ ~ Contains(links, id))
    <3>1. joining \in Seq(Names) /\ links \in Seq(Names)
      BY <1>0 DEF Typed
    <3>2. DOMAIN joining = 1 .. Len(joining) /\ DOMAIN links = 1 .. Len(links)
      BY <3>1
    <3>3. id \in ToSet(joining) \/ id \in ToSet(links)
      BY <1>3 DEF Alive, Joining, Walked
    <3> HIDE DEF id
    <3> QED BY <3>2, <3>3 DEF Contains, ToSet
  <2> QED BY <2>1 DEF TickLeave
<1> HIDE DEF id
<1> DEFINE TakenOut == /\ joining' \in Seq(Names) /\ IsInjective(joining')
                       /\ links' \in Seq(Names) /\ IsInjective(links')
                       /\ Joining' \subseteq Joining /\ Walked' \subseteq Walked
                       /\ Alive' = Alive \ {id}
<1>5. TakenOut
  <2>1. ASSUME NEW i \in Position(joining, id), joining' = RemoveAt(joining, i),
               UNCHANGED links
        PROVE  TakenOut
    <3>1. i \in DOMAIN joining /\ joining[i] = id
      BY <2>1 DEF Position
    <3>2. joining' \in Seq(Names) /\ IsInjective(joining') /\ Joining' = Joining \ {id}
      BY <1>0, <2>1, <3>1, RemoveAtSet DEF Typed, PlaceInv, Apart, Joining
    <3>3. id \in Joining
      BY <3>1 DEF Joining, ToSet
    <3> QED BY <1>0, <2>1, <3>2, <3>3 DEF Typed, PlaceInv, Apart, Alive, Walked
  <2>2. ASSUME NEW i \in Position(links, id), links' = RemoveAt(links, i),
               UNCHANGED joining
        PROVE  TakenOut
    <3>1. i \in DOMAIN links /\ links[i] = id
      BY <2>2 DEF Position
    <3>2. links' \in Seq(Names) /\ IsInjective(links') /\ Walked' = Walked \ {id}
      BY <1>0, <2>2, <3>1, RemoveAtSet DEF Typed, PlaceInv, Apart, Walked
    <3>3. id \in Walked
      BY <3>1 DEF Walked, ToSet
    <3> QED BY <1>0, <2>2, <3>2, <3>3 DEF Typed, PlaceInv, Apart, Alive, Joining
  <2> HIDE DEF TakenOut
  <2> QED BY <1>4, <2>1, <2>2
<1>6. /\ retired' \in Seq(Names) /\ IsInjective(retired') /\ retiring' = retiring
      /\ Apart(Retired', freed') /\ Buried' = Buried \cup {id}
  BY <1>0, <1>2, <1>3, <1>4, RetireDoes
<1>7. Issued' = Issued /\ Alive' \ Leaving' = Alive \ Leaving
      /\ Alive' \cup Buried' = Alive \cup Buried
  BY <1>1, <1>2, <1>3, <1>5, <1>6 DEF Issued
<1>8. PlaceInv'
  BY <1>0, <1>1, <1>2, <1>3, <1>5, <1>6, <1>7 DEF PlaceInv, Apart
<1>9. CallerInv'
  BY <1>0, <1>1, <1>2, <1>3, <1>5, <1>6, <1>7 DEF CallerInv, Joiners, Leavers
<1>10. Typed'
  BY <1>0, <1>1, <1>2, <1>5, <1>6 DEF Typed
<1> QED BY <1>1, <1>7, <1>8, <1>9, <1>10 DEF RollInv

\* The tick takes up the joiners, when nobody waits to leave.
LEMMA TakingUpTheJoiners ==
    ASSUME RollInv, TickJoin
    PROVE  /\ RollInv' /\ UNCHANGED <<live, nextId, changes, pc, arg, given, gone>>
           /\ Leaving = {} /\ Leaving' = {} /\ Alive' = Alive /\ pending' = FALSE
           /\ Walked' = Alive
<1>0. /\ Typed /\ PlaceInv /\ CallerInv
      /\ pc \in [Callers -> States] /\ arg \in [Callers -> Nat]
  BY DEF RollInv, Typed
<1>1. /\ leaving = << >> /\ links' = links \o joining /\ joining' = << >>
      /\ pending' = FALSE /\ tpc' = "unlock"
      /\ UNCHANGED <<live, nextId, changes, leaving, retired, retiring, freed, pc, arg,
                     given, gone>>
  BY DEF TickJoin, graves, callers
<1>2. links' \in Seq(Names) /\ IsInjective(links') /\ Walked' = Walked \cup Joining
  BY <1>0, <1>1, ConcatSet DEF Typed, PlaceInv, Apart, Joining, Walked
<1>3. joining' \in Seq(Names) /\ IsInjective(joining') /\ Joining' = {}
  BY <1>1, EmptySet DEF Joining
<1>4. Leaving = {} /\ UNCHANGED <<Retired, Leaving, Buried, Issued>>
  BY <1>1, EmptySet DEF Retired, Leaving, Buried, Issued
<1>5. Alive' = Alive /\ Walked' = Alive
  BY <1>2, <1>3 DEF Alive
<1>6. PlaceInv'
  BY <1>0, <1>1, <1>2, <1>3, <1>4, <1>5 DEF PlaceInv, Apart
<1>7. CallerInv'
  BY <1>0, <1>1, <1>4, <1>5 DEF CallerInv, Joiners, Leavers
<1>8. Typed'
  BY <1>0, <1>1, <1>2, <1>3 DEF Typed
<1> QED BY <1>1, <1>4, <1>5, <1>6, <1>7, <1>8 DEF RollInv

\* The rest of the tick's steps touch only the flag and the mutex.
LEMMA LookingAndUnlocking ==
    ASSUME RollInv, TickLook \/ TickTry \/ TickUnlock
    PROVE  RollInv' /\ Still /\ UNCHANGED <<live, pc, arg, pending>>
<1>0. Typed /\ PlaceInv /\ CallerInv
  BY DEF RollInv
<1>1. Still /\ UNCHANGED <<live, nextId, pending, joining, leaving, graves, links, callers>>
      /\ changes' \in {changes, Tick, Nobody} /\ tpc' \in {"idle", "try", "leave", "unlock"}
  BY <1>0 DEF TickLook, TickTry, TickUnlock, Still, roll, graves, callers, Typed
<1>2. PlaceInv' /\ UNCHANGED <<Joining, Walked, Retired, Leaving, Alive, Buried, Issued>>
  BY <1>0, <1>1, StillDoes
<1>3. CallerInv'
  BY <1>0, <1>1, <1>2 DEF CallerInv, Joiners, Leavers, Still, callers
<1>4. Typed'
  BY <1>0, <1>1 DEF Typed, graves, callers
<1> QED BY <1>1, <1>2, <1>3, <1>4 DEF RollInv, callers

LEMMA RollStep == RollInv /\ [EnrolmentNext]_enrolmentVars => RollInv'
<1> SUFFICES ASSUME RollInv, [EnrolmentNext]_enrolmentVars PROVE RollInv'
  OBVIOUS
<1>1. CASE Ticking
  BY <1>1, TakingUpALeaver, TakingUpTheJoiners, LookingAndUnlocking DEF Ticking
<1>2. ASSUME NEW c \in Callers, ClaimLoad(c) \/ Subscribing(c) PROVE RollInv'
  BY <1>2, RollSubscribing
<1>3. ASSUME NEW c \in Callers, (\E id \in Ids : LeaveBegin(c, id)) \/ Unsubscribing(c)
      PROVE  RollInv'
  BY <1>3, RollUnsubscribing
<1>4. ASSUME NEW c \in Callers, Collecting(c) PROVE RollInv'
  BY <1>4, RollCollecting
<1>5. CASE UNCHANGED enrolmentVars
  <2>1. Still /\ UNCHANGED <<live, pending, changes, retiring, pc, arg, tpc>>
    BY <1>5 DEF enrolmentVars, Still, roll, graves, callers
  <2>2. PlaceInv' /\ UNCHANGED <<Joining, Walked, Retired, Leaving, Alive, Buried, Issued>>
    BY <2>1, StillDoes DEF RollInv
  <2>3. CallerInv' /\ Typed'
    BY <2>1, <2>2 DEF RollInv, CallerInv, Joiners, Leavers, Still, Typed
  <2> QED BY <2>2, <2>3 DEF RollInv
<1> QED BY <1>1, <1>2, <1>3, <1>4, <1>5 DEF EnrolmentNext

-----------------------------------------------------------------------------
(* The count                                                               *)

\* Who is counted had been numbered, so there are finitely many of them.
LEMMA LivingIsFinite ==
    ASSUME RollInv
    PROVE  Living \subseteq Issued /\ IsFiniteSet(Living) /\ IsFiniteSet(Issued)
<1>1. nextId - 1 \in Int /\ IsFiniteSet(Issued)
  BY FS_Interval DEF RollInv, Typed, Names, Issued
<1>2. Alive \subseteq Issued /\ gone \subseteq Issued
  BY DEF RollInv, PlaceInv, Apart
<1>3. ASSUME NEW c \in Claims PROVE arg[c] \in Issued
  BY <1>2, <1>3 DEF RollInv, CallerInv, Claims
<1>4. Living \subseteq Issued
  BY <1>2, <1>3 DEF Living
<1> QED BY <1>1, <1>4, FS_Subset

\* Whoever is counted stays counted.
LEMMA LivingStays ==
    ASSUME Claims' = Claims, \A d \in Claims : arg'[d] = arg[d],
           Alive' \ Leaving' = Alive \ Leaving
    PROVE  Living' = Living
  BY DEF Living

LEMMA CountInit == EnrolmentInit => CountInv
<1> SUFFICES ASSUME EnrolmentInit PROVE CountInv
  OBVIOUS
<1>1. SetUp \in Nat /\ SetUp <= MaxSubscribers
  BY EnrolmentAssumption
<1>2. Walked = 1 .. SetUp
  <2>1. links = [i \in 1 .. SetUp |-> i]
    BY DEF EnrolmentInit
  <2> QED BY <2>1 DEF Walked, ToSet
<1>3. Joining = {} /\ Leaving = {} /\ Claims = {}
  BY EmptySet DEF EnrolmentInit, Joining, Leaving, Claims
<1>4. Living = 1 .. SetUp
  BY <1>2, <1>3 DEF Living, Alive
<1>5. Cardinality(1 .. SetUp) = SetUp
  BY <1>1, FS_Interval
<1> QED BY <1>1, <1>4, <1>5 DEF EnrolmentInit, CountInv

LEMMA CountStep ==
    ASSUME RollInv, CountInv, [EnrolmentNext]_enrolmentVars
    PROVE  CountInv'
<1>0. /\ Typed /\ PlaceInv /\ CallerInv /\ CountInv
      /\ pc \in [Callers -> States] /\ arg \in [Callers -> Nat]
      /\ live \in Nat /\ nextId \in Names /\ MaxSubscribers \in Nat
      /\ Wide \in Nat /\ MaxSubscribers < Wide
  BY EnrolmentAssumption DEF RollInv, Typed
<1>a. IsFiniteSet(Living) /\ Living \subseteq Issued
  BY LivingIsFinite
<1>b. CASE live' = live /\ Living' = Living
  BY <1>0, <1>b DEF CountInv
<1>1. CASE Ticking
  <2>1. CASE TickLeave
    <3>1. UNCHANGED <<live, pc, arg>> /\ Alive' \ Leaving' = Alive \ Leaving
      BY <2>1, TakingUpALeaver
    <3> QED BY <1>b, <3>1, LivingStays DEF Claims
  <2>2. CASE TickJoin
    <3>1. UNCHANGED <<live, pc, arg>> /\ Alive' \ Leaving' = Alive \ Leaving
      BY <2>2, TakingUpTheJoiners
    <3> QED BY <1>b, <3>1, LivingStays DEF Claims
  <2>3. CASE TickLook \/ TickTry \/ TickUnlock
    <3>1. UNCHANGED <<live, pc, arg>> /\ Alive' \ Leaving' = Alive \ Leaving
      BY <2>3, LookingAndUnlocking DEF Still, Alive, Leaving, Joining, Walked
    <3> QED BY <1>b, <3>1, LivingStays DEF Claims
  <2> QED BY <1>1, <2>1, <2>2, <2>3 DEF Ticking
<1>2. ASSUME NEW c \in Callers, ClaimLoad(c) PROVE CountInv'
  <2>1. /\ pc[c] = "idle" /\ pc' = [pc EXCEPT ![c] = "claim"]
        /\ arg' = [arg EXCEPT ![c] = live] /\ UNCHANGED <<live, joining, links, leaving>>
    BY <1>2 DEF ClaimLoad, At, Keep, roll
  <2>2. Claims' = Claims /\ c \notin Claims
    BY <1>0, <2>1 DEF Claims
  <2>3. Living' = Living
    BY <1>0, <2>1, <2>2 DEF Living, Alive, Joining, Walked, Leaving, Claims
  <2> QED BY <1>b, <2>1, <2>3
<1>3. ASSUME NEW c \in Callers, ClaimExchange(c), live = arg[c] PROVE CountInv'
  <2>1. /\ pc[c] = "claim" /\ pc' = [pc EXCEPT ![c] = "push"] /\ live < MaxSubscribers
        /\ arg' = [arg EXCEPT ![c] = nextId] /\ live' = live + 1
        /\ UNCHANGED <<joining, leaving, links>>
    BY <1>0, <1>3 DEF ClaimExchange, At, Keep, CallerInv
  <2>2. Claims' = Claims \cup {c} /\ c \notin Claims
    BY <1>0, <2>1 DEF Claims
  <2>3. /\ arg'[c] = nextId /\ \A d \in Claims : arg'[d] = arg[d]
        /\ Alive' \ Leaving' = Alive \ Leaving
    BY <1>0, <2>1, <2>2 DEF Claims, Alive, Joining, Walked, Leaving
  <2>4. Living' = Living \cup {nextId}
    BY <2>2, <2>3 DEF Living
  <2>5. nextId \notin Living
    BY <1>0, <1>a DEF Issued, Names
  <2>6. Cardinality(Living') = Cardinality(Living) + 1
    BY <1>a, <2>4, <2>5, FS_AddElement
  <2> QED BY <1>0, <2>1, <2>6 DEF CountInv
<1>4. ASSUME NEW c \in Callers, ClaimExchange(c), live # arg[c] PROVE CountInv'
  <2>1. /\ pc[c] = "claim"
        /\ pc' = [pc EXCEPT ![c] = IF live < MaxSubscribers THEN "claim" ELSE "idle"]
        /\ arg' = [arg EXCEPT ![c] = live] /\ UNCHANGED <<live, joining, links, leaving>>
    BY <1>4 DEF ClaimExchange, At, Keep
  <2>2. Claims' = Claims /\ c \notin Claims
    BY <1>0, <2>1 DEF Claims
  <2>3. Living' = Living
    BY <1>0, <2>1, <2>2 DEF Living, Alive, Joining, Walked, Leaving, Claims
  <2> QED BY <1>b, <2>1, <2>3
<1>5. ASSUME NEW c \in Callers, Join(c) PROVE CountInv'
  <2>1. /\ pc[c] = "push" /\ pc' = [pc EXCEPT ![c] = "pushed"]
        /\ joining' = Append(joining, arg[c]) /\ UNCHANGED <<live, arg, links, leaving>>
    BY <1>5 DEF Join, At
  <2>2. arg[c] \in Issued \ (Alive \cup Buried) /\ arg[c] \in Names
    BY <1>0, <2>1 DEF CallerInv, Issued, Names
  <2>3. Joining' = Joining \cup {arg[c]}
    BY <1>0, <2>1, <2>2, AppendSet DEF Typed, PlaceInv, Apart, Alive, Joining
  <2>4. Alive' \ Leaving' = (Alive \ Leaving) \cup {arg[c]}
    BY <1>0, <2>1, <2>2, <2>3 DEF PlaceInv, Apart, Alive, Walked, Leaving
  <2>5. Claims = Claims' \cup {c}
    BY <1>0, <2>1 DEF Claims
  <2>6. Living' = Living
    BY <2>1, <2>4, <2>5 DEF Living
  <2> QED BY <1>b, <2>1, <2>6
<1>6. ASSUME NEW c \in Callers, JoinUnlock(c) \/ JoinFlag(c) PROVE CountInv'
  <2>1. /\ pc[c] \in {"pushed", "joined"} /\ pc' \in [Callers -> States]
        /\ pc'[c] \in {"joined", "idle"} /\ \A d \in Callers \ {c} : pc'[d] = pc[d]
        /\ \A d \in Callers \ {c} : arg'[d] = arg[d]
        /\ UNCHANGED <<live, joining, links, leaving>>
    BY <1>0, <1>6 DEF JoinUnlock, JoinFlag, At, Keep, States
  <2>2. Claims' = Claims /\ c \notin Claims
    BY <1>0, <2>1 DEF Claims
  <2>3. Living' = Living
    BY <1>0, <2>1, <2>2 DEF Living, Alive, Joining, Walked, Leaving, Claims
  <2> QED BY <1>b, <2>1, <2>3
<1>7. ASSUME NEW c \in Callers, NEW id \in Ids, LeaveBegin(c, id) PROVE CountInv'
  <2>1. /\ pc[c] = "idle" /\ pc' = [pc EXCEPT ![c] = "leave"]
        /\ arg' = [arg EXCEPT ![c] = id] /\ UNCHANGED <<live, joining, links, leaving>>
    BY <1>7 DEF LeaveBegin, At, Keep, roll
  <2>2. Claims' = Claims /\ c \notin Claims
    BY <1>0, <2>1 DEF Claims
  <2>3. Living' = Living
    BY <1>0, <2>1, <2>2 DEF Living, Alive, Joining, Walked, Leaving, Claims
  <2> QED BY <1>b, <2>1, <2>3
<1>8. ASSUME NEW c \in Callers, Leave(c) PROVE CountInv'
  <2>1. /\ pc[c] = "leave" /\ pc' = [pc EXCEPT ![c] = "left"]
        /\ leaving' = Append(leaving, arg[c]) /\ UNCHANGED <<live, arg, joining, links>>
    BY <1>8 DEF Leave, At
  <2>2. arg[c] \in Alive \ Leaving /\ arg[c] \in gone /\ arg[c] \in Names
    BY <1>0, <2>1 DEF CallerInv, PlaceInv, Apart, Issued, Names
  <2>3. Leaving' = Leaving \cup {arg[c]} /\ Alive' = Alive
    BY <1>0, <2>1, <2>2, AppendSet DEF Typed, PlaceInv, Apart, Leaving, Alive, Joining, Walked
  <2>4. Claims' = Claims \cup {c}
    BY <1>0, <2>1 DEF Claims
  <2>5. Living' = Living
    BY <2>1, <2>2, <2>3, <2>4 DEF Living
  <2> QED BY <1>b, <2>1, <2>5
<1>9. ASSUME NEW c \in Callers, LeaveUnlock(c) PROVE CountInv'
  <2>1. /\ pc[c] = "left" /\ pc' = [pc EXCEPT ![c] = "drop"]
        /\ UNCHANGED <<live, arg, joining, links, leaving>>
    BY <1>9 DEF LeaveUnlock, At
  <2>2. Claims' = Claims
    BY <1>0, <2>1 DEF Claims
  <2>3. Living' = Living
    BY <2>1, <2>2 DEF Living, Alive, Joining, Walked, Leaving
  <2> QED BY <1>b, <2>1, <2>3
<1>10. ASSUME NEW c \in Callers, LeaveDrop(c) PROVE CountInv'
  <2>1. /\ pc[c] = "drop" /\ pc' = [pc EXCEPT ![c] = "flag"] /\ live' = (live - 1) % Wide
        /\ UNCHANGED <<arg, joining, links, leaving>>
    BY <1>10 DEF LeaveDrop, At
  <2>2. Claims' = Claims \ {c} /\ c \in Claims
    BY <1>0, <2>1 DEF Claims
  <2>3. arg[c] \in gone \ (Alive \ Leaving)
    BY <1>0, <2>1 DEF CallerInv
  <2>4. ASSUME NEW d \in Claims, d # c PROVE arg[d] # arg[c]
    <3>1. CASE pc[d] = "push"
      <4>1. arg[d] \notin Alive \cup Buried
        BY <1>0, <2>4, <3>1 DEF CallerInv, Claims
      <4> QED BY <1>0, <2>3, <4>1 DEF PlaceInv, Apart
    <3>2. CASE pc[d] # "push"
      BY <1>0, <2>1, <2>4, <3>2 DEF CallerInv, Claims, Leavers
    <3> QED BY <3>1, <3>2
  <2>5. Living' = Living \ {arg[c]} /\ arg[c] \in Living
    <3>1. Alive' \ Leaving' = Alive \ Leaving
      BY <2>1 DEF Alive, Joining, Walked, Leaving
    <3> QED BY <2>1, <2>2, <2>3, <2>4, <3>1 DEF Living
  <2>6. Cardinality(Living') = Cardinality(Living) - 1
    BY <1>a, <2>5, FS_RemoveElement
  <2>7. Cardinality(Living) # 0
    BY <1>a, <2>5, FS_EmptySet
  <2>8. live' = live - 1
    <3>1. live - 1 \in 0 .. Wide - 1
      BY <1>0, <2>7 DEF CountInv
    <3> QED BY <1>0, <2>1, <3>1
  <2> QED BY <1>0, <2>6, <2>8 DEF CountInv
<1>11. ASSUME NEW c \in Callers, LeaveFlag(c) \/ Collecting(c) PROVE CountInv'
  <2>1. /\ pc[c] \in {"flag", "idle", "collect"} /\ pc' \in [Callers -> States]
        /\ pc'[c] \in {"idle", "collect"} /\ \A d \in Callers \ {c} : pc'[d] = pc[d]
        /\ \A d \in Callers \ {c} : arg'[d] = arg[d]
        /\ UNCHANGED <<live, joining, links, leaving>>
    BY <1>0, <1>11 DEF LeaveFlag, Collecting, CollectBegin, CollectEnd, At, Keep, States, roll
  <2>2. Claims' = Claims /\ c \notin Claims
    BY <1>0, <2>1 DEF Claims
  <2>3. Living' = Living
    BY <1>0, <2>1, <2>2 DEF Living, Alive, Joining, Walked, Leaving, Claims
  <2> QED BY <1>b, <2>1, <2>3
<1>12. CASE UNCHANGED enrolmentVars
  BY <1>b, <1>12
    DEF enrolmentVars, roll, graves, callers, Living, Alive, Joining, Walked, Leaving, Claims
<1> QED BY <1>1, <1>2, <1>3, <1>4, <1>5, <1>6, <1>7, <1>8, <1>9, <1>10, <1>11, <1>12
        DEF EnrolmentNext, Subscribing, Unsubscribing

\* The vector the tick walks keeps to the room reserved for it: it never holds
\* more than `live` has claimed.
LEMMA LinksFitStep ==
    ASSUME RollInv, CountInv, CountInv', LinksFit, [EnrolmentNext]_enrolmentVars
    PROVE  LinksFit'
<1>0. /\ Typed /\ PlaceInv /\ links \in Seq(Names) /\ Len(links) \in Nat
      /\ MaxSubscribers \in Nat
  BY EnrolmentAssumption DEF RollInv, Typed
<1>1. CASE UNCHANGED links
  BY <1>1 DEF LinksFit
<1>2. CASE TickLeave /\ ~ UNCHANGED links
  <2>1. PICK i \in DOMAIN links : links' = RemoveAt(links, i)
    BY <1>2 DEF TickLeave, Position
  <2>2. Len(links') = Len(links) - 1
    BY <1>0, <2>1, RemoveAtSet DEF PlaceInv, Apart
  <2> QED BY <1>0, <2>2 DEF LinksFit
<1>3. CASE TickJoin
  <2>1. /\ RollInv' /\ UNCHANGED <<live, pc, arg>> /\ Leaving = {} /\ Leaving' = {}
        /\ Alive' = Alive /\ Walked' = Alive
    BY <1>3, TakingUpTheJoiners
  <2>2. links' \in Seq(Names) /\ IsInjective(links')
    BY <2>1 DEF RollInv, Typed, PlaceInv, Apart
  <2>3. Cardinality(Walked') = Len(links') /\ IsFiniteSet(Walked')
    BY <2>2, LengthIsCardinality DEF Walked
  <2>4. Walked' \subseteq Living /\ IsFiniteSet(Living)
    BY <2>1, LivingIsFinite DEF Living
  <2>5. Cardinality(Walked') <= Cardinality(Living)
    BY <2>4, FS_Subset
  <2>6. Cardinality(Living) <= MaxSubscribers
    BY DEF CountInv
  <2>7. Len(links') \in Nat /\ Cardinality(Living) \in Nat
    BY <2>2, <2>4, FS_CardinalityType
  <2> QED BY <1>0, <2>3, <2>5, <2>6, <2>7 DEF LinksFit
<1>4. [EnrolmentNext]_enrolmentVars => UNCHANGED links \/ TickLeave \/ TickJoin
  BY DEF EnrolmentNext, Ticking, TickLook, TickTry, TickUnlock, Subscribing, Unsubscribing, Collecting,
         ClaimLoad, ClaimExchange, Join, JoinUnlock, JoinFlag, LeaveBegin, Leave, LeaveUnlock,
         LeaveDrop, LeaveFlag, CollectBegin, CollectEnd, enrolmentVars
<1> QED BY <1>1, <1>2, <1>3, <1>4

\* How far the numbers run past MaxId: each caller that has loaded `live` may
\* still number one subscriber.
LEMMA NumberInit == EnrolmentInit => NumberInv
<1> SUFFICES ASSUME EnrolmentInit PROVE NumberInv
  OBVIOUS
<1>1. Claimers = {}
  BY DEF EnrolmentInit, Claimers
<1>2. Cardinality(Claimers) = 0 /\ Cardinality(Callers) \in Nat
  BY <1>1, EnrolmentAssumption, FS_EmptySet, FS_CardinalityType
<1> QED BY <1>2, EnrolmentAssumption DEF EnrolmentInit, NumberInv

LEMMA NumberStep ==
    ASSUME Typed, NumberInv, [EnrolmentNext]_enrolmentVars
    PROVE  NumberInv'
<1>0. /\ IsFiniteSet(Callers) /\ MaxId \in Nat /\ nextId \in Nat
      /\ pc \in [Callers -> States] /\ Cardinality(Callers) \in Nat
  BY EnrolmentAssumption, FS_CardinalityType DEF Typed, Names
<1>1. ASSUME NEW S, S \subseteq Callers
      PROVE  IsFiniteSet(S) /\ Cardinality(S) \in Nat /\ Cardinality(S) <= Cardinality(Callers)
  BY <1>0, <1>1, FS_Subset, FS_CardinalityType
<1>2. IsFiniteSet(Claimers) /\ Cardinality(Claimers) \in Nat
  BY <1>1 DEF Claimers
<1>3. CASE nextId' = nextId /\ Claimers' = Claimers
  BY <1>3 DEF NumberInv
<1>4. ASSUME NEW c \in Callers, ClaimLoad(c) PROVE NumberInv'
  <2>1. nextId <= MaxId /\ nextId' = nextId
    BY <1>4 DEF ClaimLoad, roll
  <2>2. Claimers' \subseteq Callers
    BY DEF Claimers
  <2> HIDE DEF Claimers
  <2>3. Cardinality(Claimers') \in Nat /\ Cardinality(Claimers') <= Cardinality(Callers)
    BY <1>1, <2>2
  <2> QED BY <1>0, <2>1, <2>3 DEF NumberInv
<1>5. ASSUME NEW c \in Callers, ClaimExchange(c), live = arg[c] PROVE NumberInv'
  <2>1. pc[c] = "claim" /\ pc' = [pc EXCEPT ![c] = "push"] /\ nextId' = nextId + 1
    BY <1>5 DEF ClaimExchange, At
  <2>2. Claimers' = Claimers \ {c} /\ c \in Claimers
    BY <1>0, <2>1 DEF Claimers
  <2>3. Cardinality(Claimers') = Cardinality(Claimers) - 1
    BY <1>2, <2>2, FS_RemoveElement
  <2> QED BY <1>0, <1>2, <2>1, <2>3 DEF NumberInv
<1>6. ASSUME NEW c \in Callers, ClaimExchange(c), live # arg[c] PROVE NumberInv'
  <2>1. /\ pc[c] = "claim" /\ nextId' = nextId
        /\ pc' = [pc EXCEPT ![c] = IF live < MaxSubscribers THEN "claim" ELSE "idle"]
    BY <1>6 DEF ClaimExchange, At
  <2>2. Claimers' \subseteq Claimers
    BY <1>0, <2>1 DEF Claimers
  <2>3. Cardinality(Claimers') <= Cardinality(Claimers) /\ Cardinality(Claimers') \in Nat
    BY <1>2, <2>2, FS_Subset, FS_CardinalityType
  <2> QED BY <1>0, <1>2, <2>1, <2>3 DEF NumberInv
<1>7. ASSUME NEW c \in Callers,
             Join(c) \/ JoinUnlock(c) \/ JoinFlag(c) \/ (\E id \in Ids : LeaveBegin(c, id))
               \/ Unsubscribing(c) \/ Collecting(c)
      PROVE  NumberInv'
  <2>1. /\ nextId' = nextId /\ pc[c] # "claim" /\ pc'[c] # "claim"
        /\ \A d \in Callers \ {c} : pc'[d] = pc[d]
    BY <1>0, <1>7
      DEF Unsubscribing, Collecting, Join, JoinUnlock, JoinFlag, LeaveBegin, Leave, LeaveUnlock,
          LeaveDrop, LeaveFlag, CollectBegin, CollectEnd, At, roll
  <2>2. Claimers' = Claimers
    BY <2>1 DEF Claimers
  <2> QED BY <1>3, <2>1, <2>2
<1>8. CASE Ticking \/ UNCHANGED enrolmentVars
  <2>1. UNCHANGED <<nextId, pc>>
    BY <1>8 DEF Ticking, TickLook, TickTry, TickLeave, TickJoin, TickUnlock, enrolmentVars, roll, callers
  <2> QED BY <1>3, <2>1 DEF Claimers
<1> QED BY <1>4, <1>5, <1>6, <1>7, <1>8 DEF EnrolmentNext, Subscribing

-----------------------------------------------------------------------------
(* The theorems                                                            *)

EnrolmentInv == RollInv /\ CountInv /\ LinksFit /\ NumberInv

LEMMA EnrolmentIsInductive == EnrolmentSpec => []EnrolmentInv
<1>1. EnrolmentInit => EnrolmentInv
  <2> SUFFICES ASSUME EnrolmentInit PROVE LinksFit
    BY RollInit, CountInit, NumberInit DEF EnrolmentInv
  <2>1. Len(links) = SetUp
    BY EnrolmentAssumption DEF EnrolmentInit
  <2> QED BY <2>1, EnrolmentAssumption DEF LinksFit
<1>2. EnrolmentInv /\ [EnrolmentNext]_enrolmentVars => EnrolmentInv'
  BY RollStep, CountStep, LinksFitStep, NumberStep DEF EnrolmentInv, RollInv
<1> QED BY <1>1, <1>2, PTL DEF EnrolmentSpec

\* Each subscriber is in one place: it is in one of the four, and nowhere twice.
LEMMA PlacedOnce == Typed /\ PlaceInv => OnePlace
<1> SUFFICES ASSUME Typed, PlaceInv, NEW id \in given
             PROVE  Cardinality(PlacesOf(id)) = 1
  BY DEF OnePlace
<1>1. id \in Joining \/ id \in Walked \/ id \in Retired \/ id \in freed
  BY DEF PlaceInv, Apart, Alive, Buried
<1>2. /\ id \in Joining => id \notin Walked /\ id \notin Retired /\ id \notin freed
      /\ id \in Walked => id \notin Retired /\ id \notin freed
      /\ id \in Retired => id \notin freed
  BY DEF PlaceInv, Apart, Alive, Buried
<1>3. ASSUME NEW s, id \notin ToSet(s) PROVE {j \in DOMAIN s : s[j] = id} = {}
  BY <1>3 DEF ToSet
<1>4. ASSUME NEW s, IsInjective(s), id \in ToSet(s)
      PROVE  \E i : {j \in DOMAIN s : s[j] = id} = {i}
  BY <1>4 DEF ToSet, IsInjective
<1>5. \E x : PlacesOf(id) = {x}
  <2>1. CASE id \in Joining
    <3>1. PICK i : {j \in DOMAIN joining : joining[j] = id} = {i}
      BY <1>4, <2>1 DEF PlaceInv, Apart, Joining
    <3>2. /\ {j \in DOMAIN links : links[j] = id} = {}
          /\ {j \in DOMAIN retired : retired[j] = id} = {} /\ {j \in freed : j = id} = {}
      BY <1>2, <1>3, <2>1 DEF Walked, Retired
    <3>3. PlacesOf(id) = {<<"joining", i>>}
      BY <3>1, <3>2 DEF PlacesOf
    <3> QED BY <3>3
  <2>2. CASE id \in Walked
    <3>1. PICK i : {j \in DOMAIN links : links[j] = id} = {i}
      BY <1>4, <2>2 DEF PlaceInv, Apart, Walked
    <3>2. /\ {j \in DOMAIN joining : joining[j] = id} = {}
          /\ {j \in DOMAIN retired : retired[j] = id} = {} /\ {j \in freed : j = id} = {}
      BY <1>2, <1>3, <2>2 DEF Joining, Retired
    <3>3. PlacesOf(id) = {<<"links", i>>}
      BY <3>1, <3>2 DEF PlacesOf
    <3> QED BY <3>3
  <2>3. CASE id \in Retired
    <3>1. PICK i : {j \in DOMAIN retired : retired[j] = id} = {i}
      BY <1>4, <2>3 DEF PlaceInv, Apart, Retired
    <3>2. /\ {j \in DOMAIN joining : joining[j] = id} = {}
          /\ {j \in DOMAIN links : links[j] = id} = {} /\ {j \in freed : j = id} = {}
      BY <1>2, <1>3, <2>3 DEF Joining, Walked
    <3>3. PlacesOf(id) = {<<"retired", i>>}
      BY <3>1, <3>2 DEF PlacesOf
    <3> QED BY <3>3
  <2>4. CASE id \in freed
    <3>1. {j \in freed : j = id} = {id}
      BY <2>4
    <3>2. /\ {j \in DOMAIN joining : joining[j] = id} = {}
          /\ {j \in DOMAIN links : links[j] = id} = {}
          /\ {j \in DOMAIN retired : retired[j] = id} = {}
      BY <1>2, <1>3, <2>4 DEF Joining, Walked, Retired
    <3>3. PlacesOf(id) = {<<"freed", id>>}
      BY <3>1, <3>2 DEF PlacesOf
    <3> QED BY <3>3
  <2> QED BY <1>1, <2>1, <2>2, <2>3, <2>4
<1> QED BY <1>5, FS_Singleton

\* The roll is exact, for any number of callers racing each other and the tick:
\* the walked vector keeps within MAX_SUBSCRIBERS, each subscriber is in exactly
\* one place, whoever waits to leave can still be found, and `len` counts right
\* (Enrolment::claim, join, leave; FramePublisher::take_up).
THEOREM EnrolmentIsExact == EnrolmentSpec => []RollIsExact
<1>1. EnrolmentInv => RollIsExact
  <2> SUFFICES ASSUME EnrolmentInv PROVE RollIsExact
    OBVIOUS
  <2>0. Typed /\ PlaceInv /\ CallerInv /\ RollInv /\ CountInv /\ NumberInv
    BY DEF EnrolmentInv, RollInv
  <2>1. EnrolmentTypeOK
    <3>1. live \in 0 .. Wide - 1
      BY <2>0, EnrolmentAssumption DEF CountInv, Typed
    <3>2. nextId \in 1 .. MaxId + Cardinality(Callers) + 1
      <4>1. Cardinality(Claimers) \in Nat /\ Cardinality(Callers) \in Nat
        BY EnrolmentAssumption, FS_Subset, FS_CardinalityType DEF Claimers
      <4> QED BY <2>0, <4>1, EnrolmentAssumption DEF NumberInv, Typed, Names
    <3>3. given \subseteq Nat /\ gone \subseteq given /\ freed \subseteq gone
      <4>1. Issued \subseteq Nat
        BY <2>0 DEF Issued, Typed, Names
      <4> QED BY <2>0, <4>1 DEF PlaceInv, Apart, Buried
    <3> QED BY <2>0, <3>1, <3>2, <3>3 DEF EnrolmentTypeOK, Typed, States, Names
  <2>2. OnePlace
    BY <2>0, PlacedOnce
  <2>3. LeaversAreThere
    <3> SUFFICES ASSUME NEW id \in Leaving PROVE Contains(joining \o links, id)
      BY DEF LeaversAreThere, Leaving
    <3>1. id \in ToSet(joining) \cup ToSet(links)
      BY <2>0 DEF PlaceInv, Apart, Alive, Joining, Walked
    <3>2. ToSet(joining \o links) = ToSet(joining) \cup ToSet(links)
      BY <2>0, ConcatSet DEF Typed, PlaceInv, Apart, Joining, Walked
    <3>3. ASSUME NEW s \in Seq(Names), id \in ToSet(s) PROVE Contains(s, id)
      BY <3>3 DEF Contains, ToSet
    <3>4. joining \o links \in Seq(Names)
      BY <2>0 DEF Typed
    <3> QED BY <3>1, <3>2, <3>3, <3>4
  <2>4. LenIsExact
    <3> SUFFICES ASSUME \A c \in Callers : pc[c] \in {"idle", "claim", "collect"}
                 PROVE  live = Cardinality(Alive \ Leaving)
      BY DEF LenIsExact, Alive, Joining, Walked, Leaving
    <3>1. Claims = {}
      BY DEF Claims
    <3>2. Living = Alive \ Leaving
      BY <3>1 DEF Living
    <3> QED BY <2>0, <3>2 DEF CountInv
  <2> QED BY <2>1, <2>2, <2>3, <2>4 DEF RollIsExact, EnrolmentInv
<1> QED BY <1>1, EnrolmentIsInductive, PTL

\* Where a caller stands that is still about to raise the flag.
Raisers == {"pushed", "joined", "left", "drop", "flag"}

\* No change is left behind a flag that reads false: the flag is cleared only
\* with nothing waiting, and whoever adds something raises it after
\* (FrameEnrolment::subscribe and unsubscribe; take_up).
THEOREM NothingIsSleptThrough == EnrolmentSpec => []NoLostWakeUp
<1> DEFINE Queued == joining # << >> \/ leaving # << >>
<1>1. EnrolmentInit => NoLostWakeUp
  BY DEF EnrolmentInit, NoLostWakeUp
<1>2. ASSUME RollInv, NoLostWakeUp, [EnrolmentNext]_enrolmentVars PROVE NoLostWakeUp'
  <2>0. pc \in [Callers -> States]
    BY <1>2 DEF RollInv, Typed
  <2>1. Queued /\ ~ pending => \E c \in Callers : pc[c] \in Raisers
    BY <1>2 DEF NoLostWakeUp, Raisers
  <2> SUFFICES Queued' /\ ~ pending' => \E c \in Callers : pc'[c] \in Raisers
    BY DEF NoLostWakeUp, Raisers
  <2>2. CASE Ticking \/ UNCHANGED enrolmentVars
    <3>1. pc' = pc /\ (Queued' => Queued /\ pending' = pending)
      BY <2>2 DEF Ticking, TickLook, TickTry, TickLeave, TickJoin, TickUnlock, enrolmentVars, roll,
                  callers
    <3> QED BY <2>1, <3>1
  <2>3. ASSUME NEW c \in Callers, Join(c) \/ JoinUnlock(c) \/ Leave(c) \/ LeaveUnlock(c)
                                    \/ LeaveDrop(c)
        PROVE  pc'[c] \in Raisers
    BY <2>0, <2>3 DEF Join, JoinUnlock, Leave, LeaveUnlock, LeaveDrop, At, Raisers
  <2>4. ASSUME NEW c \in Callers, JoinFlag(c) \/ LeaveFlag(c) PROVE pending'
    BY <2>4 DEF JoinFlag, LeaveFlag
  <2>5. ASSUME NEW c \in Callers,
               ClaimLoad(c) \/ ClaimExchange(c) \/ (\E id \in Ids : LeaveBegin(c, id))
                 \/ Collecting(c)
        PROVE  Queued' /\ ~ pending' => \E d \in Callers : pc'[d] \in Raisers
    <3>1. /\ UNCHANGED <<joining, leaving, pending>> /\ pc[c] \notin Raisers
          /\ \A d \in Callers \ {c} : pc'[d] = pc[d]
      BY <2>0, <2>5 DEF ClaimLoad, ClaimExchange, LeaveBegin, Collecting, CollectBegin,
                        CollectEnd, At, Raisers, roll
    <3> QED BY <2>1, <3>1
  <2> QED BY <1>2, <2>2, <2>3, <2>4, <2>5 DEF EnrolmentNext, Subscribing, Unsubscribing
<1> QED BY <1>1, <1>2, EnrolmentIsInductive, PTL DEF EnrolmentSpec, EnrolmentInv
=============================================================================
