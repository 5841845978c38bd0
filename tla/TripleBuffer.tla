---------------------------- MODULE TripleBuffer ----------------------------
(***************************************************************************)
(* One subscriber's buffer between the tick and an output driver:          *)
(* crates/prism-engine/src/triple_buffer.rs, `Slots`, the loop body of     *)
(* FramePublisher::publish and FrameSubscriber::refresh.                   *)
(*                                                                         *)
(* Three slots and a control word.  Each side owns one slot privately and  *)
(* trades it for the published one with a swap; a frame is copied into and *)
(* out of a slot one word at a time, each access a step here, so a frame   *)
(* mixed from two publishes can be seen if the ownership is ever broken.   *)
(*                                                                         *)
(* A frame is the sequence number it was stamped with: every word of a     *)
(* slot records the number of the frame it was copied from.  The numbers   *)
(* wrap at SequenceModulus (u64, `wrapping_add`).                          *)
(***************************************************************************)
EXTENDS Integers

CONSTANTS WordsPerSlot,     \* atomics per slot (Slots::words_for)
          SequenceModulus   \* 2^64: where the sequence number wraps

ASSUME BufferAssumption ==
    /\ WordsPerSlot \in Nat \ {0}
    /\ SequenceModulus \in Nat /\ SequenceModulus > 1

VARIABLES
    words,      \* slot -> word -> the frame that word was copied from
    shared,     \* the control word: index of the published slot ...
    fresh,      \* ... and its FRESH bit
    sequence,   \* writer: the frame being published or published last
    wpc,        \* writer: "idle", "store"
    wowned,     \* writer: the slot it owns (Link::owned)
    wword,      \* writer: the next word to store
    rpc,        \* reader: "idle", "swap", "load"
    rowned,     \* reader: the slot it owns (FrameSubscriber::owned)
    rword,      \* reader: the next word to load
    frame       \* reader: word -> what FrameSubscriber::frame holds

control == <<shared, fresh>>
writer  == <<sequence, wpc, wowned, wword>>
reader  == <<rpc, rowned, rword, frame>>
bufferVars == <<words, control, writer, reader>>

Slots == 0 .. 2
Frames == 0 .. SequenceModulus - 1
WordIndex == 1 .. WordsPerSlot
Filled(f) == [w \in WordIndex |-> f]

\* Slots::new and Enrolment::build.  The publisher may have been running for
\* a while before this subscriber was enrolled, so its number is anything.
BufferInit ==
    /\ words = [s \in Slots |-> Filled(0)]
    /\ shared = 1 /\ fresh = FALSE
    /\ sequence \in Frames
    /\ wpc = "idle" /\ wowned = 0 /\ wword = 1
    /\ rpc = "idle" /\ rowned = 2 /\ rword = 1 /\ frame = Filled(0)

-----------------------------------------------------------------------------
(* FramePublisher::publish, for this subscriber's link                     *)

PublishBegin ==
    /\ wpc = "idle"
    /\ sequence' = (sequence + 1) % SequenceModulus
    /\ wpc' = "store" /\ wword' = 1
    /\ UNCHANGED <<words, control, wowned, reader>>

\* Slots::store, one Relaxed store.
StoreWord ==
    /\ wpc = "store" /\ wword <= WordsPerSlot
    /\ words' = [words EXCEPT ![wowned][wword] = sequence]
    /\ wword' = wword + 1
    /\ UNCHANGED <<control, sequence, wpc, wowned, reader>>

\* Mutant of PublishSwap: the swap before the last word is stored.
PublishSwapEarly ==
    /\ wpc = "store" /\ wword >= WordsPerSlot
    /\ shared' = wowned /\ fresh' = TRUE
    /\ wowned' = shared
    /\ wpc' = "idle" /\ wword' = 1
    /\ UNCHANGED <<words, sequence, reader>>

\* Mutant of PublishSwap: a frame nobody has read is not replaced.
PublishSwapIfRead ==
    /\ wpc = "store" /\ wword > WordsPerSlot
    /\ IF fresh THEN UNCHANGED <<shared, fresh, wowned>>
       ELSE shared' = wowned /\ fresh' = TRUE /\ wowned' = shared
    /\ wpc' = "idle" /\ wword' = 1
    /\ UNCHANGED <<words, sequence, reader>>

\* Slots::publish: one swap hands over the slot and gets another back.
PublishSwap ==
    /\ wpc = "store" /\ wword > WordsPerSlot
    /\ shared' = wowned /\ fresh' = TRUE
    /\ wowned' = shared
    /\ wpc' = "idle" /\ wword' = 1
    /\ UNCHANGED <<words, sequence, reader>>

-----------------------------------------------------------------------------
(* FrameSubscriber::refresh                                                *)

\* The load of the control word in Slots::take.  Without FRESH the refresh
\* returns false and touches nothing, so only the other case is a step.
RefreshBegin ==
    /\ rpc = "idle" /\ fresh
    /\ rpc' = "swap"
    /\ UNCHANGED <<words, control, writer, rowned, rword, frame>>

\* Mutant of TakeSwap: a load where a swap is needed.
TakeLoad ==
    /\ rpc = "swap"
    /\ rowned' = shared /\ fresh' = FALSE
    /\ rpc' = "load" /\ rword' = 1
    /\ UNCHANGED <<words, shared, writer, frame>>

\* Mutant of TakeSwap: FRESH is looked for in the word it put there.
TakeSwapMisread ==
    /\ rpc = "swap"
    /\ shared' = rowned /\ fresh' = FALSE
    /\ rowned' = shared
    /\ rpc' = (IF fresh' THEN "load" ELSE "idle") /\ rword' = 1
    /\ UNCHANGED <<words, writer, frame>>

\* The swap in Slots::take, and whether what came back was FRESH.
TakeSwap ==
    /\ rpc = "swap"
    /\ shared' = rowned /\ fresh' = FALSE
    /\ rowned' = shared
    /\ rpc' = IF fresh THEN "load" ELSE "idle"
    /\ rword' = 1
    /\ UNCHANGED <<words, writer, frame>>

\* Slots::load, one Relaxed load; the last one ends the refresh.
LoadWord ==
    /\ rpc = "load"
    /\ frame' = [frame EXCEPT ![rword] = words[rowned][rword]]
    /\ IF rword = WordsPerSlot
       THEN rpc' = "idle" /\ rword' = 1
       ELSE rword' = rword + 1 /\ UNCHANGED rpc
    /\ UNCHANGED <<words, control, writer, rowned>>

-----------------------------------------------------------------------------
Write      == PublishBegin \/ StoreWord \/ PublishSwap
Read       == RefreshBegin \/ TakeSwap \/ LoadWord
BufferNext == Write \/ Read

\* A driver's runner refreshes on its own cadence for as long as it lives, and
\* a publish once begun is straight-line code.  Nothing obliges the tick to
\* begin another one.
BufferFairness == WF_bufferVars(Read) /\ WF_bufferVars(StoreWord \/ PublishSwap)

BufferSpec == BufferInit /\ [][BufferNext]_bufferVars /\ BufferFairness

-----------------------------------------------------------------------------
\* Every word of every slot, the control word and the sequence number stay in
\* their ranges, the number's wrap included.
BufferTypeOK ==
    /\ words \in [Slots -> [WordIndex -> Frames]]
    /\ shared \in Slots /\ fresh \in BOOLEAN
    /\ sequence \in Frames
    /\ wpc \in {"idle", "store"} /\ wowned \in Slots
    /\ wword \in 1 .. WordsPerSlot + 1
    /\ rpc \in {"idle", "swap", "load"} /\ rowned \in Slots
    /\ rword \in WordIndex /\ frame \in [WordIndex -> Frames]

\* `Slots`: "the three indices are always a permutation of 0..SLOTS", so no
\* slot is ever touched by both sides, however many publishes overtake a
\* refresh that is half way through.
SlotsArePermuted == {wowned, shared, rowned} = Slots

\* A driver never sees a frame mixed from two publishes: between refreshes
\* every word of the frame it holds came from the same one.
FrameIsWhole == rpc = "idle" => \A w \in WordIndex : frame[w] = frame[1]

\* The frame the subscriber took last: complete once its words are loaded.
Taken == IF rpc = "load" THEN words[rowned][1] ELSE frame[1]

\* The frame published last: the number is stamped before the swap.
Published ==
    IF wpc = "store" THEN (sequence + SequenceModulus - 1) % SequenceModulus
                     ELSE sequence

\* One buffer is the newest-frame register: every publish counts, and a
\* refresh gets the frame published last at the moment of its swap, never an
\* older one, though it may have begun before that publish.
\* (FramePublisher::publish, FrameSubscriber::refresh)
Latest == INSTANCE LatestFrame WITH
    Modulus <- SequenceModulus,
    newest <- Published,
    unread <- fresh,
    held   <- Taken

ImplementsLatest == Latest!Spec

\* A driver that keeps refreshing is not starved: an unread frame is taken, it
\* or a newer one, although the tick may publish over and over meanwhile.
UnreadIsTaken == fresh ~> (rpc = "load")

=============================================================================
