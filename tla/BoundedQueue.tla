---------------------------- MODULE BoundedQueue ----------------------------
(***************************************************************************)
(* What the command queue of prism-engine (src/spsc.rs) promises: a FIFO   *)
(* of at most Capacity values that hands over, in the order they were      *)
(* pushed and unchanged, every value that was accepted.  One step per      *)
(* promise; no counters, no slots, no bytes.                               *)
(***************************************************************************)
EXTENDS Naturals, Sequences

CONSTANTS Payload,    \* the values that may travel
          Capacity,   \* how many of them may wait
          Nothing     \* what has been delivered before the first delivery

VARIABLES queue,      \* the values accepted and not yet delivered, oldest first
          last        \* the value delivered most recently

vars == <<queue, last>>

Init == queue = << >> /\ last = Nothing

Accept(v) ==
    /\ Len(queue) < Capacity
    /\ queue' = Append(queue, v)
    /\ UNCHANGED last

Deliver ==
    /\ queue # << >>
    /\ last' = Head(queue)
    /\ queue' = Tail(queue)

Next == Deliver \/ \E v \in Payload : Accept(v)

Spec == Init /\ [][Next]_vars
=============================================================================
