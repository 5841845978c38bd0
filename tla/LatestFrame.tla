---------------------------- MODULE LatestFrame -----------------------------
(***************************************************************************)
(* What one subscriber's side of the frame hand-off promises               *)
(* (crates/prism-engine/src/triple_buffer.rs): a register that always      *)
(* holds the newest frame.  Frames are published in the order of their     *)
(* numbers; a refresh that finds an unread one gets the newest, whole;     *)
(* frames nobody fetched in time are simply replaced; and the frame a      *)
(* subscriber holds changes only when it refreshes.                        *)
(***************************************************************************)
EXTENDS Integers

CONSTANTS Modulus   \* where the numbers of the frames wrap

VARIABLES newest,   \* the frame published last, to whomever
          unread,   \* whether this subscriber has yet to take it
          held      \* the frame this subscriber took last

vars == <<newest, unread, held>>

Frames == 0 .. Modulus - 1

\* A subscriber starts with a blank frame, numbered 0.
Init == newest \in Frames /\ unread = FALSE /\ held = 0

Publish ==
    /\ newest' = (newest + 1) % Modulus
    /\ unread' = TRUE
    /\ UNCHANGED held

Refresh ==
    /\ unread
    /\ held' = newest /\ unread' = FALSE
    /\ UNCHANGED newest

Next == Publish \/ Refresh

Spec == Init /\ [][Next]_vars
=============================================================================
