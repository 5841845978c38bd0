----------------------------- MODULE MCDeskLife -----------------------------
(* Instances of DeskLife small enough to check. *)
EXTENDS DeskLife

OneDesk == 1 .. 1
TwoDesks == 1 .. 2
TwoFiles == [p \in {"A", "B"} |-> IF p = "A" THEN "A.recovery" ELSE "B.recovery"]
BothFiles == {"A", "B"}
==============================================================================
