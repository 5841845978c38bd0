------------------------------ MODULE MCOutputs ------------------------------
(* Instances of Outputs small enough to check. *)
EXTENDS Outputs

TwoRows == {1, 2}
NetworkAndCable == <<{"sacn", "artnet"}, {"opendmx"}>>
TwoSlots == 1 .. 2
==============================================================================
