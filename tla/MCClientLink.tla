---------------------------- MODULE MCClientLink ----------------------------
(* Instances of ClientLink small enough to check. *)
EXTENDS ClientLink

CONSTANT k1
OneClient == {"c1"}
OneKey == {k1}
==============================================================================
