----------------------------- MODULE MCSacnStream -----------------------------
(* An instance of SacnStream small enough to check. *)
EXTENDS SacnStream, TLC

Alike == Permutations(Gateways)
==============================================================================
