-------------------------- MODULE MCEngineHandOff ---------------------------
(* EngineHandOff with two programmer values, a queue of two commands and    *)
(* two rebuilds or new follow layers: one can be offered while the marker   *)
(* of the other is still queued, or found no room there.                    *)
EXTENDS EngineHandOff
=============================================================================
