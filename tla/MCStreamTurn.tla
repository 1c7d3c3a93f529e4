---------------------------- MODULE MCStreamTurn ----------------------------
(* Small instances of streaming turns. *)
EXTENDS StreamTurnProps

CONSTANTS t1, t2
==============================================================================
