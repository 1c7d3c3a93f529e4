------------------------------- MODULE MCBrain -------------------------------
(* Small instances of answering questions. *)
EXTENDS BrainProps

CONSTANTS c1, c2, c3
TwoCallers == {c1, c2}
ThreeCallers == {c1, c2, c3}
==============================================================================
