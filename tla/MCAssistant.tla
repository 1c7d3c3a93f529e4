----------------------------- MODULE MCAssistant -----------------------------
(* Small instances of the voice assistant. *)
EXTENDS AssistantProps

CONSTANTS m1, m2
MCTyped1 == {m1}
MCTyped2 == {m1, m2}
==============================================================================
