---------------------------- MODULE MCAgentTick -----------------------------
(* Small instances of AgentTick for TLC.                                   *)
EXTENDS AgentTickProps

CONSTANTS a1, a2, m1, m2

\* Every message is for the first agent.
ToA1 == [m \in Messages |-> a1]
\* One message for each agent.
OneEach == [m \in Messages |-> IF m = m1 THEN a1 ELSE a2]

=============================================================================
