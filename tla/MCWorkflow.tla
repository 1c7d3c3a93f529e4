---------------------------- MODULE MCWorkflow -----------------------------
(* Small instances of Workflow for TLC.                                    *)
EXTENDS WorkflowProps

CONSTANTS n1, n2, n3, n4

\* One node of each type.
Types == [n \in Nodes |-> CASE n = n1 -> "agent" [] n = n2 -> "condition"
                            [] n = n3 -> "transform" [] n = n4 -> "tool"]
\* The condition names the others.
Named == [n \in Nodes |-> Nodes \ {n}]

=============================================================================
