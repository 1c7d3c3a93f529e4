---------------------------- MODULE MCApprovals -----------------------------
(* Small instances of Approvals for TLC.                                   *)
EXTENDS ApprovalsProps

CONSTANTS x1, x2, x3, i1, i2, k1, k2

\* x1 and x2 are about the same item.
SharedItem == [a \in Actions |-> IF a = x3 THEN i2 ELSE i1]
\* x1 and x2 fall under the same permission pattern.
SharedKey == [a \in Actions |-> IF a = x3 THEN k2 ELSE k1]
\* A low and a trivial action.
LowTrivial == [a \in Actions |-> IF a = x1 THEN "low" ELSE "trivial"]
\* One low, one high and one trivial action.
Mixed == [a \in Actions |-> CASE a = x1 -> "low" [] a = x2 -> "high" [] OTHER -> "trivial"]

=============================================================================
