------------------------------ MODULE DagRun -------------------------------
(***************************************************************************)
(* What a run of a workflow promises, without stages, copies or pools: a   *)
(* node runs once at most, and only after all its predecessors came to a   *)
(* good end; the run is a success when all nodes came to one.              *)
(***************************************************************************)
CONSTANTS Nodes

VARIABLES
    needs,   \* the predecessors of each node
    status,  \* of each node: "idle", "running", "ok", "failed"
    result   \* "open", "success", "failure", or "raised"

vars == <<needs, status, result>>

Init ==
    /\ needs \in [Nodes -> SUBSET Nodes]
    /\ status = [n \in Nodes |-> "idle"]
    /\ result = "open"

Start(n) ==
    /\ result = "open"
    /\ status[n] = "idle"
    /\ \A p \in needs[n] : status[p] = "ok"
    /\ status' = [status EXCEPT ![n] = "running"]
    /\ UNCHANGED <<needs, result>>

End(n, s) ==
    /\ result = "open"
    /\ status[n] = "running"
    /\ status' = [status EXCEPT ![n] = s]
    /\ UNCHANGED <<needs, result>>

Succeed ==
    /\ result = "open"
    /\ \A n \in Nodes : status[n] = "ok"
    /\ result' = "success"
    /\ UNCHANGED <<needs, status>>

\* A node failed and none is running, or none ever ran.
GiveUp ==
    /\ result = "open"
    /\ \A n \in Nodes : status[n] # "running"
    /\ (\E n \in Nodes : status[n] = "failed") \/ (\A n \in Nodes : status[n] = "idle")
    /\ result' = "failure"
    /\ UNCHANGED <<needs, status>>

\* An exception leaves the run.
Raise ==
    /\ result = "open"
    /\ result' = "raised"
    /\ UNCHANGED <<needs, status>>

Next ==
    \/ \E n \in Nodes : Start(n) \/ \E s \in {"ok", "failed"} : End(n, s)
    \/ Succeed \/ GiveUp \/ Raise

Spec == Init /\ [][Next]_vars

=============================================================================
