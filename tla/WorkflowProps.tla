--------------------------- MODULE WorkflowProps ---------------------------
(***************************************************************************)
(* What is claimed of Workflow, and statements of the code that runs in    *)
(* MCWorkflow refute.                                                      *)
(***************************************************************************)
EXTENDS Workflow

\* The variables stay in their types; calls are on the stack once, and what is
\* collected was executed.
TypeOK ==
    /\ edges \in [Nodes -> [Nodes -> 0..MaxEdges]]
    /\ pc \in {"validate", "invalid", "begin", "single", "parallel", "end",
               "success", "failure", "raised"}
    /\ visited \subseteq Nodes
    /\ path \in Seq(Nodes)
    /\ \A i, j \in DOMAIN path : path[i] = path[j] => i = j
    /\ left \in [Nodes -> SUBSET Nodes]
    /\ stage \in 0..Cardinality(Nodes)
    /\ snapshot \in Seq(Nodes)
    /\ state \in [Nodes -> {"none", "waiting", "running", "done"}]
    /\ order \in Seq(Nodes)
    /\ \A i, j \in DOMAIN order : order[i] = order[j] => i = j
    /\ out \in [Nodes -> {"none", "text", "false", "empty", "failed"}]
    /\ reads \in [Nodes -> SUBSET Nodes]
    /\ joined \in [Nodes -> Seq(Nodes)]
    /\ success \in BOOLEAN
    /\ \A n \in Nodes : (out[n] # "none") = (state[n] = "done")
    /\ \A n \in Outputs : state[n] = "done"

-----------------------------------------------------------------------------
(* Reference definitions.                                                  *)

\* A path leads from m to n, by Warshall's algorithm.
PathVia[M \in SUBSET Nodes] ==
    IF M = {} THEN [m \in Nodes |-> [n \in Nodes |-> edges[m][n] > 0]]
    ELSE LET k == CHOOSE k \in M : TRUE
             P == PathVia[M \ {k}]
         IN  [m \in Nodes |-> [n \in Nodes |-> P[m][n] \/ (P[m][k] /\ P[k][n])]]
Reaches(m, n) == PathVia[Nodes][m][n]
Cyclic == \E n \in Nodes : Reaches(n, n)

\* In a graph without cycles, the number of edges on the longest path to each of the
\* nodes M that stays in M, and on the longest path to n.
LongestPath[M \in SUBSET Nodes] ==
    [n \in Nodes |->
        LET preds == {p \in Predecessors(n) \cap M : n \in M /\ p # n}
        IN  IF preds = {} THEN 0
            ELSE 1 + Max({LongestPath[M \ {n}][p] : p \in preds})]
Level(n) == LongestPath[Nodes][n]

-----------------------------------------------------------------------------

\* validate rejects a graph exactly if it has a cycle, in whatever order it looks
\* at nodes and neighbours.
CyclesAreFound ==
    /\ pc = "invalid" => Cyclic
    /\ pc \notin {"validate", "invalid"} => ~Cyclic

\* The loop of execution_stages puts every node into one stage: that of the longest
\* path to it, however many edges lead from one node to another.
StagesAreLevels ==
    pc = "begin" /\ stage = 0 =>
        \A n \in Nodes, k \in 0..Cardinality(Nodes) : n \in Peel(k).ready <=> Level(n) = k

\* What an agent's prompt or a condition is made of is a function of the graph and of
\* the outputs, however the threads of its stage and of those before are scheduled.
\* What a transform joins is so only as a set: its order is that in which nodes of one
\* stage came to their ends, which is not determined, but is the same for every
\* transform of the run and that of the steps in the result.
InputsFollowTheGraph ==
    \A n \in Nodes : state[n] \in {"running", "done"} =>
        LET before == {m \in Nodes : Level(m) < Level(n)}
        IN  /\ reads[n] = CASE Type[n] = "agent" -> {p \in Predecessors(n) : out[p] # "empty"}
                              [] Type[n] = "condition" -> Names[n] \cap before
                              [] OTHER -> {}
            /\ Type[n] = "transform" =>
                 /\ ToSet(joined[n]) = before
                 /\ IsPrefix(joined[n], order)

\* The run implements DagRun.
Status(n) ==
    CASE state[n] \in {"none", "waiting"} -> "idle"
      [] state[n] = "running" -> "running"
      [] out[n] = "failed" -> "failed"
      [] OTHER -> "ok"
Outcome ==
    CASE pc = "success" -> "success"
      [] pc \in {"failure", "invalid"} -> "failure"
      [] pc = "raised" -> "raised"
      [] OTHER -> "open"
Dag == INSTANCE DagRun WITH needs <- [n \in Nodes |-> Predecessors(n)],
                            status <- [n \in Nodes |-> Status(n)],
                            result <- Outcome
ImplementsDagRun == Dag!Spec

\* A run comes to an end if its nodes do.
RunEnds == <>Over

-----------------------------------------------------------------------------
(* Refuted.                                                                *)

\* engine.py:33: default_node_timeout.  A run comes to an end whatever its nodes do.
NodesTimeOut == <>Over

\* types.py:43: "optional condition for conditional routing".  A node is not run
\* when the conditions before it came out false.
ConditionsRoute ==
    \A n \in Nodes :
        /\ Predecessors(n) # {}
        /\ \A p \in Predecessors(n) : Type[p] = "condition" /\ out[p] = "false"
        => state[n] = "none"

=============================================================================
