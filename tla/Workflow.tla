------------------------------ MODULE Workflow -----------------------------
(***************************************************************************)
(* One run of WorkflowEngine (workflow/engine.py) over a WorkflowGraph     *)
(* (workflow/graph.py): the search for cycles, the stages, the nodes of a  *)
(* stage one by one or in a thread pool, and what each node reads of the   *)
(* outputs so far.                                                         *)
(*                                                                         *)
(* An output is good text, the text "false" of a condition, no text, or    *)
(* the message of a failure; what matters of an input is whose outputs it  *)
(* is made of, and for a transform, which joins them, in which order.      *)
(***************************************************************************)
EXTENDS Naturals, FiniteSets, SequencesExt

CONSTANTS
    Nodes,
    Type,        \* NodeType of each: "agent" (agent and loop), "tool", "condition", "transform"
    Names,       \* the nodes that a condition's expression names
    MaxEdges,    \* bound on the edges from one node to another
    MaxParallel  \* max_parallel

ASSUME WorkflowAssumption ==
    /\ IsFiniteSet(Nodes)
    /\ Type \in [Nodes -> {"agent", "tool", "condition", "transform"}]
    /\ Names \in [Nodes -> SUBSET Nodes]
    /\ MaxEdges \in Nat
    /\ MaxParallel \in Nat \ {0}

VARIABLES
    edges,     \* how many edges lead from one node to another
    pc,        \* where the main thread is
    \* the depth-first search of validate
    visited,
    path,      \* the nodes in_stack, in the order of the calls
    left,      \* neighbours a call has still to look at
    \* the run
    stage,     \* number of stages before the present one
    snapshot,  \* the copy of outputs that the stage's threads were given: its keys, in order
    state,     \* of each node: "none", "waiting", "running", "done" (its future is)
    order,     \* all_steps, and the order of the keys of outputs
    out,       \* what each node came to: "none", "text", "false", "empty", "failed"
    reads,     \* the nodes whose outputs went into its prompt or its expression
    joined,    \* the nodes whose outputs a transform joined, one after the other
    success

search == <<visited, path, left>>
run == <<stage, snapshot, state, order, out, reads, joined, success>>
vars == <<edges, pc, search, run>>

Successors(n) == {m \in Nodes : edges[n][m] > 0}
Predecessors(n) == {m \in Nodes : edges[m][n] > 0}

\* add_node and add_edge make any graph, with any number of edges between two nodes.
Init ==
    /\ edges \in [Nodes -> [Nodes -> 0..MaxEdges]]
    /\ pc = "validate"
    /\ visited = {}
    /\ path = <<>>
    /\ left = [n \in Nodes |-> {}]
    /\ stage = 0
    /\ snapshot = <<>>
    /\ state = [n \in Nodes |-> "none"]
    /\ order = <<>>
    /\ out = [n \in Nodes |-> "none"]
    /\ reads = [n \in Nodes |-> {}]
    /\ joined = [n \in Nodes |-> <<>>]
    /\ success = TRUE

-----------------------------------------------------------------------------
(* validate.  (The order of nodes and neighbours is that of insertion: any.) *)

Call(n) ==
    /\ visited' = visited \cup {n}
    /\ path' = Append(path, n)

Root ==
    /\ pc = "validate" /\ path = <<>>
    /\ \E n \in Nodes \ visited :
         /\ Call(n)
         /\ left' = [left EXCEPT ![n] = Successors(n)]
    /\ UNCHANGED <<edges, pc, run>>

\* Variant: a node seen before is taken for a cycle, wherever it was seen.
LookVisited ==
    /\ pc = "validate" /\ path # <<>>
    /\ \E m \in left[Last(path)] :
         IF m \in visited
         THEN pc' = "invalid" /\ UNCHANGED search
         ELSE /\ left' = [left EXCEPT ![Last(path)] = @ \ {m}, ![m] = Successors(m)]
              /\ Call(m)
              /\ UNCHANGED pc
    /\ UNCHANGED <<edges, run>>

\* A call looks at a neighbour: in the stack, new, or done with.
Look ==
    /\ pc = "validate" /\ path # <<>>
    /\ \E m \in left[Last(path)] :
         \/ /\ m \in ToSet(path)
            /\ pc' = "invalid"
            /\ UNCHANGED search
         \/ /\ m \notin visited
            /\ left' = [left EXCEPT ![Last(path)] = @ \ {m}, ![m] = Successors(m)]
            /\ Call(m)
            /\ UNCHANGED pc
         \/ /\ m \in visited \ ToSet(path)
            /\ left' = [left EXCEPT ![Last(path)] = @ \ {m}]
            /\ UNCHANGED <<pc, visited, path>>
    /\ UNCHANGED <<edges, run>>

\* A call has looked at all of them and returns False.
Return ==
    /\ pc = "validate" /\ path # <<>>
    /\ left[Last(path)] = {}
    /\ path' = Front(path)
    /\ UNCHANGED <<edges, pc, visited, left, run>>

\* The graph is valid and the run begins.
Validated ==
    /\ pc = "validate" /\ path = <<>> /\ visited = Nodes
    /\ pc' = "begin"
    /\ UNCHANGED <<edges, search, run>>

-----------------------------------------------------------------------------
(* execution_stages.                                                       *)

EdgesInto(n, M) == FoldSet(LAMBDA m, k : k + edges[m][n], 0, M)

\* A target is ready when nothing is left of its degree.
Turned(p) ==
    LET degree == [n \in Nodes |-> p.degree[n] - EdgesInto(n, p.ready)]
    IN  [degree |-> degree, ready |-> {n \in Nodes : p.degree[n] > 0 /\ degree[n] = 0}]

\* Variant: in_degree counts the predecessors, not the edges.
InDegreePairs(n) == Cardinality(Predecessors(n))

InDegree(n) == EdgesInto(n, Nodes)

\* in_degree and ready after k turns of the loop.
Peel(k) ==
    LET Turn[i \in 0..k] ==
            IF i = 0
            THEN [degree |-> [n \in Nodes |-> InDegree(n)],
                  ready |-> {n \in Nodes : InDegree(n) = 0}]
            ELSE Turned(Turn[i - 1])
    IN  Turn[k]

Stage == Peel(stage).ready

-----------------------------------------------------------------------------
(* The nodes of a stage.                                                   *)

Outputs == ToSet(order)

\* The next stage, or the end when there is none or a node failed.
Begin ==
    /\ pc = "begin"
    /\ pc' = CASE Stage = {} -> "end"
               [] Cardinality(Stage) = 1 -> "single"
               [] OTHER -> "parallel"
    /\ snapshot' = order
    /\ state' = [n \in Nodes |-> IF n \in Stage THEN "waiting" ELSE state[n]]
    /\ UNCHANGED <<edges, search, stage, order, out, reads, joined, success>>

\* What goes into the prompt of an agent (its predecessors that have text, in the order
\* of the edges; when none has, the initial input) or into a condition (what its
\* expression names and finds).
Input(n, available) ==
    CASE Type[n] = "agent" -> {p \in Predecessors(n) \cap available : out[p] # "empty"}
      [] Type[n] = "condition" -> Names[n] \cap available
      [] OTHER -> {}

\* A transform joins all that there is, in the order of the dictionary.
Joined(n, outputs) == IF Type[n] = "transform" THEN outputs ELSE <<>>

\* Variant: the threads of a stage share the dictionary of outputs.
StartNodeShared(n) ==
    /\ pc \in {"single", "parallel"}
    /\ state[n] = "waiting"
    /\ Cardinality({m \in Nodes : state[m] = "running"}) < MaxParallel
    /\ state' = [state EXCEPT ![n] = "running"]
    /\ reads' = [reads EXCEPT ![n] = Input(n, Outputs)]
    /\ joined' = [joined EXCEPT ![n] = Joined(n, order)]
    /\ UNCHANGED <<edges, pc, search, stage, snapshot, order, out, success>>

\* A thread of the pool (or the main thread) takes up a node with its own copy of
\* the outputs before the stage.
StartNode(n) ==
    /\ pc \in {"single", "parallel"}
    /\ state[n] = "waiting"
    /\ Cardinality({m \in Nodes : state[m] = "running"}) < MaxParallel
    /\ state' = [state EXCEPT ![n] = "running"]
    /\ reads' = [reads EXCEPT ![n] = Input(n, ToSet(snapshot))]
    /\ joined' = [joined EXCEPT ![n] = Joined(n, snapshot)]
    /\ UNCHANGED <<edges, pc, search, stage, snapshot, order, out, success>>

\* A condition is true or false, and a transform of nothing or of one empty text is
\* empty.  Neither fails; agents, tools and, in a thread, subscribers of the bus may.
Outcomes(n) ==
    LET nothing == Len(joined[n]) < 2 /\ \A m \in ToSet(joined[n]) : out[m] = "empty"
    IN  (CASE Type[n] = "condition" -> {"text", "false"}
           [] Type[n] = "transform" -> IF nothing THEN {"empty"} ELSE {"text", "empty"}
           [] OTHER -> {"text", "empty", "failed"})
        \cup (IF pc = "parallel" THEN {"failed"} ELSE {})

\* _execute_node returns.
NodeReturns(n) ==
    /\ state[n] = "running"
    /\ pc \in {"single", "parallel"}
    /\ \E o \in Outcomes(n) : out' = [out EXCEPT ![n] = o]
    /\ state' = [state EXCEPT ![n] = "done"]
    /\ UNCHANGED <<edges, pc, search, stage, snapshot, order, reads, joined, success>>

\* Variant: a future that is done is taken up again.
CollectAgain(n) ==
    /\ pc \in {"single", "parallel"}
    /\ state[n] = "done" /\ n \in Stage /\ Len(order) < Cardinality(Nodes)
    /\ order' = Append(order, n)
    /\ success' = (success /\ out[n] # "failed")
    /\ UNCHANGED <<edges, pc, search, stage, snapshot, state, out, reads, joined>>

\* The main thread takes up a result: its own, or one that as_completed yields.
Collect(n) ==
    /\ pc \in {"single", "parallel"}
    /\ state[n] = "done" /\ n \notin Outputs
    /\ order' = Append(order, n)
    /\ success' = (success /\ out[n] # "failed")
    /\ UNCHANGED <<edges, pc, search, stage, snapshot, state, out, reads, joined>>

\* Variant: the next turn takes the same stage.
StageEndsInPlace ==
    /\ pc \in {"single", "parallel"}
    /\ Stage \subseteq Outputs
    /\ pc' = IF success THEN "begin" ELSE "end"
    /\ UNCHANGED <<edges, search, stage, snapshot, state, order, out, reads, joined, success>>

\* Variant: a failure does not keep the next stage from running.
StageEndsAnyway ==
    /\ pc \in {"single", "parallel"}
    /\ Stage \subseteq Outputs
    /\ pc' = "begin"
    /\ stage' = stage + 1
    /\ UNCHANGED <<edges, search, snapshot, state, order, out, reads, joined, success>>

\* All results of the stage are there.
StageEnds ==
    /\ pc \in {"single", "parallel"}
    /\ Stage \subseteq Outputs
    /\ pc' = IF success THEN "begin" ELSE "end"
    /\ stage' = stage + 1
    /\ UNCHANGED <<edges, search, snapshot, state, order, out, reads, joined, success>>

\* A subscriber of the bus raises in the main thread: as the run starts or ends, or
\* around the only node of a stage.
BusRaises ==
    /\ pc \in {"begin", "single", "end"}
    /\ pc = "begin" => stage = 0
    /\ pc' = "raised"
    /\ UNCHANGED <<edges, search, run>>

\* The result is returned.
Result ==
    /\ pc = "end"
    /\ pc' = IF success THEN "success" ELSE "failure"
    /\ UNCHANGED <<edges, search, run>>

Over == pc \in {"invalid", "success", "failure", "raised"}
Rests == Over /\ UNCHANGED vars

-----------------------------------------------------------------------------

Main == Root \/ Look \/ Return \/ Validated \/ Begin \/ StageEnds \/ Result

Next ==
    \/ Main
    \/ \E n \in Nodes : StartNode(n) \/ NodeReturns(n) \/ Collect(n)
    \/ BusRaises
    \/ Rests

Spec == Init /\ [][Next]_vars

\* Threads are run.
Fairness ==
    /\ WF_vars(Main)
    /\ \A n \in Nodes : WF_vars(StartNode(n)) /\ WF_vars(Collect(n))

\* Agents and tools come back: an assumption on what a node calls.
NodesReturn == \A n \in Nodes : WF_vars(NodeReturns(n))

FairSpec == Spec /\ Fairness
PromptSpec == FairSpec /\ NodesReturn

=============================================================================
