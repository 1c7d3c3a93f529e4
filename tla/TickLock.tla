------------------------------ MODULE TickLock ------------------------------
(***************************************************************************)
(* What the tick guard of a managed agent promises: the set of workers     *)
(* that are inside a tick of an agent, and whether the guard still protects *)
(* them.  As long as nobody else has written the agent's status row during *)
(* a tick (broken[a] = FALSE), a second worker cannot enter.               *)
(*                                                                         *)
(* AgentManager.start_tick / end_tick (agents/manager.py) are meant to be  *)
(* this lock; AgentTick implements it with the status column.              *)
(***************************************************************************)
EXTENDS Naturals, FiniteSets

CONSTANTS
    Agents,     \* managed agents
    Workers     \* threads and processes that run ticks

VARIABLES
    holders,    \* holders[a]: the workers inside a tick of a
    broken      \* broken[a]: the row was written behind a holder's back

vars == <<holders, broken>>

Init ==
    /\ holders = [a \in Agents |-> {}]
    /\ broken = [a \in Agents |-> FALSE]

\* A worker enters.  Once the overlapping ticks have drained, the next entry
\* finds the lock whole again.
Acquire(w, a) ==
    /\ w \notin holders[a]
    /\ broken[a] \/ holders[a] = {}
    /\ holders' = [holders EXCEPT ![a] = @ \cup {w}]
    /\ broken' = [broken EXCEPT ![a] = @ /\ holders[a] # {}]

\* Workers leave: one at the end of its tick, many when their process dies.
Leave(W) ==
    /\ holders' = [a \in Agents |-> holders[a] \ W]
    /\ UNCHANGED broken

\* Somebody who is not the holder overwrites the rows of the agents in A.
Break(A) ==
    /\ broken' = [a \in Agents |-> broken[a] \/ (a \in A /\ holders[a] # {})]
    /\ UNCHANGED holders

Next ==
    \/ \E w \in Workers, a \in Agents : Acquire(w, a)
    \/ \E W \in SUBSET Workers : Leave(W)
    \/ \E A \in SUBSET Agents : Break(A)

Spec == Init /\ [][Next]_vars

\* Two workers inside a tick of one agent only after the lock was broken.
Exclusion ==
    \A a \in Agents : \A v, w \in holders[a] : v = w \/ broken[a]

=============================================================================
