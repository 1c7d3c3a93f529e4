--------------------------- MODULE AgentTickProps ---------------------------
(***************************************************************************)
(* What is claimed of AgentTick: invariants, action properties, liveness,  *)
(* the abstract lock it implements, and statements made by the code's own  *)
(* comments that the runs in MCAgentTick refute.                           *)
(***************************************************************************)
EXTENDS AgentTick

\* The variables stay in their types; a worker serves an agent unless it is
\* idle or reconciling, and never owns the guard of two agents.
TypeOK ==
    /\ status \in [Agents -> Status]
    /\ stallRetries \in [Agents -> 0..MaxStallRetries]
    /\ activity \in [Agents -> {"none", "fresh", "old"}]
    /\ spent \in [Agents -> 0..SpentBound]
    /\ mail \in [Messages -> {"unsent", "pending", "delivered"}]
    /\ pc \in [Workers -> ProgramCounters]
    /\ at \in [Workers -> Agents \cup {NoAgent}]
    /\ tries \in [Workers -> 0..(MaxRetries - 1)]
    /\ todo \in [Workers -> SUBSET Messages]
    /\ took \in [Workers -> SUBSET Messages]
    /\ verdict \in [Workers -> {"none", "ok", "error", "needs_attention"}]
    /\ up \in BOOLEAN
    /\ registered \in SUBSET Agents
    /\ stalled \in SUBSET (Agents \X (0..MaxStallRetries))
    /\ lost \in [Agents -> BOOLEAN]
    /\ stranded \in SUBSET Agents
    /\ served \in [Messages -> 0..2]
    /\ answered \in SUBSET Messages
    /\ \A w \in Workers : pc[w] \notin {"idle", "reconcile"} => at[w] \in Agents
    /\ \A w \in Workers : pc[w] = "flag" => verdict[w] \in Status
    /\ \A w \in Workers : pc[w] = "release" => verdict[w] # "none"

\* The tick guard, with the exact exception the code leaves: two workers are
\* inside a tick of one agent, or a worker is inside although the row does not
\* say "running", only after somebody else rewrote the row during a tick (a
\* late failure or budget flag, an auto-recovery, a stall release, an operator
\* request, another process opening the database, a route thread's handler).
GuardUnlessOverwritten ==
    \A a \in Agents :
        ~lost[a] => /\ \A v, w \in Holders(a) : v = w
                    /\ Holders(a) # {} => status[a] = "running"

\* While the server is up, "running" is a leftover only of a tick that nobody ends: an
\* exception left it before its end_tick in the scheduler thread, which only logs it
\* (scheduler.py:176), or in a command-line process, or that process was killed.
\* Route threads, failing attempts and the death of the server leave none.
NoZombieGuard ==
    \A a \in Agents :
        up /\ status[a] = "running" => Holders(a) # {} \/ a \in stranded

\* A user message is in the input of a second attempt only while the tick guard
\* is lost: reading the pending messages and marking them delivered are
\* separate statements, and only the guard keeps other ticks from reading the
\* same ones in between.
RedeliveryNeedsLostGuard ==
    [][\A m \in Messages :
         served[m] > 0 /\ served'[m] > served[m] => lost[Addressee[m]]]_vars

\* The status column and the workers implement the abstract tick lock.
Lock == INSTANCE TickLock WITH
            holders <- [a \in Agents |-> Holders(a)],
            broken <- lost

\* Refinement of TickLock: every step acquires, leaves or breaks the lock as
\* the abstract one may, or does not concern it.
ImplementsTickLock == Lock!Spec

-----------------------------------------------------------------------------
(* Liveness.                                                               *)

\* With engines that answer, no agent is left "running" for ever, whatever path
\* its ticks take through retries, failures and restarts (execute_tick's docstring
\* names the bug this excludes), but for a tick that was stranded.
GuardIsReleased ==
    EnginesAnswer =>
        \A a \in Agents : status[a] = "running" ~> status[a] # "running" \/ a \in stranded

\* A message for an agent the scheduler fires reaches a tick, unless the server
\* dies first, a tick is stranded or ticks raise again and again before they read it; a
\* server that comes back takes it up again, as long as it registers the agent, and so
\* does the scheduler once the row is released.
ExceptionsEnd == <>[][\A w \in Workers : ~Raises(w)]_vars
PendingGetsDelivered ==
    ExceptionsEnd =>
        \A m \in Messages :
            mail[m] = "pending" /\ Addressee[m] \in registered \ stranded
            ~> \/ mail[m] = "delivered"
               \/ Addressee[m] \notin registered \ stranded

\* A tick that has shown activity and then hangs, or is stranded, loses the guard,
\* provided that it is not the scheduler thread itself that hangs: it runs its ticks
\* between two turns of _reconcile.
HungTickReleased ==
    WF_vars(AgentEnds(Scheduler)) =>
        \A a \in Agents :
            status[a] = "running" /\ activity[a] # "none" ~> status[a] # "running"

-----------------------------------------------------------------------------
(* Refuted statements: each is what a comment of the code says.            *)

\* start_tick "Raises ValueError if already running" (manager.py:275), taken
\* as "Tick concurrency guard" (manager.py:272): one tick per agent.
OneTickPerAgent ==
    \A a \in Agents : Cardinality(Holders(a)) <= 1

\* "4. Release guard (end_tick)" (executor.py:104): a tick that was begun, and whose
\* process lives, leaves no guard behind.
GuardEndsWithTick ==
    \A a \in Agents : up /\ status[a] = "running" => Holders(a) # {}

\* "A freshly-started process holds zero tick locks by definition, so any
\* persisted running is a zombie" (manager.py:142-143).
SweepFindsOnlyZombies ==
    [][CliCommand => \A a \in Agents :
         Holders(a) # {} => status'[a] = status[a]]_vars

\* "Agent is archived" (agent_manager_routes.py:1389), "is archived and cannot
\* be run" (agent_cmd.py:435): an archived agent runs no tick.
ArchivedNeverRuns ==
    [][\A a \in Agents : status[a] = "archived" => status'[a] # "running"]_vars

\* POST /pause answers {"status": "paused"} (agent_manager_routes.py:1372) and
\* resume is there to "Resume a paused agent" (agent_cmd.py:182): an agent
\* stays paused until it is resumed, recovered or deleted.
PausedUntilResumed ==
    [][\A a \in Agents :
         status[a] = "paused" =>
             status'[a] = "paused" \/ Resume(a) \/ Recover(a) \/ Delete(a)]_vars

\* "trigger a background tick so the agent processes the message"
\* (agent_manager_routes.py:1746-1747): a delivered message is in the input of
\* a live attempt or of one whose response was stored.
DeliveredIsProcessed ==
    \A m \in Messages :
        mail[m] = "delivered" => m \in answered \/ \E w \in Workers : m \in took[w]

\* "Budget enforcement (post-tick check)" (executor.py:563) and the skip list of
\* _check_due_agents: the scheduler fires no agent that has used up its budget.
SchedulerKeepsBudget ==
    [][\A a \in Agents : SchedulerCheck(a) => ~OverBudget(a)]_vars

\* "Check running agents for stalls and handle retries" (scheduler.py:194): a
\* tick of an agent with a timeout does not hold the guard for ever.
StalledTickReleased ==
    \A a \in Agents : status[a] = "running" ~> status[a] # "running"

=============================================================================
