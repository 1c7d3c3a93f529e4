----------------------------- MODULE AgentTick ------------------------------
(***************************************************************************)
(* The life of a managed agent: its row in the managed_agents table        *)
(* (agents/manager.py), the workers that run ticks for it                  *)
(* (agents/executor.py), the scheduler thread that fires due agents and    *)
(* releases stalled ones (agents/scheduler.py), the HTTP routes            *)
(* (server/agent_manager_routes.py) and the command line (cli/agent_cmd.py).*)
(*                                                                         *)
(* Every AgentManager method runs under the manager's lock (and is one SQL *)
(* statement, hence atomic across processes too); everything a handler     *)
(* does around these calls interleaves with the other workers.  A worker's *)
(* program counter names the next call it makes.                           *)
(***************************************************************************)
EXTENDS Naturals, FiniteSets

CONSTANTS
    Agents,           \* managed agents
    NoAgent,          \* a worker that serves no agent
    Scheduler,        \* the AgentScheduler thread of the server
    HttpThreads,      \* server threads started by POST /run and POST /messages
    CliRuns,          \* `agents run` / `agents ask` processes on the same database
    Messages,         \* user messages
    Addressee,        \* the agent each message is for
    Scheduled,        \* agents configured with a cron or interval schedule
    MaxRetries,       \* executor._MAX_RETRIES
    MaxStallRetries,  \* config max_stall_retries
    TokenLimit,       \* config max_tokens, 0 for none
    Environment       \* what happens around the ticks, a subset of EnvironmentKinds

EnvironmentKinds ==
    { "operator",   \* pause, resume, recover and delete requests
      "cli",        \* other processes open the database
      "crash",      \* processes die and the server restarts
      "stall",      \* agents are configured with timeout_seconds > 0
      "activity",   \* agents publish TOOL_CALL_START events that name the agent
      "misconfig",  \* an attempt can fail before it reads the messages
      "raise" }     \* an exception can leave execute_tick

ASSUME ConstantsAssumption ==
    /\ NoAgent \notin Agents
    /\ Scheduler \notin HttpThreads \cup CliRuns
    /\ HttpThreads \cap CliRuns = {}
    /\ Addressee \in [Messages -> Agents]
    /\ Scheduled \subseteq Agents
    /\ MaxRetries \in Nat \ {0}
    /\ MaxStallRetries \in Nat
    /\ TokenLimit \in Nat
    /\ Environment \subseteq EnvironmentKinds

ServerWorkers == {Scheduler} \cup HttpThreads
Workers == ServerWorkers \cup CliRuns

Status == { "idle", "running", "paused", "archived", "error",
            "needs_attention", "budget_exceeded" }

VARIABLES
    \* the agent's row
    status,        \* managed_agents.status
    stallRetries,  \* managed_agents.stall_retries
    activity,      \* last_activity_at: "none", "fresh", or "old" (past the timeout)
    spent,         \* managed_agents.total_tokens, at most SpentBound
    mail,          \* agent_messages.status of each message
    \* the workers
    pc,            \* the next call of the worker
    at,            \* the agent it serves
    tries,         \* `attempt` of _run_with_retries
    todo,          \* messages it still has to mark delivered (or to store)
    took,          \* messages in the input of the current attempt
    verdict,       \* how the tick ended, or how its agent has to be flagged
    \* the server process
    up,            \* it is alive
    stalled,       \* agents the scheduler found stalled, with stall_retries as read
    registered,    \* agents the scheduler fires
    \* history
    lost,          \* lost[a]: the row was rewritten behind a tick's back
    stranded,      \* agents with a tick that was left and not ended, since the last start
    served,        \* how many attempts had a message in their input, at most 2
    answered       \* the messages of an attempt whose response was stored

row == <<status, stallRetries, activity, spent, lost>>
letters == <<mail, served, answered>>
worker == <<pc, at, tries, todo, took, verdict>>
server == <<up, stalled, registered, stranded>>
vars == <<row, letters, worker, server>>

\* Where a worker is between its start_tick and its end_tick.
InTick == {"spawned", "prepare", "attempt", "mark", "run", "release", "abort.held"}
\* The statements of an `async def` route before its next await.
OnEventLoop == {"run.unflag", "run.acquire", "msg.unflag", "msg.store"}
ProgramCounters ==
    InTick \cup OnEventLoop \cup
    { "idle", "claim", "flag", "spend", "answer", "budget", "exceed", "abort",
      "cli.build", "reconcile", "stall.count" }

Holders(a) == {w \in Workers : at[w] = a /\ pc[w] \in InTick}

Init ==
    /\ status = [a \in Agents |-> "idle"]
    /\ stallRetries = [a \in Agents |-> 0]
    /\ activity = [a \in Agents |-> "none"]
    /\ spent = [a \in Agents |-> 0]
    /\ mail = [m \in Messages |-> "unsent"]
    /\ pc = [w \in Workers |-> "idle"]
    /\ at = [w \in Workers |-> NoAgent]
    /\ tries = [w \in Workers |-> 0]
    /\ todo = [w \in Workers |-> {}]
    /\ took = [w \in Workers |-> {}]
    /\ verdict = [w \in Workers |-> "none"]
    /\ up = TRUE
    /\ stalled = {}
    /\ registered = Scheduled
    /\ lost = [a \in Agents |-> FALSE]
    /\ stranded = {}
    /\ served = [m \in Messages |-> 0]
    /\ answered = {}

-----------------------------------------------------------------------------
(* Writing the row.                                                        *)

\* An unconditional UPDATE of the status of the agents in A by somebody who
\* is not ending a tick of his own: it takes the guard from any tick there.
Overwrite(A, s) ==
    /\ status' = [a \in Agents |-> IF a \in A THEN s ELSE status[a]]
    /\ lost' = [a \in Agents |-> lost[a] \/ (a \in A /\ Holders(a) # {})]

\* AgentManager.__init__: every "running" row is taken for a zombie.
Sweep == Overwrite({a \in Agents : status[a] = "running"}, "idle")

Goto(w, label) == pc' = [pc EXCEPT ![w] = label]

\* Workers W are done (or dead) and forget their local variables.
Retire(W) ==
    /\ pc' = [w \in Workers |-> IF w \in W THEN "idle" ELSE pc[w]]
    /\ at' = [w \in Workers |-> IF w \in W THEN NoAgent ELSE at[w]]
    /\ tries' = [w \in Workers |-> IF w \in W THEN 0 ELSE tries[w]]
    /\ todo' = [w \in Workers |-> IF w \in W THEN {} ELSE todo[w]]
    /\ took' = [w \in Workers |-> IF w \in W THEN {} ELSE took[w]]
    /\ verdict' = [w \in Workers |-> IF w \in W THEN "none" ELSE verdict[w]]

\* A worker is gone; if it was inside a tick, nobody will end that one.
Strand(w) ==
    /\ Retire({w})
    /\ stranded' = stranded \cup {a \in Agents : w \in Holders(a)}

-----------------------------------------------------------------------------
(* Who wants a tick.                                                       *)

\* Variant: the scheduler leaves agents alone that need attention.
SchedulerCheckHealthy(a) ==
    /\ up
    /\ pc[Scheduler] = "idle"
    /\ a \in registered
    /\ status[a] = "idle"
    /\ Goto(Scheduler, "claim")
    /\ at' = [at EXCEPT ![Scheduler] = a]
    /\ UNCHANGED <<row, letters, server, tries, todo, took, verdict>>

\* AgentScheduler._check_due_agents reads the row of a due agent.
SchedulerCheck(a) ==
    /\ up
    /\ pc[Scheduler] = "idle"
    /\ a \in registered
    /\ status[a] \notin {"paused", "archived", "running", "budget_exceeded"}
    /\ Goto(Scheduler, "claim")
    /\ at' = [at EXCEPT ![Scheduler] = a]
    /\ UNCHANGED <<row, letters, server, tries, todo, took, verdict>>

\* Route handlers are coroutines without an await: one at a time.
EventLoopFree == \A h \in HttpThreads : pc[h] \notin OnEventLoop

\* POST /run reads the row.
RunRoute(w, a) ==
    /\ up
    /\ w \in HttpThreads /\ pc[w] = "idle" /\ EventLoopFree
    /\ status[a] # "archived"
    /\ Goto(w, IF status[a] \in {"error", "needs_attention"}
               THEN "run.unflag" ELSE "run.acquire")
    /\ at' = [at EXCEPT ![w] = a]
    /\ UNCHANGED <<row, letters, server, tries, todo, took, verdict>>

\* POST /messages in immediate mode reads the row.
MessageRoute(w, m) ==
    /\ up
    /\ w \in HttpThreads /\ pc[w] = "idle" /\ EventLoopFree
    /\ mail[m] = "unsent"
    /\ \A h \in HttpThreads : m \notin todo[h]
    /\ Goto(w, IF status[Addressee[m]] \in {"error", "needs_attention"}
               THEN "msg.unflag" ELSE "msg.store")
    /\ at' = [at EXCEPT ![w] = Addressee[m]]
    /\ todo' = [todo EXCEPT ![w] = {m}]
    /\ UNCHANGED <<row, letters, server, tries, took, verdict>>

\* Both routes auto-recover an agent they saw in an error state.
Unflag(w) ==
    /\ pc[w] \in {"run.unflag", "msg.unflag"}
    /\ Overwrite({at[w]}, "idle")
    /\ Goto(w, IF pc[w] = "run.unflag" THEN "run.acquire" ELSE "msg.store")
    /\ UNCHANGED <<stallRetries, activity, spent, letters, server,
                   at, tries, todo, took, verdict>>

\* send_message, then a thread that will run a tick.
StoreMessage(w) ==
    /\ pc[w] = "msg.store"
    /\ mail' = [m \in Messages |-> IF m \in todo[w] THEN "pending" ELSE mail[m]]
    /\ todo' = [todo EXCEPT ![w] = {}]
    /\ Goto(w, "claim")
    /\ UNCHANGED <<row, served, answered, server, at, tries, took, verdict>>

\* A queued message (route, channel or `agents instruct`) waits for a tick.
QueueMessage(m) ==
    /\ mail[m] = "unsent"
    /\ \A h \in HttpThreads : m \notin todo[h]
    /\ mail' = [mail EXCEPT ![m] = "pending"]
    /\ UNCHANGED <<row, served, answered, server, worker>>

\* `agents run` / `agents ask`: a new process opens the database ...
CliOpen(w, a) ==
    /\ "cli" \in Environment
    /\ w \in CliRuns /\ pc[w] = "idle"
    /\ Sweep
    /\ Goto(w, "cli.build")
    /\ at' = [at EXCEPT ![w] = a]
    /\ UNCHANGED <<stallRetries, activity, spent, letters, server,
                   tries, todo, took, verdict>>

\* ... and once more when it builds the system the executor needs.
CliBuild(w) ==
    /\ pc[w] = "cli.build"
    /\ Sweep
    /\ Goto(w, "claim")
    /\ UNCHANGED <<stallRetries, activity, spent, letters, server,
                   at, tries, todo, took, verdict>>

\* Any other `agents` command opens the database as well.
CliCommand ==
    /\ "cli" \in Environment
    /\ Sweep
    /\ UNCHANGED <<stallRetries, activity, spent, letters, server, worker>>

-----------------------------------------------------------------------------
(* The guard.                                                              *)

\* Variant: start_tick without its WHERE clause.
StartTickUnconditional(w) ==
    /\ pc[w] \in {"run.acquire", "claim"}
    /\ status' = [status EXCEPT ![at[w]] = "running"]
    /\ lost' = [lost EXCEPT ![at[w]] = @ /\ Holders(at[w]) # {}]
    /\ stranded' = stranded \ {at[w]}
    /\ Goto(w, IF pc[w] = "claim" THEN "prepare" ELSE "spawned")
    /\ UNCHANGED <<stallRetries, activity, spent, letters, up, stalled, registered,
                   at, tries, todo, took, verdict>>

\* start_tick, UPDATE ... SET status = 'running' WHERE status != 'running'.
StartTick(w) ==
    /\ pc[w] \in {"run.acquire", "claim"}
    /\ status[at[w]] # "running"
    /\ status' = [status EXCEPT ![at[w]] = "running"]
    /\ lost' = [lost EXCEPT ![at[w]] = @ /\ Holders(at[w]) # {}]
    /\ stranded' = stranded \ {at[w]}
    /\ Goto(w, IF pc[w] = "claim" THEN "prepare" ELSE "spawned")
    /\ UNCHANGED <<stallRetries, activity, spent, letters, up, stalled, registered,
                   at, tries, todo, took, verdict>>

\* Variant: the ValueError is logged, and the tick goes on.
StartTickRefusedGoesOn(w) ==
    /\ pc[w] \in {"run.acquire", "claim"}
    /\ status[at[w]] = "running"
    /\ Goto(w, IF pc[w] = "claim" THEN "prepare" ELSE "spawned")
    /\ UNCHANGED <<row, letters, server, at, tries, todo, took, verdict>>

\* No row changed: the route answers 409, the executor skips the tick.
StartTickRefused(w) ==
    /\ pc[w] \in {"run.acquire", "claim"}
    /\ status[at[w]] = "running"
    /\ Retire({w})
    /\ UNCHANGED <<row, letters, server>>

\* Variant: without lock_already_held the executor trips over its own guard.
EnterReacquiring(w) ==
    /\ pc[w] = "spawned"
    /\ Retire({w})
    /\ UNCHANGED <<row, letters, server>>

\* The /run thread calls execute_tick(lock_already_held=True).
Enter(w) ==
    /\ pc[w] = "spawned"
    /\ Goto(w, "prepare")
    /\ UNCHANGED <<row, letters, server, at, tries, todo, took, verdict>>

\* get_agent, the event AGENT_TICK_START and the subscriptions, before the try.
Prepare(w) ==
    /\ pc[w] = "prepare"
    /\ Goto(w, "attempt")
    /\ UNCHANGED <<row, letters, server, at, tries, todo, took, verdict>>

\* end_tick, the first call of _finalize_tick on every outcome.
EndTick(w) ==
    /\ pc[w] = "release"
    /\ status' = [status EXCEPT ![at[w]] = "idle"]
    /\ Goto(w, IF verdict[w] = "ok" THEN "spend" ELSE "flag")
    /\ UNCHANGED <<stallRetries, activity, spent, lost, letters, server,
                   at, tries, todo, took, verdict>>

-----------------------------------------------------------------------------
(* One attempt of _run_with_retries.                                       *)

\* get_pending_messages.
TakeMessages(w) ==
    /\ pc[w] = "attempt"
    /\ LET pending == {m \in Messages : Addressee[m] = at[w] /\ mail[m] = "pending"}
       IN  /\ todo' = [todo EXCEPT ![w] = pending]
           /\ took' = [took EXCEPT ![w] = pending]
    /\ Goto(w, "mark")
    /\ UNCHANGED <<row, letters, server, at, tries, verdict>>

\* Variant: the update is not committed.
MarkDeliveredNothing(w) ==
    /\ pc[w] = "mark"
    /\ \E m \in todo[w] : todo' = [todo EXCEPT ![w] = @ \ {m}]
    /\ UNCHANGED <<row, letters, server, pc, at, tries, took, verdict>>

\* mark_message_delivered, one statement per message.
MarkDelivered(w) ==
    /\ pc[w] = "mark"
    /\ \E m \in todo[w] :
         /\ mail' = [mail EXCEPT ![m] = "delivered"]
         /\ todo' = [todo EXCEPT ![w] = @ \ {m}]
    /\ UNCHANGED <<row, served, answered, server, pc, at, tries, took, verdict>>

\* Bound: what was spent is told apart up to one above the limit.
SpentBound == IF TokenLimit = 0 THEN 0 ELSE TokenLimit + 1

AtMost(n, bound) == IF n > bound THEN bound ELSE n

\* agent.run starts.  If the agent publishes an event that names the managed
\* agent, the executor's subscriber sets last_activity_at.
CallAgent(w) ==
    /\ pc[w] = "mark" /\ todo[w] = {}
    /\ served' = [m \in Messages |->
                    IF m \in took[w] THEN AtMost(served[m] + 1, 2) ELSE served[m]]
    /\ \/ UNCHANGED activity
       \/ /\ "activity" \in Environment
          /\ activity' = [activity EXCEPT ![at[w]] = "fresh"]
    /\ Goto(w, "run")
    /\ UNCHANGED <<status, stallRetries, spent, lost, mail, answered, server,
                   at, tries, todo, took, verdict>>

\* agent.run returns.
AgentReturns(w) ==
    /\ pc[w] = "run"
    /\ Goto(w, "release")
    /\ verdict' = [verdict EXCEPT ![w] = "ok"]
    /\ UNCHANGED <<row, letters, server, at, tries, todo, took>>

\* An AgentTickError: retry, or give up with the status the agent will get.
Fail(w, outcome) ==
    /\ IF outcome = "retryable" /\ tries[w] + 1 < MaxRetries
       THEN /\ Goto(w, "attempt")
            /\ tries' = [tries EXCEPT ![w] = @ + 1]
            /\ UNCHANGED verdict
       ELSE /\ Goto(w, "release")
            /\ verdict' = [verdict EXCEPT ![w] =
                 IF outcome = "retryable" THEN "error" ELSE outcome]
            /\ UNCHANGED tries
    /\ took' = [took EXCEPT ![w] = {}]
    /\ UNCHANGED <<row, letters, server, at, todo>>

Outcomes == {"retryable", "error", "needs_attention"}

\* agent.run raises; classify_error makes it retryable, fatal or an escalation.
AgentRaises(w) ==
    /\ pc[w] = "run"
    /\ \E outcome \in Outcomes : Fail(w, outcome)

\* No engine, no model, unknown agent type, or the agent cannot be built.
AttemptFailsEarly(w) ==
    /\ "misconfig" \in Environment
    /\ pc[w] = "attempt"
    /\ \E outcome \in Outcomes \ {"needs_attention"} : Fail(w, outcome)

-----------------------------------------------------------------------------
(* The rest of _finalize_tick: the guard has been released.                *)

\* The failed tick flags its agent.
Flag(w) ==
    /\ pc[w] = "flag"
    /\ Overwrite({at[w]}, verdict[w])
    /\ Retire({w})
    /\ UNCHANGED <<stallRetries, activity, spent, letters, server>>

\* Run and token counters go up, stall_retries is reset.
Spend(w) ==
    /\ pc[w] = "spend"
    /\ \E tokens \in {0, 1} :
         spent' = [spent EXCEPT ![at[w]] = AtMost(@ + tokens, SpentBound)]
    /\ stallRetries' = [stallRetries EXCEPT ![at[w]] = 0]
    /\ Goto(w, "answer")
    /\ UNCHANGED <<status, activity, lost, letters, server,
                   at, tries, todo, took, verdict>>

\* store_agent_response.
Answer(w) ==
    /\ pc[w] = "answer"
    /\ answered' = answered \cup took[w]
    /\ Goto(w, "budget")
    /\ UNCHANGED <<row, mail, served, server, at, tries, todo, took, verdict>>

OverBudget(a) == TokenLimit > 0 /\ spent[a] > TokenLimit

\* The post-tick budget check reads the row ...
CheckBudget(w) ==
    /\ pc[w] = "budget"
    /\ IF OverBudget(at[w])
       THEN Goto(w, "exceed") /\ UNCHANGED <<at, tries, todo, took, verdict>>
       ELSE Retire({w})
    /\ UNCHANGED <<row, letters, server>>

\* ... and flags the agent.
Exceed(w) ==
    /\ pc[w] = "exceed"
    /\ Overwrite({at[w]}, "budget_exceeded")
    /\ Retire({w})
    /\ UNCHANGED <<stallRetries, activity, spent, letters, server>>

\* An exception leaves execute_tick: before the try, or in the finally clause.  The
\* threads of the routes catch it; the scheduler and the command line only report
\* it, and a tick left before its end_tick has nobody to end it.
Raises(w) ==
    /\ "raise" \in Environment
    /\ \/ pc[w] \in {"prepare", "release", "spend", "answer", "budget"}
       \/ pc[w] \in {"spawned", "claim"} /\ w \in HttpThreads
    /\ IF w \in HttpThreads
       THEN /\ Goto(w, IF pc[w] \in InTick THEN "abort.held" ELSE "abort")
            /\ UNCHANGED <<at, tries, todo, took, verdict, stranded>>
       ELSE Strand(w)
    /\ UNCHANGED <<row, letters, up, stalled, registered>>

\* The route thread's handler calls end_tick, whether it holds the guard or not.
Abort(w) ==
    /\ pc[w] \in {"abort", "abort.held"}
    /\ status' = [status EXCEPT ![at[w]] = "idle"]
    /\ lost' = [lost EXCEPT ![at[w]] =
                  @ \/ (pc[w] = "abort" /\ Holders(at[w]) # {})]
    /\ Goto(w, "flag")
    /\ verdict' = [verdict EXCEPT ![w] = "error"]
    /\ UNCHANGED <<stallRetries, activity, spent, letters, server,
                   at, tries, todo, took>>

-----------------------------------------------------------------------------
(* Stall detection (AgentScheduler._reconcile).                            *)

\* timeout_seconds pass without another event of the agent.
TimeoutElapses(a) ==
    /\ "stall" \in Environment
    /\ activity[a] = "fresh"
    /\ activity' = [activity EXCEPT ![a] = "old"]
    /\ UNCHANGED <<status, stallRetries, spent, lost, letters, worker, server>>

StalledNow ==
    {<<a, stallRetries[a]>> : a \in {b \in Agents : status[b] = "running"
                                                    /\ activity[b] = "old"}}

\* list_agents: the scheduler looks while it runs no tick itself.
Reconcile ==
    /\ up
    /\ "stall" \in Environment
    /\ pc[Scheduler] = "idle"
    /\ StalledNow # {}
    /\ stalled' = StalledNow
    /\ Goto(Scheduler, "reconcile")
    /\ UNCHANGED <<row, letters, up, registered, stranded,
                   at, tries, todo, took, verdict>>

NextStalled(rest) == Goto(Scheduler, IF rest = {} THEN "idle" ELSE "reconcile")

\* Variant: with the retries exhausted the row is left as it is.
StallExhaustedSilently ==
    /\ pc[Scheduler] = "reconcile"
    /\ \E s \in stalled :
         /\ s[2] >= MaxStallRetries
         /\ stalled' = stalled \ {s}
         /\ NextStalled(stalled \ {s})
    /\ UNCHANGED <<row, letters, up, registered, stranded,
                   at, tries, todo, took, verdict>>

\* Retries exhausted: status = 'error'.
StallExhausted ==
    /\ pc[Scheduler] = "reconcile"
    /\ \E s \in stalled :
         /\ s[2] >= MaxStallRetries
         /\ Overwrite({s[1]}, "error")
         /\ stalled' = stalled \ {s}
         /\ NextStalled(stalled \ {s})
    /\ UNCHANGED <<stallRetries, activity, spent, letters, up, registered, stranded,
                   at, tries, todo, took, verdict>>

\* Variant: one release too many.
StallReleaseOnceMore ==
    /\ pc[Scheduler] = "reconcile"
    /\ \E s \in stalled :
         /\ s[2] <= MaxStallRetries
         /\ Overwrite({s[1]}, "idle")
         /\ at' = [at EXCEPT ![Scheduler] = s[1]]
    /\ Goto(Scheduler, "stall.count")
    /\ UNCHANGED <<stallRetries, activity, spent, letters, server,
                   tries, todo, took, verdict>>

\* end_tick: the guard is released, the stalled worker is not stopped.
StallRelease ==
    /\ pc[Scheduler] = "reconcile"
    /\ \E s \in stalled :
         /\ s[2] < MaxStallRetries
         /\ Overwrite({s[1]}, "idle")
         /\ at' = [at EXCEPT ![Scheduler] = s[1]]
    /\ Goto(Scheduler, "stall.count")
    /\ UNCHANGED <<stallRetries, activity, spent, letters, server,
                   tries, todo, took, verdict>>

\* stall_retries = the value read + 1.
StallCount ==
    /\ pc[Scheduler] = "stall.count"
    /\ \E s \in stalled :
         /\ s[1] = at[Scheduler]
         /\ stallRetries' = [stallRetries EXCEPT ![s[1]] = s[2] + 1]
         /\ stalled' = stalled \ {s}
         /\ NextStalled(stalled \ {s})
    /\ at' = [at EXCEPT ![Scheduler] = NoAgent]
    /\ UNCHANGED <<status, activity, spent, lost, letters, up, registered, stranded,
                   tries, todo, took, verdict>>

-----------------------------------------------------------------------------
(* The operator, crashes and restarts.                                     *)

\* Unconditional UPDATEs, from a route or a command.
OperatorWrites(a, s) ==
    /\ "operator" \in Environment
    /\ Overwrite({a}, s)
    /\ UNCHANGED <<stallRetries, activity, spent, letters, worker, server>>

Pause(a) == OperatorWrites(a, "paused")
Resume(a) == OperatorWrites(a, "idle")
Recover(a) == OperatorWrites(a, "idle")
Delete(a) == OperatorWrites(a, "archived")

\* The server dies with its daemon threads; the rows stay as they are.
Crash ==
    /\ "crash" \in Environment
    /\ up
    /\ up' = FALSE
    /\ stalled' = {}
    /\ registered' = {}
    /\ Retire(ServerWorkers)
    /\ UNCHANGED <<row, letters, stranded>>

\* A command-line process is killed.
CliDies(w) ==
    /\ "crash" \in Environment
    /\ w \in CliRuns /\ pc[w] # "idle"
    /\ Strand(w)
    /\ UNCHANGED <<row, letters, up, stalled, registered>>

\* The agents `serve` registers with the scheduler as it starts.
Registrable(rows) == {a \in Scheduled : rows[a] \notin {"archived", "error"}}

\* Variant: the server comes back and trusts the rows it finds.
RestartWithoutSweep ==
    /\ ~up
    /\ up' = TRUE
    /\ registered' = Registrable(status)
    /\ UNCHANGED <<row, letters, worker, stalled, stranded>>

\* The server comes back and sweeps the rows it finds "running".
Restart ==
    /\ ~up
    /\ up' = TRUE
    /\ Sweep
    /\ registered' = Registrable(status')
    /\ UNCHANGED <<stallRetries, activity, spent, letters, worker, stalled, stranded>>

-----------------------------------------------------------------------------

\* What a worker does by itself once a tick was asked for, agent.run excepted.
Step(w) ==
    \/ Unflag(w) \/ StoreMessage(w) \/ CliBuild(w)
    \/ StartTick(w) \/ StartTickRefused(w) \/ Enter(w) \/ Prepare(w)
    \/ TakeMessages(w) \/ MarkDelivered(w) \/ CallAgent(w)
    \/ EndTick(w) \/ Flag(w) \/ Spend(w) \/ Answer(w)
    \/ CheckBudget(w) \/ Exceed(w) \/ Abort(w)

AgentEnds(w) == AgentReturns(w) \/ AgentRaises(w)

Stalls == Reconcile \/ StallExhausted \/ StallRelease \/ StallCount

Next ==
    \/ \E w \in Workers :
         \/ Step(w) \/ AgentEnds(w) \/ AttemptFailsEarly(w) \/ Raises(w)
         \/ CliDies(w)
         \/ \E a \in Agents : RunRoute(w, a) \/ CliOpen(w, a)
         \/ \E m \in Messages : MessageRoute(w, m)
    \/ \E a \in Agents :
         \/ SchedulerCheck(a) \/ TimeoutElapses(a)
         \/ Pause(a) \/ Resume(a) \/ Recover(a) \/ Delete(a)
    \/ \E m \in Messages : QueueMessage(m)
    \/ Stalls \/ CliCommand \/ Crash \/ Restart

Spec == Init /\ [][Next]_vars

\* Threads get scheduled, time passes, and the scheduler's loop comes round to
\* every due agent and to reconcile.  Nothing forces a user to act or
\* agent.run to come back.
Fairness ==
    /\ \A w \in Workers : WF_vars(Step(w))
    /\ \A a \in Agents : WF_vars(TimeoutElapses(a)) /\ SF_vars(SchedulerCheck(a))
    /\ SF_vars(Reconcile)
    /\ WF_vars(StallExhausted) /\ WF_vars(StallRelease) /\ WF_vars(StallCount)
    /\ WF_vars(Restart)

FairSpec == Spec /\ Fairness

\* Engines answer, or time out.
EnginesAnswer == \A w \in Workers : WF_vars(AgentEnds(w))

PromptSpec == FairSpec /\ EnginesAnswer

=============================================================================
