# E.D.I.T.H in TLA+

E.D.I.T.H (`src/edith`, about 150 000 lines of Python in 964 files) is a personal
assistant: a voice assistant with a web page and a phone, managed agents that run
in the background, an approval queue for what they propose to do, schedulers,
workflows, connectors that fill a knowledge store, and the chat server and command
line around them.  Two things make it hard.  Everything the server decides is kept
in a few SQLite databases that its threads **and other processes** (`edith agents
...`, `scheduler ...`, `deep-research-setup`, ...) write without transactions.  And
the voice assistant is half a dozen threads over one object of flags, most of which
are read without the lock that is taken to write them.  This directory models the
parts whose correctness depends on the order of those steps, checks them with TLC
and proves the most important results with TLAPS.

## 1. Inventory

| Component | State | Operations | Talks to | What is hard |
|---|---|---|---|---|
| Agent manager (`agents/manager.py`) | `managed_agents` rows (status, stall_retries, counters, last_activity_at), `agent_messages` | start_tick / end_tick, `_set_status`, send_message, mark_message_delivered, sweep on opening | everybody below | one column is state machine, lock and error flag at once |
| Agent executor (`agents/executor.py`, `errors.py`) | locals of a tick: attempt, messages, outcome | execute_tick, retries, `_finalize_tick` | manager, engine, event bus | end_tick and flag are separate statements; messages marked before use |
| Agent scheduler (`agents/scheduler.py`) | registered agents, next due times | `_check_due_agents`, `_reconcile` | manager, executor | works from stale snapshots; releases guards of ticks it cannot stop |
| Agent routes and CLI (`server/agent_manager_routes.py`, `cli/agent_cmd.py`, `cli/serve.py`) | threads, short-lived processes | run, messages (immediate, queued, streamed), pause, resume, recover, delete; sweep by every process | manager, executor | auto-recovery, handlers that end ticks they do not own |
| Approval store (`tools/approval_store.py`) | `pending_actions`, `permission_memory` | queue, update_status, expire, permissions | | unconditional updates |
| Approval tools and proactive agent (`tools/proactive_tools.py`, `agents/proactive_agent.py`), approval routes | locals of a run | propose, auto-approve, execute, notify, parse replies | store, channels | lists read once and used later; crashes between effect and mark |
| Task scheduler and operators (`scheduler/`, `operators/manager.py`) | `scheduled_tasks`, run log | poll, execute, pause, resume, cancel, activate | system.ask | rows read and replaced whole by several processes |
| Voice assistant (`main.py`, `interfaces/voice.py`, `core/state.py`, `interfaces/web/server.py`) | the flags awake, speaking, interrupt, running, phone_mode; the queue of texts to speak; state_lock, _mic_lock | type, listen, answer, interrupt, standby, shut down, wake, speak | brain, tools, phone, microphone, voices | flags written under a lock and read without it; one thread waits for another with the lock held |
| Question answering (`core/brain.py`) | CONVO_HISTORY, exchanges in memory | ask_edith: main model, local model, three fallbacks, support engine | engines, memory | one history for all threads; a failure between two halves of keeping an answer |
| Streaming turn (`server/agent_manager_routes.py`) | message rows, persist_state, the queue of a deep-research thread | stream a turn, run its tools, store the reply | manager, engine, Starlette | clients that leave between two pieces; tools on the event loop; no tick guard |
| Workflow engine (`workflow/`) | node outputs of one run | validate, stages, parallel nodes, loops, conditions | agents, tools | completion order, copies of outputs, double edges |
| Sync engine (`connectors/sync_engine.py`, `pipeline.py`, `store.py`, `server/connectors_router.py`) | checkpoint row, chunks, seen documents | connect, sync, ingest, checkpoint | the connector's service, knowledge store | what an error or a death in mid-sync loses; two syncs of one connector |
| Stream bridges (`server/stream_bridge.py`, `ws_bridge.py`) | none of their own | forward a stream | engine | |
| Phone link (`main.py` 147-176, `interfaces/web/server.py`) | command_buffer, connected phones | buffer, flush | brain | connection between look and append |
| Loop guard (`agents/loop_guard.py`) | call counters of one turn | check_call | agents | counters keyed by text |
| Sessions (`sessions/`, `server/session_store.py`) | sessions, messages | get_or_create, consolidate, decay | channels | unreachable, see section 8 |
| Audit log (`security/audit.py`) | hash chain | append, verify | | two writers |
| Event bus (`core/events.py`) | subscribers | publish, subscribe | most | one failing callback |
| A2A server (`a2a/server.py`) | tasks | send, cancel, get | agents | cancel against completion |
| Filters (`security/`), engines, memory, channels, connectors, learning, evals, telemetry, skills, speech, ... | their own | | | I/O, arithmetic over wall-clock time, text; see section 8 |

What makes each of the first ones correct:

* **Ticks.** One tick of an agent at a time as long as nobody else writes its
  row; a row that says `running` has a tick, unless an exception or a death took the
  tick away; a message gets into a tick, and into one only; a hung tick does not
  block its agent for ever.
* **Approvals.** Nothing is carried out that nobody approved; nothing is carried
  out twice; what the user decided stands; an item is proposed once; what a run
  approves itself is settled when the run is over.
* **Tasks.** A due task gets its turn; a one-time task runs once; a pause or a
  cancellation is not undone by the run it overtakes; an operator has one task.
* **Voice.** Who stops the voice lets it go again; what was stopped is not heard;
  every command is handled although one waits for the voice with the lock held.
* **Questions.** Every question gets an answer or an apology, an answer given is
  remembered once, the history stays bounded.
* **Streamed turns.** What the client was shown and what the tools did is in the
  conversation, however the turn ends; every turn ends.
* **Workflows.** A graph is rejected exactly if it has a cycle; a node runs once,
  after its predecessors, and reads the outputs the graph says whatever the threads
  do; all transforms of a run see the outputs in one order, that of collection.
* **Syncs.** No document is passed over unless a sync that had it in hand failed;
  the count shown is the number of chunks stored.

## 2. Modules

| Module | What it is |
|---|---|
| `TickLock` | abstract specification: per agent, the set of workers inside a tick, and whether the lock was broken |
| `AgentTick` | manager, executor, scheduler, routes and command line around the rows of `managed_agents` and `agent_messages` |
| `AgentTickProps` | its properties, the refinement mapping to `TickLock`, statements that are refuted |
| `AgentTick_proofs` | TLAPS proofs about it |
| `Approvals` | approval store, proactive agent, other callers of the tools, user |
| `ApprovalsProps`, `Approvals_proofs` | its properties and proofs |
| `TaskScheduler` | the table of scheduled tasks, poll loops, commands of several processes, operators |
| `TaskSchedulerProps`, `TaskScheduler_proofs` | its properties and proofs |
| `Assistant`, `AssistantProps`, `Assistant_proofs` | the voice assistant's threads, flags and locks |
| `Brain`, `BrainProps`, `Brain_proofs` | callers of ask_edith over one history |
| `StreamTurn`, `StreamTurnProps`, `StreamTurn_proofs` | streaming turns on one event loop, beside the agent's ticks |
| `DagRun` | abstract specification: the run of a dependency graph, without stages, copies or pools |
| `Workflow`, `WorkflowProps`, `Workflow_proofs` | validate, execution_stages and the staged run; the refinement mapping to `DagRun` |
| `ConnectorSync`, `ConnectorSyncProps`, `ConnectorSync_proofs` | syncs of one connector, its checkpoint and the chunks of its documents |
| `MC...` | instances for TLC |

The families share no state but in two places, and there each says what it takes
from the other: `StreamTurn` has the two statements of a tick that touch messages
(`TickLists`, `TickMarks`), and `Assistant` asks `Brain` as one step that answers,
has nothing to say, or raises (`Answer`).  Otherwise a tick may call the approval
tools or schedule a task, but each keeps its own database, and what connects them is
the free choice an agent makes.

Operators whose comment begins with "Variant" (`StartTickUnconditional`, ...)
are not part of any specification: each is the definition that follows it with a
plausible mistake in it, and substituting it must break a property.

### AgentTick

A worker (the scheduler thread, a thread started by a route, a command-line
process) has a program counter that names the next call it makes; `at` is its
agent, `tries`, `todo`, `took`, `verdict` its local variables.  One action is one
call of `AgentManager`, which holds the manager's lock and is one SQL statement,
hence atomic for threads and processes alike; whatever happens between two calls
interleaves.  The correspondence, in the order of a tick:

| Action | Code |
|---|---|
| `SchedulerCheck`, `RunRoute`, `MessageRoute`, `CliOpen`/`CliBuild` | how a tick is asked for: due check, POST /run, POST /messages in immediate mode, `agents run`/`ask` (the process opens the database, and so sweeps it, twice) |
| `Unflag` | the routes' recovery of an agent they saw in an error state |
| `StartTick`, `StartTickRefused`, `Enter` | the compare-and-set; the 409 or the skipped tick; `lock_already_held` |
| `Prepare` | from the guard to the `try`: get_agent, publish, subscribe |
| `TakeMessages`, `MarkDelivered`, `CallAgent` | `_invoke_agent` up to `agent.run` |
| `AgentReturns`, `AgentRaises`, `AttemptFailsEarly` | `agent.run` comes back or raises; classify_error; retries |
| `EndTick`, `Flag`, `Spend`, `Answer`, `CheckBudget`, `Exceed` | `_finalize_tick`, statement by statement |
| `Raises`, `Abort` | an exception that leaves execute_tick, before the `try` or in `_finalize_tick`; the handler of route threads, which ends the tick and flags the agent. The scheduler logs the exception and goes on, a command prints it and exits: the row stays `running` |
| `Reconcile`, `StallExhausted`, `StallRelease`, `StallCount` | `_reconcile`, from a snapshot of the rows |
| `Crash`, `Restart`, `CliDies`, `CliCommand` | processes that end, `serve` starting, any command's sweep |

Route handlers are `async def` without an `await`, so between their first
statement and the thread they start no other handler runs (`EventLoopFree`);
threads and processes may.  `lost[a]` is a history variable: the row of `a` was
rewritten by somebody else while a worker was inside a tick.  It is reset by the
first tick that starts with no other inside.  `stranded` is another: the agents with
a tick that its worker left without ending it (`Strand`: an exception in the scheduler
or a command, the death of a command) and after which no other has started.

`Environment` switches on what happens around the ticks, so that each run can ask
one question; the theorems hold for every choice.  `activity` is an assumption on
code outside the model: agents in this tree publish tool and inference events,
but with the managed agent's id only where a tool or engine is given it.

### Approvals

Every method of `ApprovalStore` is one statement and a commit.  An executor is a
run of the proactive agent (`Runs`) or another agent that was given the approval
tools (`Callers`).  A run goes through `Collect` (expire, read the seen ids, let
the model propose), for each proposal `Route` (read the permission), `Queue`,
perhaps `AutoApprove`, then `ReadApproved`, for each action `Perform` and
`MarkExecuted`, `Finish`, and with a notification channel `WriteBack`.  The user
presses buttons at any time (`Press`), or replies (`Reply`, `DecideNext`,
`Remember`).  An action is a member of a small set with a tier, a permission key
and the item it is about; its effect is a counter.  `grants`, `consent` and
`effects` are history.

### TaskScheduler

An actor is a poll loop or a client (a thread that calls a scheduler tool, a
`scheduler` command, a caller of `OperatorManager`); `ProcessOf` says which of
them share a `TaskScheduler` object and so its lock.  What the lock covers takes
two steps, the read (`ReadBack`, `ReadRow`) and the write (`Complete`,
`WriteRow`): an actor between the two is `Writing`, and the others of his process
wait (`LockFree`), those of other processes do not.  A row is its status, whether
its next run is unset, to come or due, whether it has run, and the operator its
metadata name.  `TimePasses` makes a run due at any time, so the date given to a
one-time task may have passed already.

| Action | Code |
|---|---|
| `Poll`, `Start`, `EndBatch` | `_poll_loop`: the due list, one task after the other, the end of the list |
| `AskReturns`, `ReadBack`, `Complete` | `_execute_task` after `system.ask`, which returns or raises (both are logged as a run) |
| `PollError` | the `except Exception` around the list |
| `CreateTask`; `ReadRow`, `WriteRow`; `RunTask` | create; pause, resume (from any status, as in the code) and cancel; `scheduler run-task` |
| `Activate`, `ActivateCreate`, `ActivateSave` | `OperatorManager.activate`; `deactivate`, `pause` and `resume` are commands for the operator's task |
| `Dies` | the process of an actor ends, wherever its actors are |

`starts` counts the executions of a one-time task.  `foreign[x]` is set when
somebody who does not share x's lock writes the row x is about to write, and
`race[t]` records what the code has no protection against: a command written from
such a copy, two poll loops with one task in hand, a completion lost to an exception or
a death, and `run-task`.  They are how the properties say *unless*, and each is
needed: with any one of them left out of `race`, `tasks` finds
`OnceTwiceNeedsRace` violated.  (A completion written from a stale copy is none: it
says that the task has run all the same.)

In this tree only `scheduler start` runs a poll loop; that it does so without a
system, so that each run is a dry run that is completed like any other, changes
none of the steps.

### Assistant

The threads are the AI loop, the speech worker, the wake-word loop and one thread
per typed message; each has a program counter.  A step ends where another thread
could see a difference: at each flag read or written, each entry and exit of a lock,
each operation on the queue.  A text to speak is named by the input that caused it
(an input causes one at most), so that what was in the queue when somebody said stop
can be told from what came later.  The clock is two facts: whether the last activity
is less than 45 s old, and that a wait of 3 s may run out, which it can only while
the worker turns a text into sound, for while it plays it looks at the flag every
50 ms.

| Action | Code |
|---|---|
| `Type`, `Rouse`, `Hush`, `Act` | a typed message: its thread starts; awake; stop the voice; which command |
| `CutOn`, `Drain`, `FellSilent`/`GivesUp`, `CutOff` | stopping the voice, by a typed message (which keeps state_lock throughout), by a voice (`BargeIn`) and by a spoken stop (`SpokenStop`) |
| `Standby`/`Rest`, `Shutdown`/`Close`, `Ask`/`Answer`, `Reply` | the commands, typed or spoken; the thread that speaks a reply |
| `StartListening`, `TakeMic`, `Hear`, `HearNothing`, `Silence`, `Understand`, `Attend`, `Obey`, `LoopEnds` | the AI loop, statement by statement |
| `WakeListens`, `NoWakeWord`, `WakeWord`, `WakeButton` | the wake-word loop, the button |
| `TakeText`, `LookAtFlag`, `Begin`, `Route`, `Made`, `NoSound`, `Play`, `PlayEnds`, `EndSpeech` | the speech worker and its voices |
| `Change`, `TimePasses` | phone mode, the phone's connection, the network; 45 s |

`cut` is what a stop found queued or in the worker's hand, `silenced` what of it was
still there when the stop ended, `excused` the text in hand when the wait ended.

### Brain

A caller goes through ask_edith; each call of an engine and each section of
brain_lock is a step.  Texts are abstracted to whose they are.  What an engine
returns (an answer, an unsure one, nothing, an exception) is a free choice, and
`StoreFails` is an exception of auto_remember between the reply's entry in the
history and the exchange's in memory.

### StreamTurn

Turns share the event loop: `loop` is the turn whose code runs between two yields,
and the others move only when it is free (`At`).  `Post`, `ReadHistory` and
`MarkDelivered` are one handler without an await that works on the database other
threads use; `NextRound` to `Final` are the generator of an ordinary turn, from yield
to yield; `Poll` to `Word` that of a deep-research turn, whose agent runs in a thread
(`WorkerCalls`, `WorkerEnds`) and reports through a queue.  `Disconnect` is Starlette:
it cancels the generator where it is suspended and runs the background task of the
response all the same (the code's own comment, routes 980-983, says so).  `TickLists`
and `TickMarks` are the statements of `_invoke_agent` that read and mark messages.
Messages are in order of `created_at`, which is the order of their insertion.

### Workflow and DagRun

Any graph over the nodes with up to `MaxEdges` edges between any two is an initial
state: add_edge refuses none.  `Root`, `Look` and `Return` are the depth-first search
of validate, with the order of nodes and neighbours free; `Peel` is the loop of
execution_stages as a recursive function; `Begin`, `StartNode`, `NodeReturns`,
`Collect` and `StageEnds` are a stage, alone or in a pool of max_parallel threads.  `reads`
are the nodes whose outputs went into a prompt (in the order of the edges) or a
condition, `joined` the sequence of those that a transform joined, which is the order
of the dictionary and so of collection (`order`): after a parallel stage, of completion.
`snapshot` is the copy of the dictionary that the threads of a stage are given.  `DagRun` has neither
stages nor pools: a node may start once its predecessors came to a good end.

### ConnectorSync

A sync is a thread of the server or a command in a process of its own.  A document
is so many chunks; each chunk is a commit.  A time matters only for being before or
after last_sync, so the checkpoint keeps the set of documents older than it: saving
it makes everything the service holds older, also what came after the list was asked
for.  `Check` and `Launch` are `_start_sync`, between which another request may come;
`Open` reads which documents count as seen; `Fail` and `SaveError` are the except
clause, `Raise` an exception outside it, `ServerDies` and `CommandDies` deaths.
`excused` are the documents in hand of a sync that failed or died, and those that
arrived between a sync's list and its checkpoint.

## 3. Runs

| Run | Instance | Shows |
|---|---|---|
| `guard` | one agent, scheduler, one route thread, one CLI process, every environment kind | the guard is lost only by a rewrite (`GuardUnlessOverwritten`), refinement of `TickLock` |
| `delivery` | one message, scheduler, a route thread, a command, sweeps, exceptions, crashes, engines that answer | a second attempt has the message only with the guard lost; a pending message is delivered |
| `recovery` | a scheduled agent, a route thread, a command; hangs, failures, exceptions, crashes, sweeps | a `running` row without a tick is a stranded one (`NoZombieGuard`); `HungTickReleased` without assuming that engines answer, `GuardIsReleased` assuming it |
| `approvals` | one run that may die, two actions about one item under one permission key | answers are kept, items proposed once, no action carried out twice |
| `approvals_callers` | one run that notifies, and one other agent | consent; what a run approves it settles |
| `tasks` | a one-time task, two poll loops, a tool in the first one's process, another process, one fault | executed twice only after a race; the lock keeps copies current |
| `operators` | an operator, another recurring task, one poll loop, commands of another process, one fault | commands stand; a due task gets its turn |
| `sync` | a server thread and a command, two documents of two chunks, one fault, a connector that filters by date | nothing lost but by a failure; the count is the number of chunks; what arrives is indexed if syncs keep coming |
| `workflow` | every graph of three nodes of three types, up to two edges between two, two threads | cycles, stages, which outputs a node reads, refinement of `DagRun`; a run ends if its nodes do |
| `assistant` | one typed message beside the voice, three inputs or changes | the interrupt flag is released, stops silence, commands are handled |
| `brain` | two callers, all engines, history of three entries, one failure to store | history bounded, answers remembered once, questions come back |
| `stream` | an ordinary and a deep turn, two rounds, two pieces, two calls, ticks, disconnects | what was shown is kept; turns end |

**Bounds.** `MaxRetries = 2` gives one retry (the code's 3 adds another lap of the
same loop); `MaxStallRetries = 1` gives one release and one exhaustion;
`TokenLimit = 1` with `SpentBound` one above it distinguishes under, at and over;
`served` stops at 2 (once or more often); `MaxGrants` stops the user from
approving an action for ever.  Two workers that want one agent are enough for
every overlap of two; `guard` has three (thread, scheduler, process).  Two actions
that share an item and a permission key are enough for an action to be decided
because of another.  `MaxFaults = 1` lets one exception or death happen at any
place; the ids of new rows (`FreeIds`) run out, and `IdsLeft` keeps a client from
beginning what it could not finish; `starts` stops at 2.  Two poll loops and two
clients, with and without a common process, are every pair that can meet on a
row.  Agents do not share state, so one suffices; the proofs are
for any number.

`MaxEvents = 3` lets a stop meet a text that is being spoken and one that is queued,
caused by different threads, or the phone and the network change under a text.  One
typed message suffices for every pair of threads that can meet: a second one waits for
state_lock as the wake word does.  Two callers meet in every way in one history of
three entries, which a question of each, with one that failed to be stored, overflows.
A model less than the code's three OpenRouter models leaves one that is followed by
another and one that is last.  Two rounds, two pieces and two calls are a round with
tools and one without, a first piece and a last one, a call after a call.  Three nodes
with double edges contain a chain, a fork, a join, a node met again on a second path,
and cycles of one to three.  Two chunks
can be cut in two; two documents fill a batch, and the safety of more, with checkpoints
between the batches of one sync, is proved.  `approvals_overlap.cfg` has two
overlapping runs of the proactive agent; it passes and is run by hand.

Deadlock is checked where something always goes on, in the runs of AgentTick,
Approvals, TaskScheduler and Workflow (where a run that is over `Rests`).  The others
stop, and rightly: threads of typed messages, callers and turns end, documents and
faults run out.  That nobody stops too early is what their liveness properties say.

## 4. Fairness

`Fairness` of AgentTick: a thread that can make its next call makes it (weak
fairness of `Step`, the operating system's); the scheduler's loop comes round to
every due agent and to `_reconcile` although ticks keep switching these on and
off (strong fairness: the loop polls for ever, and ticks of other workers end);
time passes; a dead server is started again.  Nothing obliges a user to act, an
exception to occur, or `agent.run` to come back: that engines answer is a separate
assumption, `EnginesAnswer`, part of `PromptSpec` only and the hypothesis of
`GuardIsReleased`.

`PendingGetsDelivered` speaks of agents the scheduler fires (`registered`) whose row no
stranded tick holds, of exceptions that come to an end (`ExceptionsEnd`), with ticks
that fail in the agent but not before it (`misconfig`), and without operators that pause
the agent: with those a message may indeed wait for ever.
`HungTickReleased` speaks of ticks that showed activity, stranded ones among them; a
tick run by the scheduler thread itself hangs the detector with it, so the hypothesis is
that the agents *this thread* runs come back (`WF_vars(AgentEnds(Scheduler))`), and no
others.  `GuardIsReleased` excepts stranded ticks: one without activity waits for a
restart or a command's sweep, which nothing obliges anybody to run.

`Fairness` of TaskScheduler: a poll loop makes its next step (`system.ask` comes
back: a poll loop that waits for it for ever executes nothing more, and the code
has no timeout there); it polls again and again, and it gets a lock that others
take and release again and again (strong fairness); a command that has read its
row writes it.  Faults are finitely many; nothing obliges anybody to give
commands.

`Fairness` of Approvals (used by a configuration outside the list, section 7): a run
proceeds and comes round.

`FairSpec` of Assistant: the speech worker proceeds (weak fairness; every voice has a
time-out or ends with its text), and so does every thread that handles a command, with
strong fairness because state_lock and the flags come and go under it: Python's lock is
granted sooner or later to who waits for it.  Nobody has to type or speak, the wake loop
need not hear anything, and nothing obliges phone or network to change.

`FairSpec` of Brain: a thread that runs is scheduled, and every client is built with a
time-out (`brain.py` 38-115), so that a call comes back or raises.

`FairSpec` of StreamTurn: the event loop is scheduled, an engine gives another piece,
ends or fails, a tool returns.  A tool that does not return stops every turn (section 7
has no entry for it since nothing in the code says otherwise).

`PromptSpec` of Workflow: the pool's threads and the main thread are scheduled, and, an
assumption of its own, `NodesReturn`: agents and tools come back.  Without it a run does
not end (section 7).

`FairSpec` of ConnectorSync: a sync under way proceeds.  That somebody asks for syncs
again and again is the hypothesis of `IndexedIfSynced` and not assumed.

## 5. Proofs

`tlapm` proves, for every value of the constants under the assumptions the
modules name:

| Theorem | Argument |
|---|---|
| `AgentTick_proofs!TypeCorrect` | `TypeInv` = `TypeOK` and `StallInv`: the snapshot `stalled` has one entry per agent, and the one being counted is below the limit. Without it `stallRetries <= MaxStallRetries` is not inductive. |
| `GuardHolds`, `NoZombies`, `TickLockImplemented` | every step has one of five shapes (`Shape`: nothing about holders or rows changes; a worker enters; some leave; an overwrite; a death and sweep), shown once per action (`NextShape`); each result is then a short case split over shapes; for `NoZombies`, whoever leaves a row `running` behind strands it (`StrandVanishes`) |
| `NoRedelivery` | `MailInv`: a message that is pending was served by no attempt unless a worker is between reading and marking it, and with the guard intact that worker is the only one |
| `Approvals_proofs!TypeCorrect` | inductive as it stands |
| `ConsentNeeded` | `ConsentInv`: consent precedes the approval, the approval precedes the batch |
| `AnswersAreKept` | `RowInv` (an id is free until the one run that holds it queues it) and `NotifyInv` (only with a channel is there a write-back), and how each step moves a status (`StatusMoves`) |
| `ActedOnAtMostOnce` | `RowInv` and `OnceInv`: one run answers for an action, and until it reads what to execute the action was not carried out |
| `OwnApprovalsAreSettled` | `SettledInv`: what a run approved itself was granted once at least, so whoever approves it again makes it twice; and what that one grant still approves is in the run's batch or in its hand |
| `NoItemResurfaces` | `NewItemsInv`: the rows about an item for which a run has still a proposal are the run's own. Under the hypothesis, stated in the theorem, of one run at a time and no other agent that queues; with two runs, or another agent, TLC finds it violated |
| `TaskScheduler_proofs!TypeCorrect` | inductive as it stands, because `TypeOK` says who has a task at hand |
| `LockKeepsCopiesCurrent` | `LockInv`: with `Mutex` (of the actors of one process one is `Writing`), since whoever replaces a row could otherwise overtake one who shares his lock. `LockKept` states once what a step of one actor must not do to the others. |
| `CommandsAreNotUndone` | from `LockInv`: a completion leaves the status its copy has, and the copy is current |
| `OnceTwiceOnlyAfterRace` | `OnceInv`: as long as there was no race a one-time task is `Orderly` (one poll loop has it at most; what is on a list was not executed; what was executed is being recorded or is recorded; what is recorded has no next run) |
| `AssistantTypeOK` | `Typing`: with `Named` (whoever may yet speak knows of which input, and so does the worker), without which what is appended to the queue has no type |
| `AssistantInterruptIsHeld` | no step but the raising and the lowering of the flag changes it or ends an interruption (`Calm`, per action) |
| `AssistantSilencedUnlessSlipped` | `Accounted`: an input is answered by one text at most, so a text that a stop has met cannot be queued again behind it; and from the end of its wait until the flag falls a stop has excused what is in hand |
| `AssistantHeldToStop` | the safety part of `CommandsAreHandled`: no step but the raising and the lowering of the flag leaves the lock in other hands (`Calm` once more); the flag is raised only with the lock free, so no other typed message is stopping, and what the holder does until it falls asks for no lock |
| `SyncTypeOK` | `Typing`: only the server's threads are launched |
| `SyncNothingLostQuietly` | `Accounted`: what a sync skips has a chunk in the store, what was listed for it is in its hands, stored or excused, and a document stored in part has a sync at work on it or an excuse |
| `SyncTotalIsHonest` | `Counted`: without overlaps and faults the chunks in the store are those counted in the checkpoint and those the sync at work has stored; a sync stores only documents of which nothing was stored when it began, so each chunk is counted by one sync, once.  `Sums`: what the fold over the documents computes grows by what one document grows |
| `Workflow_proofs!TypeCorrect` | within `Inv`, the conjunction of the invariants below: that `stage` does not pass the number of nodes rests on no stage being empty, and that on the graph having been searched |
| `SearchIsRight` | `SearchInv`: each node on the stack is a successor of the one below it; what was visited and left the stack is closed under successors and lies on no cycle.  A neighbour met on the stack closes a cycle, and when every node has left the stack there is none |
| `StagesAreRight` | in a graph without cycles every set of nodes that is not empty has one without a predecessor in it, so each round of `Peel` takes some, and takes n in round k exactly if the longest path to n has k edges (`Ranked`, `PeelIs`); the degree left of n is the number of edges, doubles included, from nodes not yet taken |
| `InputsAreRight` | `RunInv`: the nodes of the stages before the one at work are done, the outputs copied are theirs, and what runs is of this stage; so what a node reads is on lower levels, whoever completes first. The copy is a prefix of the order of collection, which only grows (`PrefixStays`): hence one order for all transforms |
| `RunImplementsDagRun` | from `RunInv`, action by action: `StatusIs` and `OutcomeIs` say what each step does to the mapped variables; collecting an output and ending a stage are stutters |
| `PoolNeverBlocks` | the safety part of `RunEnds`, from `Inv`: a node of the stage that is not collected runs, waits or is done; what occupies the pool is of this stage too, and a pool has a thread, so if it waits either something of the stage runs or a thread is free for it |
| `TurnTypes` | what a turn holds agrees with where it is: with `Deep` turns apart, since only they have a thread and a queue |
| `ShownIsKept` | `TurnInv`, one turn at a time, and for each step what it leaves alone of the other turns (`Same`, `RowsFor`).  An ordinary turn keeps a piece before it shows it, and until its last step it has no reply.  The queue of a deep turn holds one event for each call the turn has not heard of, and then 'done': the calls it has kept when it stores its reply are therefore all that ran |
| `BrainTypeOK` | `Typing`: with `Going` (what is being kept came from an engine, a model that is asked is on the list, the failures of one caller are among those of all) |
| `BrainHistoryIsBounded` | `Bounded`: a question stands within the limit, and the length is at most `Limit + Cardinality(Kept) + faults`, where `Kept` is who has a reply in the history without a failure to store it: the bound of the property alone does not survive an append |
| `BrainRepliesAreRemembered` | `Remembered`: the positions of a caller's replies are one for being in `Kept` and one per failure at most; trimming maps positions injectively |

The assumptions are named in the modules that declare the constants and evaluated by
TLC in every run: `ConstantsAssumption`, `ApprovalsAssumption`, `TasksAssumption`,
`AssistantAssumption` (typed threads have names of their own, `MaxEvents` is a number),
`SyncAssumption` (batches and documents are not empty, documents are finitely many,
threads are not commands), `BrainAssumption` (finitely many callers, a limit and a list
of models that are not empty), `WorkflowAssumption` (finitely many nodes, a type and a
set of names for each, a pool that is not empty) and `TurnsAssumption` (at least one
round and one piece).  None of them says how many agents, messages, documents, nodes or
threads there are.

Several of these results need an induction, which is out of reach as the library states
it, with an operator as a parameter.  It is used in first-order form instead: a set of
numbers or of subsets that is not empty has a minimal element (`NatSetInduction`,
`MinimalSubset`, `SubsetInduction`, from the well-foundedness of strict inclusion among
finite sets), and the set is the one of the counterexamples.  The recursive functions
`Peel` and `LongestPath` are unfolded by lemmas of their own, and so is the fold of
`Sum`.

Each safety property and each refinement that a run checks is thereby stated by a
theorem too, `ItemsDoNotResurface` under the hypothesis above.  Only model-checked is
all liveness (`PendingGetsDelivered`, `HungTickReleased`, `GuardIsReleased`,
`DueGetsExecuted`, `IndexedIfSynced`, `RunEnds`, `CommandsAreHandled`,
`QuestionsReturn`, `TurnsEnd`): fairness and ENABLED are beyond the prover.

## 6. Plan

1. *Done:* AgentTick and TickLock, Approvals, TaskScheduler with operators; the voice
   assistant, questions, streamed turns, workflows and DagRun, syncs.
2. *Done:* the safety properties of all eight families and the two refinements.
3. The phone link and telemetry; the audit chain under two processes; stop and start of
   the agent and task schedulers; an abstract specification of the task table that
   TaskScheduler implements.
4. The loop guard against a reference definition; the event bus.

## 7. Disagreements found

What a comment, a doc or a test says and the code does not do.  Each has a
configuration that is run by hand (`tlc -config sweep.cfg MCAgentTick`):

| Configuration | Refutes | Against |
|---|---|---|
| `overlap` | `OneTickPerAgent`: the error flag of a finished tick lands on one that has started, and a third starts | `manager.py:272-275` |
| `processed` | `DeliveredIsProcessed`: a message marked delivered by an attempt that fails is not in the input of the retry | `agent_manager_routes.py:1746` |
| `sweep` | `SweepFindsOnlyZombies`: a command sweeps the guard of the server's live tick | `manager.py:142-143` |
| `archived` | `ArchivedNeverRuns`: POST /messages runs an archived agent | `agent_manager_routes.py:1389` |
| `budget` | `SchedulerKeepsBudget`: one more tick between end_tick and the budget check | `executor.py:563` |
| `stall_unseen` | `StalledTickReleased`: a tick that published no event is never found stalled | `scheduler.py:194` |
| `approvals_writeback` | `DecisionKept`: the run's write-back of 'pending' over the user's answer | `proactive_agent.py:19-20` |
| `approvals_twice` | `OneExecutionPerApproval`: two callers execute one approval | `approval_store.py:254` |
| `operator_twice` | `OneTaskPerOperator`: activating leaves an active task under a random id | `operators/manager.py:62, 107` |
| `sync_torn` | `ResumeCompletes`: a document cut off by a death is never completed | `gmail_imap.py:165-167` |
| `workflow_hangs` | `NodesTimeOut`: a future is asked with a time-out when it is done | `workflow/engine.py:33` |

The others are a configuration of the list with its properties replaced by one
statement, its specification by `Spec` where the statement is no liveness, and what else
is named:

| Configuration | With | Refutes | Against |
|---|---|---|---|
| `recovery` | | `GuardEndsWithTick`: an exception between start_tick and the `try` leaves the row of a scheduled tick, or a command's, `running` | `executor.py:104` |
| `archived` | | `PausedUntilResumed`: a pause is overwritten when the tick ends | `agent_manager_routes.py:1372` |
| `approvals_writeback` | `Actions = {x1, x2}`, `Notifies = FALSE` | `HighTierAlwaysAsked`: a rule learned from another action approves a high one | `approval_store.py:40` |
| | `Actions = {x1}`, `Callers = {c1}`, `Notifies = FALSE` | `DeniedIsNotPerformed`: denied after the list was read, carried out anyway | `proactive_agent.py:20` |
| | `Actions = {x1, x2}`, `Runs = {r1, r2}`, `Notifies = FALSE` | `ItemsDoNotResurface`, with overlapping runs | `approval_store.py:363-368` |
| | `FairSpec` | `ApprovedGetsExecuted`: runs execute only what they approved themselves | `proactive_agent.py:15` |
| `sync` | | `FailedBatchIsListedAgain`: what a failed batch held is older than last_sync | `sync_engine.py:85` |
| | `Threads = {s1, s2}` | `OneSyncThread`: two requests pass the check before either registers | `connectors_router.py:151` |
| `workflow_hangs` | | `ConditionsRoute`: nodes behind a false condition run | `workflow/types.py:43` |
| `assistant` | | `StopSilences`: a text taken and not yet announced, or still being made after 3 s, is heard | `main.py:230, 239` |
| | | `SpeakingIsHonest`: a local voice that fails off line leaves speaking up | `voice.py:268-270` |
| | | `LocalVoiceIsTried`: Edge's failure counts as success | `voice.py:292` |
| | | `ActsOnlyAwake`, `RecentStaysAwake`: standby while it listens; activity between the clock and the flag | `main.py:214, 253` |
| | `MaxEvents = 4` | `HeardSomewhere`: phone mode changes under a text that was not sent | `voice.py:139-156` |
| `brain` | | `FallbackSeesOwnQuestion`: it is sent somebody else's question last | `brain.py:670` |
| | | `TimeoutSkipsCloud`: the flag it looks at is never set | `brain.py:664` |
| | | `QuestionPostedOnce`: twice when the file's engine fails | `brain.py:541-546` |
| `stream` | | `ToolsAreKept`: a turn that ends before its first text stores no tool | `agent_manager_routes.py:1226` |
| | | `DeepIsKept`: a deep-research reply is stored after its last word, or not at all | `agent_manager_routes.py:937` |
| | | `AnsweredOnce`: a tick that has listed the message answers it, too | `executor.py:379-384` |

## 8. Not modelled

What an agent computes, prompts, traces and templates; the failure of `end_tick`
itself; the number of inference calls inside one attempt (an empty response that
is asked for again counts as the same attempt); channels, connectors, engines and
storage, which a tick sees as one call that returns or raises; learning, evals,
benchmarks, telemetry, analytics and mining, which are offline; security filters,
which are functions over text, and the rate limiter, which is arithmetic over
wall-clock time.

Sessions have no state to model: `get_or_create` calls a method that waits for the lock
it holds and passes an argument that method does not take (`session.py` 145-185, 355),
and the constructor of `session_store` raises NameError.  `SyncScheduler` is constructed
nowhere, `_clap_loop` started nowhere, the A2A server mounted nowhere.  Of the voice
assistant kill mode, telemetry and the phone's command buffer are left out, and the
speech worker's own time-out flag, which no exception reaches.  Of a streaming turn the
death of the server (its threads and streams end, the rows stay) and the deep-research
tools kept on `app_state`, which every request of such an agent builds anew.  Of a sync
its cursor, which is written back as it was read, and the state shown to the status route.
The remaining rows of section 1 are in the plan.
