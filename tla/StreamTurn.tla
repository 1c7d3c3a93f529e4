----------------------------- MODULE StreamTurn -----------------------------
(***************************************************************************)
(* A managed agent's streaming turn: POST /messages with stream=true and   *)
(* _stream_managed_agent of src/edith/server/agent_manager_routes.py.      *)
(*                                                                         *)
(* Every turn is a request of its own, for one agent.  It stores the       *)
(* user's message, reads the conversation, marks the message delivered and *)
(* then streams: an ordinary turn from the engine itself, with tool calls, *)
(* a deep-research turn from an agent that runs in a thread and reports    *)
(* through a queue.  The turns share the event loop: code between two      *)
(* yields runs alone, and so does a tool.  Nothing holds the tick guard: a *)
(* tick of the agent, in a thread, may take the messages, too.             *)
(*                                                                         *)
(* A reply is counted in pieces (chunks or words) and calls of tools.  The *)
(* client may go away wherever the generator is suspended.                 *)
(***************************************************************************)
EXTENDS Naturals, SequencesExt

CONSTANTS Turns,        \* streaming requests
          Deep,         \* those of a deep-research agent that has its tools
          MaxRounds,    \* max_turns of the agent's configuration
          MaxPieces,    \* bound: pieces of a reply
          MaxCalls      \* bound: tool calls of a round or of a deep turn

ASSUME TurnsAssumption ==
  /\ Deep \subseteq Turns
  /\ MaxRounds \in Nat \ {0} /\ MaxPieces \in Nat \ {0} /\ MaxCalls \in Nat

None == "none"
Tick == "tick"
Nothing == [pieces |-> 0, calls |-> 0]

VARIABLES
  rows,                 \* agent_messages, oldest first
  status,               \* of each turn's message
  loop,                 \* who runs on the event loop and does not yield
  pc, prompt, round,
  kept,                 \* persist_state, or what a deep turn has collected
  collected, part,      \* pieces of the rounds before, and of this one
  todo,                 \* calls of this round still to make
  worker, events,       \* the deep turn's thread and its queue
  tick,                 \* the messages a tick has listed
  answering,            \* history: who was given each message to answer
  shown, ran            \* history: what the client got, the calls that ran

table == <<rows, status>>
stream == <<kept, collected, part, todo, round>>
deep == <<worker, events>>
record == <<answering, shown, ran>>
vars == <<table, loop, pc, prompt, stream, deep, tick, record>>

Init ==
  /\ rows = <<>> /\ status = [t \in Turns |-> "unsent"]
  /\ loop = None
  /\ pc = [t \in Turns |-> "start"] /\ prompt = [t \in Turns |-> <<>>]
  /\ round = [t \in Turns |-> 0]
  /\ kept = [t \in Turns |-> Nothing]
  /\ collected = [t \in Turns |-> 0] /\ part = [t \in Turns |-> 0]
  /\ todo = [t \in Turns |-> 0]
  /\ worker = [t \in Turns |-> "none"] /\ events = [t \in Turns |-> <<>>]
  /\ tick = {}
  /\ answering = [t \in Turns |-> {}]
  /\ shown = [t \in Turns |-> 0] /\ ran = [t \in Turns |-> 0]

Goto(t, l) == pc' = [pc EXCEPT ![t] = l]
Add(f, t) == [f EXCEPT ![t] = @ + 1]

\* The generator goes on when nobody else is on the loop.
At(t, l) == pc[t] = l /\ loop = None

Asked(t) == [from |-> "user", of |-> t, pieces |-> 0, calls |-> 0]
Reply(t, r) == [from |-> "agent", of |-> t, pieces |-> r.pieces, calls |-> r.calls]

-----------------------------------------------------------------------------
(* The request, up to its streaming response                               *)

Post(t) ==
  /\ At(t, "start")
  /\ rows' = Append(rows, Asked(t))
  /\ status' = [status EXCEPT ![t] = "pending"]
  /\ loop' = t
  /\ Goto(t, "posted")
  /\ UNCHANGED <<prompt, stream, deep, tick, record>>

\* The conversation, its own message taken out and put at the end.
ReadHistory(t) ==
  /\ pc[t] = "posted"
  /\ \E i \in DOMAIN rows :
       /\ rows[i] = Asked(t)
       /\ prompt' = [prompt EXCEPT ![t] = Append(RemoveAt(rows, i), Asked(t))]
  /\ Goto(t, "read")
  /\ UNCHANGED <<table, loop, stream, deep, tick, record>>

\* A deep turn starts its thread, and the generator waits for the queue.
MarkDelivered(t) ==
  /\ pc[t] = "read"
  /\ status' = [status EXCEPT ![t] = "delivered"]
  /\ answering' = [answering EXCEPT ![t] = @ \cup {t}]
  /\ loop' = None
  /\ IF t \in Deep
     THEN Goto(t, "poll") /\ worker' = [worker EXCEPT ![t] = "run"]
     ELSE Goto(t, "round") /\ UNCHANGED worker
  /\ UNCHANGED <<rows, prompt, stream, events, tick, shown, ran>>

-----------------------------------------------------------------------------
(* An ordinary turn (generate)                                             *)

Mirror(t, r) == kept' = [kept EXCEPT ![t] = r]

\* Variant: one round too many.
NextRoundBeyond(t) ==
  /\ At(t, "round")
  /\ IF round[t] <= MaxRounds
     THEN /\ round' = Add(round, t) /\ part' = [part EXCEPT ![t] = 0]
          /\ Goto(t, "engine")
     ELSE Goto(t, "final") /\ UNCHANGED <<round, part>>
  /\ UNCHANGED <<table, loop, prompt, kept, collected, todo, deep, tick, record>>

NextRound(t) ==
  /\ At(t, "round")
  /\ IF round[t] < MaxRounds
     THEN /\ round' = Add(round, t) /\ part' = [part EXCEPT ![t] = 0]
          /\ Goto(t, "engine")
     ELSE Goto(t, "final") /\ UNCHANGED <<round, part>>
  /\ UNCHANGED <<table, loop, prompt, kept, collected, todo, deep, tick, record>>

\* Variant: pieces are kept when the round ends only.
ChunkUnkept(t) ==
  /\ At(t, "engine") /\ collected[t] + part[t] < MaxPieces
  /\ part' = Add(part, t)
  /\ Goto(t, "chunk")
  /\ UNCHANGED <<table, loop, prompt, kept, collected, todo, round, deep, tick, record>>

\* The piece is kept before it is sent.
Chunk(t) ==
  /\ At(t, "engine") /\ collected[t] + part[t] < MaxPieces
  /\ part' = Add(part, t)
  /\ Mirror(t, [kept[t] EXCEPT !.pieces = collected[t] + part[t] + 1])
  /\ Goto(t, "chunk")
  /\ UNCHANGED <<table, loop, prompt, collected, todo, round, deep, tick, record>>

ChunkSent(t) ==
  /\ At(t, "chunk")
  /\ shown' = Add(shown, t)
  /\ Goto(t, "engine")
  /\ UNCHANGED <<table, loop, prompt, stream, deep, tick, answering, ran>>

\* The client is told the error; only the pieces before it are kept.
EngineFails(t) ==
  /\ At(t, "engine")
  /\ Goto(t, "background")
  /\ UNCHANGED <<table, loop, prompt, stream, deep, tick, record>>

RoundEnds(t) ==
  /\ collected' = [collected EXCEPT ![t] = @ + part[t]]
  /\ Mirror(t, [kept[t] EXCEPT !.pieces = collected'[t]])

EngineStops(t) ==
  /\ At(t, "engine")
  /\ RoundEnds(t)
  /\ Goto(t, "final")
  /\ UNCHANGED <<table, loop, prompt, part, todo, round, deep, tick, record>>

EngineCalls(t, n) ==
  /\ At(t, "engine")
  /\ todo' = [todo EXCEPT ![t] = n]
  /\ Goto(t, "call")
  /\ UNCHANGED <<table, loop, prompt, kept, collected, part, round, deep, tick, record>>

\* After tool_call_start is sent the tool runs on the event loop.
RunTool(t) ==
  /\ At(t, "call")
  /\ loop' = t
  /\ Goto(t, "tool")
  /\ UNCHANGED <<table, prompt, stream, deep, tick, record>>

\* Variant: the tool does not give the event loop back.
ToolReturnsHolding(t) ==
  /\ pc[t] = "tool"
  /\ ran' = Add(ran, t)
  /\ Mirror(t, [kept[t] EXCEPT !.calls = @ + 1])
  /\ todo' = [todo EXCEPT ![t] = @ - 1]
  /\ Goto(t, "called")
  /\ UNCHANGED <<table, loop, prompt, collected, part, round, deep, tick, answering, shown>>

\* Whether it succeeds or raises; then tool_call_end is sent.
ToolReturns(t) ==
  /\ pc[t] = "tool"
  /\ ran' = Add(ran, t)
  /\ Mirror(t, [kept[t] EXCEPT !.calls = @ + 1])
  /\ todo' = [todo EXCEPT ![t] = @ - 1]
  /\ loop' = None
  /\ Goto(t, "called")
  /\ UNCHANGED <<table, prompt, collected, part, round, deep, tick, answering, shown>>

Called(t) ==
  /\ At(t, "called")
  /\ IF todo[t] > 0
     THEN Goto(t, "call") /\ UNCHANGED <<kept, collected>>
     ELSE Goto(t, "round") /\ RoundEnds(t)
  /\ UNCHANGED <<table, loop, prompt, part, todo, round, deep, tick, record>>

Final(t) ==
  /\ At(t, "final")
  /\ Goto(t, "background")
  /\ UNCHANGED <<table, loop, prompt, stream, deep, tick, record>>

\* _persist_final runs once the response is over, in a thread of its own; a
\* reply without a piece is not stored, one that cannot be is only logged.
Persist(t) ==
  /\ pc[t] = "background"
  /\ \/ /\ kept[t].pieces > 0
        /\ rows' = Append(rows, Reply(t, kept[t])) /\ Goto(t, "over")
     \/ kept[t].pieces > 0 /\ UNCHANGED rows /\ Goto(t, "failed")
     \/ kept[t].pieces = 0 /\ UNCHANGED rows /\ Goto(t, "over")
  /\ UNCHANGED <<status, loop, prompt, stream, deep, tick, record>>

-----------------------------------------------------------------------------
(* A deep-research turn (generate_deep_research)                           *)

Tell(t, e) == events' = [events EXCEPT ![t] = Append(@, e)]

WorkerCalls(t) ==
  /\ worker[t] = "run" /\ ran[t] < MaxCalls
  /\ ran' = Add(ran, t)
  /\ Tell(t, "tool")
  /\ UNCHANGED <<table, loop, pc, prompt, stream, worker, tick, answering, shown>>

\* With the result or with "Error: ..."; both are streamed and stored.
WorkerEnds(t) ==
  /\ worker[t] = "run"
  /\ worker' = [worker EXCEPT ![t] = "end"]
  /\ Tell(t, "done")
  /\ UNCHANGED <<table, loop, pc, prompt, stream, tick, record>>

Poll(t) ==
  /\ At(t, "poll") /\ events[t] # <<>>
  /\ events' = [events EXCEPT ![t] = Tail(@)]
  /\ IF Head(events[t]) = "tool"
     THEN Mirror(t, [kept[t] EXCEPT !.calls = @ + 1]) /\ Goto(t, "show")
     ELSE Mirror(t, [kept[t] EXCEPT !.pieces = MaxPieces]) /\ Goto(t, "words")
  /\ UNCHANGED <<table, loop, prompt, collected, part, todo, round, worker, tick, record>>

\* 600 s without an event: the thread goes on, for nobody.
PollTimesOut(t) ==
  /\ At(t, "poll") /\ events[t] = <<>>
  /\ Goto(t, "over")
  /\ UNCHANGED <<table, loop, prompt, stream, deep, tick, record>>

Show(t) ==
  /\ At(t, "show")
  /\ Goto(t, "poll")
  /\ UNCHANGED <<table, loop, prompt, stream, deep, tick, record>>

\* The reply is stored when its last word has been sent.
Word(t) ==
  /\ At(t, "words")
  /\ IF shown[t] < MaxPieces
     THEN shown' = Add(shown, t) /\ UNCHANGED <<rows, pc>>
     ELSE rows' = Append(rows, Reply(t, kept[t])) /\ Goto(t, "over") /\ UNCHANGED shown
  /\ UNCHANGED <<status, loop, prompt, stream, deep, tick, answering, ran>>

-----------------------------------------------------------------------------
(* The client and the tick                                                 *)

Suspended == {"engine", "chunk", "call", "called", "final"}
DeepSuspended == {"poll", "show", "words"}

\* The generator is cancelled where it is suspended; an ordinary turn has a
\* background task that runs all the same, a deep one has none.
Disconnect(t) ==
  /\ loop = None
  /\ \/ pc[t] \in Suspended /\ Goto(t, "background")
     \/ pc[t] \in DeepSuspended /\ Goto(t, "over")
  /\ UNCHANGED <<table, loop, prompt, stream, deep, tick, record>>

\* A tick of the agent, in whatever thread holds the guard (executor.py).
TickLists ==
  /\ tick = {}
  /\ tick' = {t \in Turns : status[t] = "pending"} /\ tick' # {}
  /\ UNCHANGED <<table, loop, pc, prompt, stream, deep, record>>

TickMarks ==
  /\ tick # {}
  /\ status' = [t \in Turns |-> IF t \in tick THEN "delivered" ELSE status[t]]
  /\ answering' = [t \in Turns |-> answering[t] \cup (IF t \in tick THEN {Tick} ELSE {})]
  /\ tick' = {}
  /\ UNCHANGED <<rows, loop, pc, prompt, stream, deep, shown, ran>>

Request(t) == Post(t) \/ ReadHistory(t) \/ MarkDelivered(t)
Stream(t) == \/ NextRound(t) \/ Chunk(t) \/ ChunkSent(t) \/ EngineFails(t)
             \/ EngineStops(t) \/ (\E n \in 1..MaxCalls : EngineCalls(t, n))
             \/ RunTool(t) \/ ToolReturns(t) \/ Called(t) \/ Final(t) \/ Persist(t)
Research(t) == Poll(t) \/ PollTimesOut(t) \/ Show(t) \/ Word(t)
Thread(t) == WorkerCalls(t) \/ WorkerEnds(t)

Next ==
  \/ \E t \in Turns : Request(t) \/ Stream(t) \/ Research(t) \/ Thread(t) \/ Disconnect(t)
  \/ TickLists \/ TickMarks

Spec == Init /\ [][Next]_vars

\* The loop is scheduled; engines answer or fail, tools return; threads run.
FairSpec == Spec /\ \A t \in Turns :
  /\ WF_vars(Request(t) \/ Stream(t) \/ Research(t))
  /\ WF_vars(Thread(t))
=============================================================================
