--------------------------- MODULE StreamTurnProps ---------------------------
(***************************************************************************)
(* What a streaming turn keeps of what it did, and for whom.               *)
(***************************************************************************)
EXTENDS StreamTurn

Labels == {"start", "posted", "read", "round", "engine", "chunk", "call", "tool",
           "called", "final", "background", "poll", "show", "words", "over", "failed"}

Row == [from : {"user", "agent"}, of : Turns, pieces : Nat, calls : Nat]

\* Rows, turns and their threads have the shapes the code gives them
\* (agent_manager_routes.py 615-1301).
TypeOK ==
  /\ rows \in Seq(Row)
  /\ status \in [Turns -> {"unsent", "pending", "delivered"}]
  /\ loop \in Turns \cup {None}
  /\ pc \in [Turns -> Labels]
  /\ prompt \in [Turns -> Seq(Row)]
  /\ round \in [Turns -> 0..MaxRounds]
  /\ kept \in [Turns -> [pieces : 0..MaxPieces, calls : Nat]]
  /\ collected \in [Turns -> 0..MaxPieces] /\ part \in [Turns -> 0..MaxPieces]
  /\ todo \in [Turns -> 0..MaxCalls]
  /\ worker \in [Turns -> {"none", "run", "end"}]
  /\ events \in [Turns -> Seq({"tool", "done"})]
  /\ tick \subseteq Turns
  /\ answering \in [Turns -> SUBSET (Turns \cup {Tick})]
  /\ shown \in [Turns -> 0..MaxPieces] /\ ran \in [Turns -> Nat]

\* Where the conversation holds a turn's replies.
Replies(t) == {i \in DOMAIN rows : rows[i].from = "agent" /\ rows[i].of = t}
Over(t) == pc[t] = "over"

\* Whenever an ordinary turn ends, by itself, by an error of the engine or
\* because the client has left, the conversation holds one reply with every
\* piece the client was shown and every tool that ran, unless there was no
\* piece at all; a deep-research turn that was not cut short stores the same,
\* and one that was stores nothing (agent_manager_routes.py 980-1019,
\* 1057-1075, 1226-1228, 1264-1275, 935-944).
WhatWasShownIsKept ==
  \A t \in Turns : Over(t) =>
    /\ \A i, j \in Replies(t) : i = j
    /\ t \notin Deep /\ shown[t] > 0 => Replies(t) # {}
    /\ \A i \in Replies(t) : rows[i].pieces >= shown[t] /\ rows[i].calls = ran[t]

\* Every streaming request comes to its end, though the turns take the event
\* loop from each other and tools run on it.
TurnsEnd == \A t \in Turns : pc[t] = "posted" ~> pc[t] \in {"over", "failed"}

-----------------------------------------------------------------------------
(* What the code says of itself and does not keep                          *)

\* "Update the shared persist state so mid-stream disconnects still capture
\* already-executed tools" (agent_manager_routes.py 1226-1227): not when the
\* reply has no text yet, since _persist_final then stores nothing (994).
ToolsAreKept ==
  \A t \in Turns \ Deep : Over(t) /\ ran[t] > 0 => Replies(t) # {}

\* "Persist ... so they survive reload" (937-938): not when the client leaves
\* a deep-research turn before its last word.
DeepIsKept ==
  \A t \in Deep : Over(t) /\ shown[t] > 0 => Replies(t) # {}

\* A message is answered once: not when a tick lists it between the request's
\* insert and its mark (executor.py 379-384 beside agent_manager_routes.py
\* 1741-1823, 674).
AnsweredOnce == \A t \in Turns : answering[t] \subseteq {t} \/ answering[t] \subseteq {Tick}
=============================================================================
