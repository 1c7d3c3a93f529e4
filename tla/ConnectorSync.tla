--------------------------- MODULE ConnectorSync ---------------------------
(***************************************************************************)
(* One connector's documents on their way into the knowledge store:        *)
(* SyncEngine.sync with its checkpoint row (connectors/sync_engine.py),    *)
(* IngestionPipeline.ingest and KnowledgeStore.store (pipeline.py,         *)
(* store.py), the threads POST /connect and POST /sync start               *)
(* (server/connectors_router.py) and commands that sync in processes of    *)
(* their own (cli/deep_research_setup_cmd.py).                             *)
(*                                                                         *)
(* The only thing that matters about a time is whether a document is older *)
(* than last_sync, so the checkpoint keeps the set of those that are.  The *)
(* cursor is not modelled: sync writes back the one it read, so it stays   *)
(* None.                                                                   *)
(***************************************************************************)
EXTENDS Naturals, FiniteSets

CONSTANTS
    Docs,       \* the documents the service may come to hold
    NoDoc,
    Size,       \* chunks of a document
    BatchSize,  \* _BATCH_SIZE
    Filters,    \* the connector lists only what is newer than since (gmail_imap lists all)
    Threads,    \* sync threads of the server
    Commands,   \* processes that sync
    MaxFaults   \* bound on the exceptions and deaths in a behaviour

Syncs == Threads \cup Commands

ASSUME SyncAssumption ==
    /\ IsFiniteSet(Docs)
    /\ NoDoc \notin Docs
    /\ Size \in Nat \ {0}
    /\ BatchSize \in Nat \ {0}
    /\ Filters \in BOOLEAN
    /\ Threads \cap Commands = {}
    /\ MaxFaults \in Nat

VARIABLES
    source,      \* the documents the service holds
    stored,      \* chunks of each in knowledge_chunks: always the first so many
    \* the sync_state row
    old,         \* the documents that are older than last_sync
    items,       \* items_synced
    registered,  \* threads in _sync_threads: {} or the last one put there
    \* each sync
    pc,
    seen,        \* _seen_doc_ids
    prior,       \* prior_items
    before,      \* the documents older than since
    todo,        \* listed, in no batch yet
    batch,
    doc,         \* being ingested
    chunk,       \* its next chunk
    fresh,       \* chunks_stored
    done,        \* items_ingested
    \* history
    listed,      \* what the connector had when it was asked
    excused,     \* in hand of a sync that failed or died, or arrived during one
    overlapped,  \* two syncs ran at the same time
    faults

row == <<old, items>>
local == <<pc, seen, prior, before, todo, batch, doc, chunk, fresh, done, listed>>
vars == <<source, stored, row, registered, local, excused, overlapped, faults>>

Init ==
    /\ source = {}
    /\ stored = [d \in Docs |-> 0]
    /\ old = {}
    /\ items = 0
    /\ registered = {}
    /\ pc = [s \in Syncs |-> "idle"]
    /\ seen = [s \in Syncs |-> {}]
    /\ prior = [s \in Syncs |-> 0]
    /\ before = [s \in Syncs |-> {}]
    /\ todo = [s \in Syncs |-> {}]
    /\ batch = [s \in Syncs |-> {}]
    /\ doc = [s \in Syncs |-> NoDoc]
    /\ chunk = [s \in Syncs |-> 0]
    /\ fresh = [s \in Syncs |-> 0]
    /\ done = [s \in Syncs |-> 0]
    /\ listed = [s \in Syncs |-> {}]
    /\ excused = {}
    /\ overlapped = FALSE
    /\ faults = 0

-----------------------------------------------------------------------------

Goto(s, label) == pc' = [pc EXCEPT ![s] = label]

\* The thread of a sync has been started and has not ended.
Alive(s) == pc[s] \notin {"idle", "launch"}

\* What a sync has read from the connector and not finished.
InHand(s) == todo[s] \cup batch[s] \cup ({doc[s]} \ {NoDoc})

\* Somebody fails or dies with these syncs.  A connector that lists all will list
\* again what was not begun.
Excuse(S) ==
    excused' = excused \cup
        UNION {IF Filters THEN InHand(s) ELSE {doc[s]} \ {NoDoc} : s \in S}

\* The syncs S are over.
Retire(S) ==
    /\ pc' = [s \in Syncs |-> IF s \in S THEN "idle" ELSE pc[s]]
    /\ seen' = [s \in Syncs |-> IF s \in S THEN {} ELSE seen[s]]
    /\ prior' = [s \in Syncs |-> IF s \in S THEN 0 ELSE prior[s]]
    /\ before' = [s \in Syncs |-> IF s \in S THEN {} ELSE before[s]]
    /\ todo' = [s \in Syncs |-> IF s \in S THEN {} ELSE todo[s]]
    /\ batch' = [s \in Syncs |-> IF s \in S THEN {} ELSE batch[s]]
    /\ doc' = [s \in Syncs |-> IF s \in S THEN NoDoc ELSE doc[s]]
    /\ chunk' = [s \in Syncs |-> IF s \in S THEN 0 ELSE chunk[s]]
    /\ fresh' = [s \in Syncs |-> IF s \in S THEN 0 ELSE fresh[s]]
    /\ done' = [s \in Syncs |-> IF s \in S THEN 0 ELSE done[s]]
    /\ listed' = [s \in Syncs |-> IF s \in S THEN {} ELSE listed[s]]

\* A document appears at the service.
Arrive(d) ==
    /\ d \notin source
    /\ source' = source \cup {d}
    /\ UNCHANGED <<stored, row, registered, local, excused, overlapped, faults>>

-----------------------------------------------------------------------------
(* How a sync begins.                                                      *)

\* _start_sync finds no live thread for the connector.  (With one it answers
\* "already_syncing".)
Check(s) ==
    /\ s \in Threads
    /\ pc[s] = "idle"
    /\ \A t \in registered : ~Alive(t)
    /\ Goto(s, "launch")
    /\ UNCHANGED <<source, stored, row, registered, seen, prior, before, todo, batch,
                   doc, chunk, fresh, done, listed, excused, overlapped, faults>>

Begins(s) ==
    /\ Goto(s, "open")
    /\ overlapped' = (overlapped \/ \E t \in Syncs \ {s} : Alive(t))

\* ... reads the checkpoint for its report, starts the thread and registers it.
Launch(s) ==
    /\ pc[s] = "launch"
    /\ Begins(s)
    /\ registered' = {s}
    /\ UNCHANGED <<source, stored, row, seen, prior, before, todo, batch, doc, chunk,
                   fresh, done, listed, excused, faults>>

\* deep-research-setup.
RunCommand(s) ==
    /\ s \in Commands
    /\ pc[s] = "idle"
    /\ Begins(s)
    /\ UNCHANGED <<source, stored, row, registered, seen, prior, before, todo, batch,
                   doc, chunk, fresh, done, listed, excused, faults>>

\* A new pipeline takes the documents that have a chunk in the store as seen.
Open(s) ==
    /\ pc[s] = "open"
    /\ seen' = [seen EXCEPT ![s] = {d \in Docs : stored[d] > 0}]
    /\ Goto(s, "checkpoint")
    /\ UNCHANGED <<source, stored, row, registered, prior, before, todo, batch, doc,
                   chunk, fresh, done, listed, excused, overlapped, faults>>

\* Variant: the total starts again with every sync.
ReadCheckpointAfresh(s) ==
    /\ pc[s] = "checkpoint"
    /\ before' = [before EXCEPT ![s] = IF Filters THEN old ELSE {}]
    /\ Goto(s, "list")
    /\ UNCHANGED <<source, stored, row, registered, seen, prior, todo, batch, doc,
                   chunk, fresh, done, listed, excused, overlapped, faults>>

\* get_checkpoint: the total so far and since.
ReadCheckpoint(s) ==
    /\ pc[s] = "checkpoint"
    /\ prior' = [prior EXCEPT ![s] = items]
    /\ before' = [before EXCEPT ![s] = IF Filters THEN old ELSE {}]
    /\ Goto(s, "list")
    /\ UNCHANGED <<source, stored, row, registered, seen, todo, batch, doc, chunk,
                   fresh, done, listed, excused, overlapped, faults>>

\* connector.sync asks the service.
List(s) ==
    /\ pc[s] = "list"
    /\ listed' = [listed EXCEPT ![s] = source]
    /\ todo' = [todo EXCEPT ![s] = source \ before[s]]
    /\ Goto(s, "collect")
    /\ UNCHANGED <<source, stored, row, registered, seen, prior, before, batch, doc,
                   chunk, fresh, done, excused, overlapped, faults>>

-----------------------------------------------------------------------------
(* Batches.                                                                *)

\* Variant: what is left when the generator ends is not ingested.
CollectFull(s) ==
    /\ pc[s] = "collect"
    /\ \/ \E b \in SUBSET todo[s] :
            /\ Cardinality(b) = BatchSize
            /\ batch' = [batch EXCEPT ![s] = b]
            /\ todo' = [todo EXCEPT ![s] = @ \ b]
            /\ Goto(s, "ingest")
       \/ /\ Cardinality(todo[s]) < BatchSize
          /\ todo' = [todo EXCEPT ![s] = {}]
          /\ Goto(s, "rest")
          /\ UNCHANGED batch
    /\ UNCHANGED <<source, stored, row, registered, seen, prior, before, doc, chunk,
                   fresh, done, listed, excused, overlapped, faults>>

\* The generator yields documents, in the order of the service, until a batch is
\* full, or until there are no more.
Collect(s) ==
    /\ pc[s] = "collect"
    /\ \/ \E b \in SUBSET todo[s] :
            /\ Cardinality(b) = BatchSize
            /\ batch' = [batch EXCEPT ![s] = b]
            /\ todo' = [todo EXCEPT ![s] = @ \ b]
            /\ Goto(s, "ingest")
       \/ /\ Cardinality(todo[s]) < BatchSize
          /\ batch' = [batch EXCEPT ![s] = todo[s]]
          /\ todo' = [todo EXCEPT ![s] = {}]
          /\ Goto(s, "rest")
    /\ UNCHANGED <<source, stored, row, registered, seen, prior, before, doc, chunk,
                   fresh, done, listed, excused, overlapped, faults>>

Ingesting(s) == pc[s] \in {"ingest", "rest"}

\* ingest comes to the next document; those it has seen it skips.
NextDoc(s) ==
    /\ Ingesting(s) /\ doc[s] = NoDoc
    /\ \E d \in batch[s] :
         /\ batch' = [batch EXCEPT ![s] = @ \ {d}]
         /\ doc' = [doc EXCEPT ![s] = IF d \in seen[s] THEN NoDoc ELSE d]
    /\ UNCHANGED <<source, stored, row, registered, pc, seen, prior, before, todo,
                   chunk, fresh, done, listed, excused, overlapped, faults>>

\* KnowledgeStore.store commits one chunk, or ignores it when it is there; either
\* way it is counted.  After the last the document is seen.
StoreChunk(s) ==
    /\ doc[s] # NoDoc
    /\ LET d == doc[s]  last == chunk[s] + 1 = Size IN
         /\ stored' = [stored EXCEPT ![d] = IF chunk[s] < @ THEN @ ELSE chunk[s] + 1]
         /\ seen' = [seen EXCEPT ![s] = IF last THEN @ \cup {d} ELSE @]
         /\ doc' = [doc EXCEPT ![s] = IF last THEN NoDoc ELSE d]
         /\ chunk' = [chunk EXCEPT ![s] = IF last THEN 0 ELSE @ + 1]
    /\ fresh' = [fresh EXCEPT ![s] = @ + 1]
    /\ UNCHANGED <<source, row, registered, pc, prior, before, todo, batch, done,
                   listed, excused, overlapped, faults>>

\* ingest returns: a full batch is followed by a checkpoint and the next batch, the
\* rest by the last checkpoint.
BatchDone(s) ==
    /\ Ingesting(s) /\ doc[s] = NoDoc /\ batch[s] = {}
    /\ done' = [done EXCEPT ![s] = @ + fresh[s]]
    /\ fresh' = [fresh EXCEPT ![s] = 0]
    /\ Goto(s, IF pc[s] = "ingest" THEN "save" ELSE "finish")
    /\ UNCHANGED <<source, stored, row, registered, seen, prior, before, todo, batch,
                   doc, chunk, listed, excused, overlapped, faults>>

\* _save_checkpoint: last_sync is now, so whatever the service holds is older, also
\* what came after s asked for its list.
SaveCheckpoint(s) ==
    /\ old' = source
    /\ items' = prior[s] + done[s]
    /\ excused' = IF Filters THEN excused \cup (source \ (old \cup listed[s])) ELSE excused

Save(s) ==
    /\ pc[s] = "save"
    /\ SaveCheckpoint(s)
    /\ Goto(s, "collect")
    /\ UNCHANGED <<source, stored, registered, seen, prior, before, todo, batch, doc,
                   chunk, fresh, done, listed, overlapped, faults>>

\* The last checkpoint; the sync is over.
Finish(s) ==
    /\ pc[s] = "finish"
    /\ SaveCheckpoint(s)
    /\ Retire({s})
    /\ UNCHANGED <<source, stored, registered, overlapped, faults>>

-----------------------------------------------------------------------------
(* Failures.                                                               *)

Fault == faults < MaxFaults /\ faults' = faults + 1

\* Variant: the document being ingested stays in hand.
FailInPlace(s) ==
    /\ Fault
    /\ pc[s] \in {"list", "collect", "ingest", "rest", "save"}
    /\ Excuse({s})
    /\ Goto(s, "error")
    /\ UNCHANGED <<source, stored, row, registered, seen, prior, before, todo, batch,
                   doc, chunk, fresh, done, listed, overlapped>>

\* The connector, the store, one of its subscribers or a checkpoint raises within
\* the try: the batch is given up, its count with it.
Fail(s) ==
    /\ Fault
    /\ pc[s] \in {"list", "collect", "ingest", "rest", "save"}
    /\ Excuse({s})
    /\ todo' = [todo EXCEPT ![s] = {}]
    /\ batch' = [batch EXCEPT ![s] = {}]
    /\ doc' = [doc EXCEPT ![s] = NoDoc]
    /\ chunk' = [chunk EXCEPT ![s] = 0]
    /\ fresh' = [fresh EXCEPT ![s] = 0]
    /\ Goto(s, "error")
    /\ UNCHANGED <<source, stored, row, registered, seen, prior, before, done, listed,
                   overlapped>>

\* ... and a checkpoint is saved with the error, and last_sync.
SaveError(s) ==
    /\ pc[s] = "error"
    /\ SaveCheckpoint(s)
    /\ Retire({s})
    /\ UNCHANGED <<source, stored, registered, overlapped, faults>>

\* An exception outside the try: nothing is saved.
Raise(s) ==
    /\ Fault
    /\ pc[s] \in {"open", "checkpoint", "finish", "error"}
    /\ Excuse({s})
    /\ Retire({s})
    /\ UNCHANGED <<source, stored, row, registered, overlapped>>

\* The server dies, and its memory with it.
ServerDies ==
    /\ Fault
    /\ \E s \in Threads : pc[s] # "idle"
    /\ Excuse(Threads)
    /\ Retire(Threads)
    /\ registered' = {}
    /\ UNCHANGED <<source, stored, row, overlapped>>

CommandDies(s) ==
    /\ Fault
    /\ s \in Commands
    /\ pc[s] # "idle"
    /\ Excuse({s})
    /\ Retire({s})
    /\ UNCHANGED <<source, stored, row, registered, overlapped>>

-----------------------------------------------------------------------------

\* A sync under way proceeds.
Step(s) ==
    \/ Launch(s) \/ Open(s) \/ ReadCheckpoint(s) \/ List(s) \/ Collect(s)
    \/ NextDoc(s) \/ StoreChunk(s) \/ BatchDone(s) \/ Save(s) \/ Finish(s)
    \/ SaveError(s)

Next ==
    \/ \E d \in Docs : Arrive(d)
    \/ \E s \in Syncs :
         \/ Check(s) \/ RunCommand(s)
         \/ Step(s)
         \/ Fail(s) \/ Raise(s) \/ CommandDies(s)
    \/ ServerDies

Spec == Init /\ [][Next]_vars

\* Threads are run; nobody has to ask for a sync.
FairSpec == Spec /\ \A s \in Syncs : WF_vars(Step(s))

=============================================================================
