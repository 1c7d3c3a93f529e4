------------------------- MODULE ConnectorSyncProps ------------------------
(***************************************************************************)
(* What is claimed of ConnectorSync, and statements of the code that runs  *)
(* in MCConnectorSync refute.                                              *)
(***************************************************************************)
EXTENDS ConnectorSync, FiniteSetsExt

ProgramCounters == {"idle", "launch", "open", "checkpoint", "list", "collect",
                    "ingest", "rest", "save", "finish", "error"}

\* The variables stay in their types; a document is only in hand of a sync that
\* ingests, and only there does one count chunks.
TypeOK ==
    /\ source \subseteq Docs
    /\ stored \in [Docs -> 0..Size]
    /\ old \subseteq source
    /\ items \in Nat
    /\ registered \subseteq Threads
    /\ pc \in [Syncs -> ProgramCounters]
    /\ seen \in [Syncs -> SUBSET Docs]
    /\ prior \in [Syncs -> Nat]
    /\ before \in [Syncs -> SUBSET Docs]
    /\ todo \in [Syncs -> SUBSET Docs]
    /\ batch \in [Syncs -> SUBSET Docs]
    /\ doc \in [Syncs -> Docs \cup {NoDoc}]
    /\ chunk \in [Syncs -> 0..(Size - 1)]
    /\ fresh \in [Syncs -> Nat]
    /\ done \in [Syncs -> Nat]
    /\ listed \in [Syncs -> SUBSET Docs]
    /\ excused \subseteq Docs
    /\ overlapped \in BOOLEAN
    /\ faults \in 0..MaxFaults
    /\ \A s \in Syncs :
         /\ doc[s] # NoDoc => Ingesting(s)
         /\ doc[s] = NoDoc => chunk[s] = 0
         /\ batch[s] # {} => Ingesting(s)
         /\ todo[s] # {} => pc[s] \in {"collect", "ingest", "save"}

\* The sync will store the document, unless it fails.
WillStore(s, d) == d = doc[s] \/ (d \in todo[s] \cup batch[s] /\ d \notin seen[s])

\* A later sync lists the document and does not skip it.
Reachable(d) == stored[d] = 0 /\ (Filters => d \notin old)

\* No document is passed over without a cause: what the service holds is in the
\* store with all its chunks, will be listed again, or is in the hands of a sync
\* under way, unless a sync failed or died with it in hand or it arrived while
\* one was running.
NothingLostQuietly ==
    \A d \in source :
        \/ stored[d] = Size
        \/ Reachable(d)
        \/ \E s \in Syncs : WillStore(s, d)
        \/ d \in excused

Sum(count) == FoldSet(LAMBDA d, n : n + count[d], 0, Docs)
Total == Sum(stored)

\* items_synced, which the status route calls "the source of truth", is the number
\* of chunks in the store as long as syncs do not overlap, save for the batches
\* that failed, which it lacks.
TotalIsHonest ==
    ~overlapped =>
        /\ items <= Total
        /\ faults = 0 /\ (\A s \in Syncs : ~Alive(s)) => items = Total

\* As long as syncs come again and again, what the service holds is indexed,
\* with the same exceptions.
IndexedIfSynced ==
    []<>(\E s \in Syncs : pc[s] = "open") =>
        \A d \in Docs : d \in source ~> stored[d] = Size \/ d \in excused

-----------------------------------------------------------------------------
(* Refuted.                                                                *)

\* gmail_imap.py:165-167: "resume is correct as long as we keep enumerating the full
\* inbox".  A document whose first chunk is in the store counts as seen.
ResumeCompletes ==
    ~Filters => \A d \in source :
        stored[d] \in {0, Size} \/ \E s \in Syncs : WillStore(s, d)

\* sync_engine.py:85: sync "resumes" after an error.
FailedBatchIsListedAgain ==
    \A d \in source :
        stored[d] = Size \/ Reachable(d) \/ \E s \in Syncs : WillStore(s, d)

\* connectors_router.py:151: _start_sync starts a sync or answers "already_syncing".
OneSyncThread == Cardinality({s \in Threads : Alive(s)}) <= 1

=============================================================================
