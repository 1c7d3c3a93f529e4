----------------------- MODULE ConnectorSync_proofs -------------------------
(***************************************************************************)
(* Proofs about ConnectorSync for every value of its constants.            *)
(***************************************************************************)
EXTENDS ConnectorSyncProps, FiniteSetTheorems, WellFoundedInduction, TLAPS

USE SyncAssumption DEF SyncAssumption

\* Only the server's threads are launched.
Typing == TypeOK /\ \A s \in Syncs : pc[s] = "launch" => s \in Threads

LEMMA InitTypeOK == Init => TypeOK
  <1> SUFFICES ASSUME Init PROVE TypeOK
    OBVIOUS
  <1>1. /\ pc \in [Syncs -> ProgramCounters]
        /\ doc \in [Syncs -> Docs \cup {NoDoc}]
        /\ \A s \in Syncs : doc[s] = NoDoc /\ chunk[s] = 0 /\ batch[s] = {} /\ todo[s] = {}
    BY DEF Init, ProgramCounters
  <1>2. stored \in [Docs -> 0..Size] /\ chunk \in [Syncs -> 0..(Size - 1)]
    BY DEF Init
  <1>3. /\ prior \in [Syncs -> Nat] /\ fresh \in [Syncs -> Nat] /\ done \in [Syncs -> Nat]
        /\ faults \in 0..MaxFaults /\ items \in Nat
    BY DEF Init
  <1>4. /\ seen \in [Syncs -> SUBSET Docs] /\ before \in [Syncs -> SUBSET Docs]
        /\ todo \in [Syncs -> SUBSET Docs] /\ batch \in [Syncs -> SUBSET Docs]
        /\ listed \in [Syncs -> SUBSET Docs]
    BY DEF Init
  <1> QED
    BY <1>1, <1>2, <1>3, <1>4 DEF Init, TypeOK

\* The syncs that are over hold nothing.
LEMMA RetireType ==
    ASSUME TypeOK, NEW S, Retire(S)
    PROVE  /\ pc' \in [Syncs -> ProgramCounters]
           /\ seen' \in [Syncs -> SUBSET Docs] /\ before' \in [Syncs -> SUBSET Docs]
           /\ todo' \in [Syncs -> SUBSET Docs] /\ batch' \in [Syncs -> SUBSET Docs]
           /\ listed' \in [Syncs -> SUBSET Docs]
           /\ doc' \in [Syncs -> Docs \cup {NoDoc}]
           /\ prior' \in [Syncs -> Nat] /\ fresh' \in [Syncs -> Nat] /\ done' \in [Syncs -> Nat]
           /\ chunk' \in [Syncs -> 0..(Size - 1)]
           /\ \A s \in Syncs :
                /\ doc'[s] # NoDoc => Ingesting(s)'
                /\ doc'[s] = NoDoc => chunk'[s] = 0
                /\ batch'[s] # {} => Ingesting(s)'
                /\ todo'[s] # {} => pc'[s] \in {"collect", "ingest", "save"}
  <1>1. pc' \in [Syncs -> ProgramCounters]
    BY DEF TypeOK, Retire, ProgramCounters
  <1>2. /\ seen' \in [Syncs -> SUBSET Docs] /\ before' \in [Syncs -> SUBSET Docs]
        /\ todo' \in [Syncs -> SUBSET Docs] /\ batch' \in [Syncs -> SUBSET Docs]
        /\ listed' \in [Syncs -> SUBSET Docs]
    BY DEF TypeOK, Retire
  <1>3. doc' \in [Syncs -> Docs \cup {NoDoc}]
    BY DEF TypeOK, Retire
  <1>4. /\ prior' \in [Syncs -> Nat] /\ fresh' \in [Syncs -> Nat] /\ done' \in [Syncs -> Nat]
        /\ chunk' \in [Syncs -> 0..(Size - 1)]
    BY DEF TypeOK, Retire
  <1>5. \A s \in Syncs :
          /\ doc'[s] # NoDoc => Ingesting(s)'
          /\ doc'[s] = NoDoc => chunk'[s] = 0
          /\ batch'[s] # {} => Ingesting(s)'
          /\ todo'[s] # {} => pc'[s] \in {"collect", "ingest", "save"}
    BY DEF TypeOK, Retire, Ingesting
  <1> QED
    BY <1>1, <1>2, <1>3, <1>4, <1>5

LEMMA ExcuseType ==
    ASSUME TypeOK, NEW S \in SUBSET Syncs, Excuse(S)
    PROVE  excused' \subseteq Docs
  <1>1. \A s \in Syncs : InHand(s) \subseteq Docs /\ {doc[s]} \ {NoDoc} \subseteq Docs
    BY DEF TypeOK, InHand
  <1> QED
    BY <1>1 DEF TypeOK, Excuse

LEMMA SaveType ==
    ASSUME TypeOK, NEW s \in Syncs, SaveCheckpoint(s)
    PROVE  old' \subseteq source /\ items' \in Nat /\ excused' \subseteq Docs
  BY DEF TypeOK, SaveCheckpoint

LEMMA InitType == Init => Typing
  BY InitTypeOK DEF Init, Typing

LEMMA ArriveType ==
    ASSUME TypeOK, NEW d \in Docs, Arrive(d)
    PROVE  TypeOK'
  BY DEF Arrive, row, local, TypeOK, Ingesting

LEMMA CheckType ==
    ASSUME TypeOK, NEW s \in Syncs, Check(s)
    PROVE  TypeOK'
  BY DEF Check, Goto, row, TypeOK, ProgramCounters, Ingesting

LEMMA RunCommandType ==
    ASSUME TypeOK, NEW s \in Syncs, RunCommand(s)
    PROVE  TypeOK'
  BY DEF RunCommand, Begins, Goto, row, TypeOK, ProgramCounters, Ingesting

LEMMA OpenType ==
    ASSUME TypeOK, NEW s \in Syncs, Open(s)
    PROVE  TypeOK'
  BY DEF Open, Goto, row, TypeOK, ProgramCounters, Ingesting

LEMMA ReadCheckpointType ==
    ASSUME TypeOK, NEW s \in Syncs, ReadCheckpoint(s)
    PROVE  TypeOK'
  BY DEF ReadCheckpoint, Goto, row, TypeOK, ProgramCounters, Ingesting

LEMMA ListType ==
    ASSUME TypeOK, NEW s \in Syncs, List(s)
    PROVE  TypeOK'
  BY DEF List, Goto, row, TypeOK, ProgramCounters, Ingesting

LEMMA CollectType ==
    ASSUME TypeOK, NEW s \in Syncs, Collect(s)
    PROVE  TypeOK'
  BY DEF Collect, Goto, row, TypeOK, ProgramCounters, Ingesting

LEMMA NextDocType ==
    ASSUME TypeOK, NEW s \in Syncs, NextDoc(s)
    PROVE  TypeOK'
  BY DEF NextDoc, row, TypeOK, ProgramCounters, Ingesting

LEMMA StoreChunkType ==
    ASSUME TypeOK, NEW s \in Syncs, StoreChunk(s)
    PROVE  TypeOK'
  BY DEF StoreChunk, row, TypeOK, ProgramCounters, Ingesting

LEMMA BatchDoneType ==
    ASSUME TypeOK, NEW s \in Syncs, BatchDone(s)
    PROVE  TypeOK'
  BY DEF BatchDone, Goto, row, TypeOK, ProgramCounters, Ingesting

LEMMA LaunchType ==
    ASSUME Typing, NEW s \in Syncs, Launch(s)
    PROVE  TypeOK'
  <1>1. registered' \subseteq Threads
    BY DEF Launch, Typing
  <1>2. overlapped' \in BOOLEAN
    BY Zenon DEF Launch, Begins
  <1>3. Goto(s, "open") /\ pc[s] = "launch"
    BY DEF Launch, Begins
  <1>4. UNCHANGED <<source, stored, row, seen, prior, before, todo, batch, doc, chunk,
                    fresh, done, listed, excused, faults>>
    BY DEF Launch
  <1> QED
    BY <1>1, <1>2, <1>3, <1>4 DEF Goto, row, Typing, TypeOK, ProgramCounters, Ingesting

LEMMA SaveStepType ==
    ASSUME TypeOK, NEW s \in Syncs, Save(s)
    PROVE  TypeOK'
  <1>1. old' \subseteq source /\ items' \in Nat /\ excused' \subseteq Docs
    BY SaveType DEF Save
  <1>2. Goto(s, "collect") /\ pc[s] = "save"
    BY DEF Save
  <1>3. UNCHANGED <<source, stored, registered, seen, prior, before, todo, batch, doc,
                    chunk, fresh, done, listed, overlapped, faults>>
    BY DEF Save
  <1> QED
    BY <1>1, <1>2, <1>3 DEF Goto, TypeOK, ProgramCounters, Ingesting

LEMMA FinishType ==
    ASSUME TypeOK, NEW s \in Syncs, Finish(s)
    PROVE  TypeOK'
  BY SaveType, RetireType DEF Finish, row, TypeOK

LEMMA SaveErrorType ==
    ASSUME TypeOK, NEW s \in Syncs, SaveError(s)
    PROVE  TypeOK'
  BY SaveType, RetireType DEF SaveError, row, TypeOK

LEMMA RaiseType ==
    ASSUME TypeOK, NEW s \in Syncs, Raise(s)
    PROVE  TypeOK'
  BY ExcuseType, RetireType DEF Raise, Fault, row, TypeOK

LEMMA CommandDiesType ==
    ASSUME TypeOK, NEW s \in Syncs, CommandDies(s)
    PROVE  TypeOK'
  BY ExcuseType, RetireType DEF CommandDies, Fault, row, TypeOK

LEMMA ServerDiesType ==
    ASSUME TypeOK, ServerDies
    PROVE  TypeOK'
  BY ExcuseType, RetireType DEF ServerDies, Fault, row, Syncs, TypeOK

LEMMA FailType ==
    ASSUME TypeOK, NEW s \in Syncs, Fail(s)
    PROVE  TypeOK'
  BY ExcuseType DEF Fail, Fault, Goto, row, TypeOK, ProgramCounters, Ingesting

LEMMA StepType ==
    ASSUME Typing, NEW s \in Syncs, Step(s)
    PROVE  TypeOK'
  BY LaunchType, OpenType, ReadCheckpointType, ListType, CollectType, NextDocType,
     StoreChunkType, BatchDoneType, SaveStepType, FinishType, SaveErrorType
     DEF Step, Typing

\* No step but a check brings a sync to its launch.
LEMMA NextLaunch ==
    ASSUME Typing, Next, NEW s \in Syncs, pc'[s] = "launch"
    PROVE  s \in Threads
  <1>0. pc \in [Syncs -> ProgramCounters]
    BY DEF Typing, TypeOK
  <1>1. CASE \E d \in Docs : Arrive(d)
    BY <1>1 DEF Arrive, local, Typing
  <1>2. CASE ServerDies
    BY <1>2 DEF ServerDies, Retire, Typing
  <1>3. ASSUME NEW r \in Syncs,
               \/ Check(r) \/ RunCommand(r) \/ Launch(r) \/ Open(r) \/ ReadCheckpoint(r)
               \/ List(r) \/ Collect(r) \/ NextDoc(r) \/ StoreChunk(r) \/ BatchDone(r) \/ Save(r)
        PROVE  s \in Threads
    BY <1>0, <1>3 DEF Check, RunCommand, Launch, Begins, Open, ReadCheckpoint, List, Collect,
       NextDoc, StoreChunk, BatchDone, Save, Goto, Typing
  <1>4. ASSUME NEW r \in Syncs,
               Finish(r) \/ SaveError(r) \/ Fail(r) \/ Raise(r) \/ CommandDies(r)
        PROVE  s \in Threads
    BY <1>0, <1>4 DEF Finish, SaveError, Fail, Raise, CommandDies, Retire, Goto, Typing
  <1> QED
    BY <1>1, <1>2, <1>3, <1>4 DEF Next, Step

LEMMA NextType == Typing /\ [Next]_vars => Typing'
  <1> SUFFICES ASSUME Typing, [Next]_vars PROVE Typing'
    OBVIOUS
  <1>0. TypeOK
    BY DEF Typing
  <1>1. CASE UNCHANGED vars
    BY <1>1 DEF vars, row, local, Typing, TypeOK, Ingesting
  <1>2. CASE Next
    <2>1. TypeOK'
      <3> HIDE DEF TypeOK
      <3>1. ASSUME NEW d \in Docs, Arrive(d) PROVE TypeOK'
        BY <1>0, <3>1, ArriveType
      <3>2. ASSUME NEW s \in Syncs, Check(s) \/ RunCommand(s) \/ Step(s) \/ Fail(s) \/ Raise(s) \/ CommandDies(s)
            PROVE  TypeOK'
        BY <1>0, <3>2, CheckType, RunCommandType, StepType, FailType, RaiseType, CommandDiesType
      <3>3. CASE ServerDies
        BY <1>0, <3>3, ServerDiesType
      <3> QED
        BY <1>2, <3>1, <3>2, <3>3 DEF Next
    <2>2. \A s \in Syncs : pc'[s] = "launch" => s \in Threads
      BY <1>2, NextLaunch
    <2> QED
      BY <2>1, <2>2 DEF Typing
  <1> QED
    BY <1>1, <1>2

\* The variables keep their types, and what a sync has in hand is consistent with
\* where it is (sync_engine.py, pipeline.py, connectors_router.py).
THEOREM SyncTypeOK == Spec => []TypeOK
  <1>1. Typing => TypeOK
    BY DEF Typing
  <1> QED
    BY InitType, NextType, <1>1, PTL DEF Spec

-----------------------------------------------------------------------------
(* No document is passed over without a cause                              *)

\* A sync has come to nothing yet.
Unlisted == {"idle", "launch", "open", "checkpoint", "list"}

\* What a sync skips has a chunk in the store; what the connector listed for it
\* and it did not take for older is in its hands, in the store or excused; and a
\* document of which the store has a part only is being stored or excused.
Accounted ==
  /\ \A d \in Docs \ source : stored[d] = 0
  /\ \A s \in Syncs, d \in Docs : d \in seen[s] => stored[d] > 0
  /\ \A s \in Syncs : pc[s] \in Unlisted => listed[s] = {}
  /\ \A s \in Syncs : before[s] \subseteq old /\ (~Filters => before[s] = {})
  /\ \A s \in Syncs, d \in Docs :
       Filters /\ d \in listed[s] \ before[s] =>
         stored[d] > 0 \/ d \in InHand(s) \/ d \in excused
  /\ \A s \in Syncs : InHand(s) \subseteq source
  /\ \A d \in Docs : 0 < stored[d] /\ stored[d] < Size =>
       d \in excused \/ \E s \in Syncs : doc[s] = d
  /\ \A d \in source : Filters /\ d \in old /\ stored[d] = 0 =>
       d \in excused \/ \E s \in Syncs : d \in InHand(s)

Accounts == Typing /\ Accounted

LEMMA CheckAccounts ==
    ASSUME Accounts, NEW s \in Syncs, Check(s)
    PROVE  Accounted'
  BY DEF Check, Goto, row, Accounts, Typing, TypeOK, Accounted, Unlisted, InHand

LEMMA LaunchAccounts ==
    ASSUME Accounts, NEW s \in Syncs, Launch(s)
    PROVE  Accounted'
  BY DEF Launch, Begins, Goto, row, Accounts, Typing, TypeOK, Accounted, Unlisted, InHand

LEMMA RunCommandAccounts ==
    ASSUME Accounts, NEW s \in Syncs, RunCommand(s)
    PROVE  Accounted'
  BY DEF RunCommand, Begins, Goto, row, Accounts, Typing, TypeOK, Accounted, Unlisted, InHand

LEMMA OpenAccounts ==
    ASSUME Accounts, NEW s \in Syncs, Open(s)
    PROVE  Accounted'
  BY DEF Open, Goto, row, Accounts, Typing, TypeOK, Accounted, Unlisted, InHand

LEMMA ReadCheckpointAccounts ==
    ASSUME Accounts, NEW s \in Syncs, ReadCheckpoint(s)
    PROVE  Accounted'
  BY DEF ReadCheckpoint, Goto, row, Accounts, Typing, TypeOK, Accounted, Unlisted, InHand

LEMMA ListAccounts ==
    ASSUME Accounts, NEW s \in Syncs, List(s)
    PROVE  Accounted'
  BY DEF List, Goto, row, Accounts, Typing, TypeOK, Accounted, Unlisted, InHand

LEMMA NextDocAccounts ==
    ASSUME Accounts, NEW s \in Syncs, NextDoc(s)
    PROVE  Accounted'
  BY DEF NextDoc, row, Accounts, Typing, TypeOK, Accounted, Unlisted, InHand

LEMMA StoreChunkAccounts ==
    ASSUME Accounts, NEW s \in Syncs, StoreChunk(s)
    PROVE  Accounted'
  BY DEF StoreChunk, row, Accounts, Typing, TypeOK, Accounted, Unlisted, InHand

LEMMA BatchDoneAccounts ==
    ASSUME Accounts, NEW s \in Syncs, BatchDone(s)
    PROVE  Accounted'
  BY DEF BatchDone, Goto, row, Ingesting, Accounts, Typing, TypeOK, Accounted, Unlisted, InHand

LEMMA SaveAccounts ==
    ASSUME Accounts, NEW s \in Syncs, Save(s)
    PROVE  Accounted'
  BY DEF Save, SaveCheckpoint, Goto, Accounts, Typing, TypeOK, Accounted, Unlisted, InHand

\* The last checkpoint of a sync, which holds nothing any more.
LEMMA LastSaveAccounts ==
    ASSUME Accounts, NEW s \in Syncs, pc[s] \in {"finish", "error"},
           SaveCheckpoint(s), Retire({s}), source' = source, stored' = stored
    PROVE  Accounted'
  <1>1. /\ old' = source
        /\ excused' = IF Filters THEN excused \cup (source \ (old \cup listed[s])) ELSE excused
    BY DEF SaveCheckpoint
  <1>2. InHand(s) = {} /\ doc[s] = NoDoc
    BY DEF Accounts, Typing, TypeOK, Ingesting, InHand
  <1>3. \A u \in Syncs : /\ InHand(u)' = InHand(u) /\ doc'[u] = doc[u]
                         /\ seen'[u] \subseteq seen[u] /\ before'[u] \subseteq before[u]
    BY <1>2 DEF Retire, InHand
  <1>4. \A u \in Syncs : /\ pc'[u] \in Unlisted => listed'[u] = {}
                         /\ listed'[u] # {} => listed'[u] = listed[u] /\ before'[u] = before[u]
    BY DEF Retire, Accounts, Accounted
  <1>5. excused \subseteq excused' /\ old \subseteq source /\ source \subseteq Docs
    BY <1>1 DEF Accounts, Typing, TypeOK
  <1>6. \A u \in Syncs : before'[u] \subseteq old' /\ (~Filters => before'[u] = {})
    BY <1>1, <1>3, <1>5 DEF Accounts, Accounted
  <1>7. \A u \in Syncs, d \in Docs :
          Filters /\ d \in listed'[u] \ before'[u] =>
            stored[d] > 0 \/ d \in InHand(u)' \/ d \in excused'
    BY <1>3, <1>4, <1>5 DEF Accounts, Accounted
  <1>8. \A d \in source : Filters /\ d \in old' /\ stored[d] = 0 =>
          d \in excused' \/ \E u \in Syncs : d \in InHand(u)'
    <2> SUFFICES ASSUME NEW d \in source, Filters, stored[d] = 0, d \notin excused'
                 PROVE  \E u \in Syncs : d \in InHand(u)'
      OBVIOUS
    <2>1. d \in old \cup listed[s] /\ d \notin excused /\ d \in Docs
      BY <1>1, <1>5
    <2>2. CASE d \in old
      BY <1>3, <2>1, <2>2 DEF Accounts, Accounted
    <2>3. CASE d \in listed[s] /\ d \notin old
      BY <1>2, <2>1, <2>3 DEF Accounts, Accounted
    <2> QED
      BY <2>1, <2>2, <2>3
  <1> QED
    BY <1>3, <1>4, <1>5, <1>6, <1>7, <1>8 DEF Accounts, Accounted

LEMMA FinishAccounts ==
    ASSUME Accounts, NEW s \in Syncs, Finish(s)
    PROVE  Accounted'
  BY LastSaveAccounts DEF Finish

LEMMA SaveErrorAccounts ==
    ASSUME Accounts, NEW s \in Syncs, SaveError(s)
    PROVE  Accounted'
  BY LastSaveAccounts DEF SaveError

LEMMA FailAccounts ==
    ASSUME Accounts, NEW s \in Syncs, Fail(s)
    PROVE  Accounted'
  BY DEF Fail, Excuse, Goto, row, Accounts, Typing, TypeOK, Accounted, Unlisted, InHand

LEMMA RaiseAccounts ==
    ASSUME Accounts, NEW s \in Syncs, Raise(s)
    PROVE  Accounted'
  BY DEF Raise, Excuse, Retire, row, Accounts, Typing, TypeOK, Accounted, Unlisted, InHand

LEMMA CommandDiesAccounts ==
    ASSUME Accounts, NEW s \in Syncs, CommandDies(s)
    PROVE  Accounted'
  BY DEF CommandDies, Excuse, Retire, row, Accounts, Typing, TypeOK, Accounted, Unlisted, InHand

LEMMA CollectAccounts ==
    ASSUME Accounts, NEW s \in Syncs, Collect(s)
    PROVE  Accounted'
  <1>1. /\ batch'[s] \cup todo'[s] = batch[s] \cup todo[s]
        /\ pc'[s] \notin Unlisted
        /\ \A r \in Syncs \ {s} : batch'[r] = batch[r] /\ todo'[r] = todo[r] /\ pc'[r] = pc[r]
    BY DEF Collect, Goto, Accounts, Typing, TypeOK, Ingesting, Unlisted
  <1>2. UNCHANGED <<source, stored, old, seen, before, doc, listed, excused>>
    BY DEF Collect, row
  <1>3. \A r \in Syncs : InHand(r)' = InHand(r)
    BY <1>1, <1>2 DEF InHand
  <1> QED
    BY <1>1, <1>2, <1>3 DEF Accounts, Accounted

LEMMA ServerDiesAccounts ==
    ASSUME Accounts, ServerDies
    PROVE  Accounted'
  BY DEF ServerDies, Excuse, Retire, row, Accounts, Typing, TypeOK, Accounted, Unlisted, InHand

LEMMA ArriveAccounts ==
    ASSUME Accounts, NEW d \in Docs, Arrive(d)
    PROVE  Accounted'
  BY DEF Arrive, row, local, Accounts, Typing, TypeOK, Accounted, Unlisted, InHand

LEMMA StepAccounts ==
    ASSUME Accounts, NEW s \in Syncs, Step(s)
    PROVE  Accounted'
  BY LaunchAccounts, OpenAccounts, ReadCheckpointAccounts, ListAccounts, CollectAccounts,
     NextDocAccounts, StoreChunkAccounts, BatchDoneAccounts, SaveAccounts, FinishAccounts,
     SaveErrorAccounts DEF Step

LEMMA NextAccounts == Accounts /\ [Next]_vars => Accounts'
  <1> SUFFICES ASSUME Accounts, [Next]_vars PROVE Accounted'
    BY NextType DEF Accounts
  <1>1. CASE UNCHANGED vars
    BY <1>1 DEF vars, row, local, Accounts, Accounted, InHand
  <1>2. CASE Next
    <2>1. ASSUME NEW d \in Docs, Arrive(d) PROVE Accounted'
      BY <2>1, ArriveAccounts
    <2>2. ASSUME NEW s \in Syncs,
                 Check(s) \/ RunCommand(s) \/ Step(s) \/ Fail(s) \/ Raise(s) \/ CommandDies(s)
          PROVE  Accounted'
      BY <2>2, CheckAccounts, RunCommandAccounts, StepAccounts, FailAccounts, RaiseAccounts,
         CommandDiesAccounts
    <2>3. CASE ServerDies
      BY <2>3, ServerDiesAccounts
    <2> QED
      BY <1>2, <2>1, <2>2, <2>3 DEF Next
  <1> QED
    BY <1>1, <1>2

LEMMA InitAccounts == Init => Accounts
  BY InitType DEF Init, Accounts, Accounted, Unlisted, InHand

\* A document that is in no other case is in the hands of a sync, which will store it.
LEMMA AccountedFor == Accounts => NothingLostQuietly
  <1> SUFFICES ASSUME Accounts, NEW d \in source, stored[d] # Size, ~Reachable(d), d \notin excused
               PROVE  \E s \in Syncs : WillStore(s, d)
    BY DEF NothingLostQuietly
  <1>1. d \in Docs /\ stored[d] \in 0..Size
    BY DEF Accounts, Typing, TypeOK
  <1>2. CASE stored[d] > 0
    BY <1>1, <1>2 DEF Accounts, Accounted, WillStore
  <1>3. CASE stored[d] = 0
    <2>1. PICK s \in Syncs : d \in InHand(s)
      BY <1>3 DEF Reachable, Accounts, Accounted
    <2>2. d \notin seen[s]
      BY <1>1, <1>3 DEF Accounts, Accounted
    <2> QED
      BY <2>1, <2>2 DEF InHand, WillStore
  <1> QED
    BY <1>1, <1>2, <1>3

\* What the service holds is in the store with all its chunks, will be listed again or
\* is in the hands of a sync under way, but for what was in the hands of a sync that
\* failed or died or came while one ran (sync_engine.py 85-140, pipeline.py).
THEOREM SyncNothingLostQuietly == Spec => []NothingLostQuietly
  BY InitAccounts, NextAccounts, AccountedFor, PTL DEF Spec

-----------------------------------------------------------------------------
(* The total.  Induction over sets: a set of subsets of S that is closed   *)
(* under one more element is all of them.                                  *)

LEMMA SubsetInduction ==
    ASSUME NEW S, IsFiniteSet(S), NEW T \in SUBSET SUBSET S, {} \in T,
           \A A \in T : \A x \in S \ A : A \cup {x} \in T
    PROVE  T = SUBSET S
  <1> SUFFICES ASSUME (SUBSET S) \ T # {} PROVE FALSE
    OBVIOUS
  <1>1. PICK M \in (SUBSET S) \ T : \A A \in (SUBSET S) \ T : <<A, M>> \notin StrictSubsetOrdering(S)
    BY FS_StrictSubsetOrderingWellFounded, FS_FiniteSubsetsOfFinite, WFMin
  <1>2. PICK x \in M : TRUE
    BY <1>1
  <1>3. M \ {x} \in SUBSET S /\ M \ {x} # M /\ M \ {x} \subseteq M
    BY <1>1, <1>2
  <1>4. <<M \ {x}, M>> \in StrictSubsetOrdering(S)
    BY <1>1, <1>3 DEF StrictSubsetOrdering
  <1>5. M \ {x} \in T /\ x \in S \ (M \ {x}) /\ (M \ {x}) \cup {x} = M
    BY <1>1, <1>2, <1>3, <1>4
  <1> QED
    BY <1>1, <1>5

LEMMA MinimalSubset ==
    ASSUME NEW S, IsFiniteSet(S), NEW T \in SUBSET SUBSET S, T # {}
    PROVE  \E A \in T : \A x \in A : A \ {x} \notin T
  <1>1. PICK A \in T : \A B \in T : <<B, A>> \notin StrictSubsetOrdering(S)
    BY FS_StrictSubsetOrderingWellFounded, FS_FiniteSubsetsOfFinite, WFMin
  <1>2. \A x \in A : A \ {x} \in SUBSET S /\ A \ {x} # A /\ A \ {x} \subseteq A
    BY <1>1
  <1>3. \A x \in A : <<A \ {x}, A>> \in StrictSubsetOrdering(S)
    BY <1>1, <1>2 DEF StrictSubsetOrdering
  <1> QED
    BY <1>1, <1>3

\* The sum of the values of a function over each of the subsets of its domain.
LEMMA Sums ==
    ASSUME NEW S, IsFiniteSet(S), NEW w \in [S -> Nat]
    PROVE  \E g \in [SUBSET S -> Nat] :
               /\ g[{}] = 0
               /\ \A A \in SUBSET S : \A x \in S \ A : g[A \cup {x}] = g[A] + w[x]
  <1> DEFINE Adds(B, g) == /\ g[{}] = 0
                           /\ \A A \in SUBSET B : \A x \in B \ A : g[A \cup {x}] = g[A] + w[x]
             T == {B \in SUBSET S : \E g \in [SUBSET B -> Nat] : Adds(B, g)}
  <1>1. {} \in T
    <2> DEFINE g == [A \in SUBSET {} |-> 0]
    <2>1. g \in [SUBSET {} -> Nat] /\ Adds({}, g)
      OBVIOUS
    <2> HIDE DEF g, Adds
    <2> QED
      BY <2>1
  <1>2. \A B \in T : \A y \in S \ B : B \cup {y} \in T
    <2> SUFFICES ASSUME NEW B \in T, NEW y \in S \ B PROVE B \cup {y} \in T
      OBVIOUS
    <2>1. PICK g \in [SUBSET B -> Nat] : Adds(B, g)
      <3> HIDE DEF Adds
      <3> QED
        OBVIOUS
    <2> DEFINE C == B \cup {y}
               h == [A \in SUBSET C |-> IF y \in A THEN g[A \ {y}] + w[y] ELSE g[A]]
    <2>2. h \in [SUBSET C -> Nat]
      <3>1. \A A \in SUBSET C : y \in A => A \ {y} \in SUBSET B
        OBVIOUS
      <3>2. \A A \in SUBSET C : y \notin A => A \in SUBSET B
        OBVIOUS
      <3>3. w[y] \in Nat
        OBVIOUS
      <3>4. \A A \in SUBSET C : (IF y \in A THEN g[A \ {y}] + w[y] ELSE g[A]) \in Nat
        BY <3>1, <3>2, <3>3
      <3> QED
        BY <3>4
    <2>3. h[{}] = 0
      BY <2>1
    <2>4. ASSUME NEW A \in SUBSET C, NEW x \in C \ A PROVE h[A \cup {x}] = h[A] + w[x]
      <3>1. CASE x = y
        <4>1. (A \cup {x}) \ {y} = A /\ y \notin A /\ A \cup {x} \in SUBSET C
          BY <3>1
        <4>2. h[A] = g[A] /\ h[A \cup {x}] = g[A] + w[y]
          BY <3>1, <4>1
        <4> QED
          BY <3>1, <4>2
      <3>2. CASE x # y /\ y \in A
        <4> DEFINE D == A \ {y}
        <4>1. D \in SUBSET B /\ x \in B \ D /\ (A \cup {x}) \ {y} = D \cup {x} /\ A \cup {x} \in SUBSET C
          BY <3>2
        <4>2. h[A] = g[D] + w[y] /\ h[A \cup {x}] = g[D \cup {x}] + w[y]
          BY <3>2, <4>1
        <4>3. g[D \cup {x}] = g[D] + w[x]
          BY <2>1, <4>1
        <4>4. g[D] \in Nat /\ w[x] \in Nat /\ w[y] \in Nat
          BY <4>1
        <4> HIDE DEF D, h
        <4> QED
          BY <4>2, <4>3, <4>4
      <3>3. CASE x # y /\ y \notin A
        <4>1. A \in SUBSET B /\ x \in B \ A /\ y \notin A \cup {x} /\ A \cup {x} \in SUBSET C
          BY <3>3
        <4>2. h[A] = g[A] /\ h[A \cup {x}] = g[A \cup {x}]
          BY <3>3, <4>1
        <4> HIDE DEF h
        <4> QED
          BY <2>1, <4>1, <4>2
      <3> QED
        BY <3>1, <3>2, <3>3
    <2>5. Adds(C, h)
      <3> HIDE DEF h, C
      <3> QED
        BY <2>3, <2>4
    <2>6. C \in SUBSET S
      OBVIOUS
    <2>7. \E f \in [SUBSET C -> Nat] : Adds(C, f)
      <3> HIDE DEF h, Adds, C
      <3> QED
        BY <2>2, <2>5
    <2> HIDE DEF h, Adds, C
    <2>8. C \in T
      BY <2>6, <2>7
    <2> QED
      BY <2>8 DEF C
  <1>3. T = SUBSET S
    <2>1. T \in SUBSET SUBSET S
      OBVIOUS
    <2> HIDE DEF T
    <2> QED
      BY <1>1, <1>2, <2>1, SubsetInduction
  <1>4. S \in T
    <2> HIDE DEF T
    <2> QED
      BY <1>3
  <1>5. \E g \in [SUBSET S -> Nat] : Adds(S, g)
    <2> HIDE DEF Adds
    <2> QED
      BY <1>4
  <1> QED
    BY <1>5

\* Sum is a sum, in whatever order the fold takes the documents.
LEMMA SumIsASum ==
    ASSUME NEW w \in [Docs -> Nat]
    PROVE  \E g \in [SUBSET Docs -> Nat] :
               /\ g[{}] = 0
               /\ \A A \in SUBSET Docs : \A x \in Docs \ A : g[A \cup {x}] = g[A] + w[x]
               /\ g[Docs] = Sum(w)
  <1>1. PICK g \in [SUBSET Docs -> Nat] :
               /\ g[{}] = 0
               /\ \A A \in SUBSET Docs : \A x \in Docs \ A : g[A \cup {x}] = g[A] + w[x]
    BY Sums
  <1>2. g[Docs] = Sum(w)
    <2> DEFINE Eq(f) == f = [s \in SUBSET Docs |->
                               IF s = {} THEN 0
                               ELSE LET x == CHOOSE x \in s : TRUE
                                    IN  f[s \ {x}] + w[x]]
               f == CHOOSE f : Eq(f)
    <2>1. \A s \in SUBSET Docs : s # {} =>
             LET x == CHOOSE x \in s : TRUE
             IN  x \in s /\ s \ {x} \in SUBSET Docs /\ g[s] = g[s \ {x}] + w[x]
      <3> SUFFICES ASSUME NEW s \in SUBSET Docs, s # {}, NEW x, x = CHOOSE y \in s : TRUE
                   PROVE  x \in s /\ s \ {x} \in SUBSET Docs /\ g[s] = g[s \ {x}] + w[x]
        OBVIOUS
      <3>1. x \in s
        OBVIOUS
      <3>2. s \ {x} \in SUBSET Docs /\ x \in Docs \ (s \ {x}) /\ (s \ {x}) \cup {x} = s
        BY <3>1
      <3>3. g[(s \ {x}) \cup {x}] = g[s \ {x}] + w[x]
        BY <1>1, <3>2
      <3> QED
        BY <3>1, <3>2, <3>3
    <2>2. Eq(g)
      <3>1. \A s \in SUBSET Docs : g[s] = IF s = {} THEN 0
                                          ELSE LET x == CHOOSE x \in s : TRUE
                                               IN  g[s \ {x}] + w[x]
        BY <1>1, <2>1
      <3> QED
        BY <3>1
    <2>3. Eq(f)
      <3> HIDE DEF Eq
      <3> QED
        BY <2>2
    <2>4. Sum(w) = f[Docs]
      BY DEF Sum, FoldSet, MapThenFoldSet
    <2>5. \A s \in SUBSET Docs : s # {} =>
             LET x == CHOOSE x \in s : TRUE IN f[s] = f[s \ {x}] + w[x]
      <3> HIDE DEF f
      <3> QED
        BY <2>3
    <2>6. f[{}] = 0
      <3> HIDE DEF f
      <3> QED
        BY <2>3
    <2> DEFINE T == {s \in SUBSET Docs : f[s] # g[s]}
    <2>7. T = {}
      <3> SUFFICES ASSUME T # {} PROVE FALSE
        OBVIOUS
      <3>1. PICK s \in T : \A x \in s : s \ {x} \notin T
        <4>1. T \in SUBSET SUBSET Docs
          OBVIOUS
        <4> HIDE DEF T
        <4> QED
          BY <4>1, MinimalSubset
      <3> HIDE DEF f
      <3>2. s # {}
        BY <1>1, <2>6, <3>1
      <3> DEFINE x == CHOOSE x \in s : TRUE
      <3>3. x \in s /\ s \ {x} \in SUBSET Docs /\ g[s] = g[s \ {x}] + w[x]
        BY <2>1, <3>1, <3>2
      <3>4. f[s] = f[s \ {x}] + w[x]
        BY <2>5, <3>1, <3>2
      <3> HIDE DEF x
      <3>5. f[s \ {x}] = g[s \ {x}]
        BY <3>1, <3>3
      <3> QED
        BY <3>1, <3>3, <3>4, <3>5
    <2> HIDE DEF f
    <2> QED
      BY <2>4, <2>7
  <1> QED
    BY <1>1, <1>2

\* One more chunk of one document is one more in all.
LEMMA SumOneMore ==
    ASSUME NEW w \in [Docs -> Nat], NEW v \in [Docs -> Nat], NEW d \in Docs,
           \A x \in Docs : v[x] = IF x = d THEN w[x] + 1 ELSE w[x]
    PROVE  Sum(v) = Sum(w) + 1
  <1>1. PICK g \in [SUBSET Docs -> Nat] :
               /\ g[{}] = 0
               /\ \A A \in SUBSET Docs : \A x \in Docs \ A : g[A \cup {x}] = g[A] + w[x]
               /\ g[Docs] = Sum(w)
    BY SumIsASum
  <1>2. PICK h \in [SUBSET Docs -> Nat] :
               /\ h[{}] = 0
               /\ \A A \in SUBSET Docs : \A x \in Docs \ A : h[A \cup {x}] = h[A] + v[x]
               /\ h[Docs] = Sum(v)
    BY SumIsASum
  <1> DEFINE T == {A \in SUBSET Docs : h[A] = g[A] + (IF d \in A THEN 1 ELSE 0)}
  <1>3. {} \in T
    BY <1>1, <1>2
  <1>4. \A A \in T : \A x \in Docs \ A : A \cup {x} \in T
    <2> SUFFICES ASSUME NEW A \in T, NEW x \in Docs \ A PROVE A \cup {x} \in T
      OBVIOUS
    <2>1. h[A \cup {x}] = h[A] + v[x] /\ g[A \cup {x}] = g[A] + w[x]
      BY <1>1, <1>2
    <2>2. h[A] = g[A] + (IF d \in A THEN 1 ELSE 0)
      OBVIOUS
    <2>3. g[A] \in Nat /\ h[A] \in Nat /\ w[x] \in Nat /\ v[x] \in Nat
      OBVIOUS
    <2>4. A \cup {x} \in SUBSET Docs
      OBVIOUS
    <2>5. h[A \cup {x}] = g[A \cup {x}] + (IF d \in A \cup {x} THEN 1 ELSE 0)
      <3>1. CASE x = d
        BY <2>1, <2>2, <2>3, <3>1
      <3>2. CASE x # d
        BY <2>1, <2>2, <2>3, <3>2
      <3> QED
        BY <3>1, <3>2
    <2> QED
      BY <2>4, <2>5
  <1>5. Docs \in T
    <2>1. T \in SUBSET SUBSET Docs
      OBVIOUS
    <2> HIDE DEF T
    <2>2. T = SUBSET Docs
      BY <1>3, <1>4, <2>1, SubsetInduction
    <2> QED
      BY <2>2
  <1> QED
    BY <1>1, <1>2, <1>5

LEMMA SumNothing ==
    ASSUME NEW w \in [Docs -> Nat], \A d \in Docs : w[d] = 0
    PROVE  Sum(w) = 0
  <1>1. PICK g \in [SUBSET Docs -> Nat] :
               /\ g[{}] = 0
               /\ \A A \in SUBSET Docs : \A x \in Docs \ A : g[A \cup {x}] = g[A] + w[x]
               /\ g[Docs] = Sum(w)
    BY SumIsASum
  <1> DEFINE T == {A \in SUBSET Docs : g[A] = 0}
  <1>2. {} \in T /\ \A A \in T : \A x \in Docs \ A : A \cup {x} \in T
    BY <1>1
  <1>3. Docs \in T
    <2>1. T \in SUBSET SUBSET Docs
      OBVIOUS
    <2> HIDE DEF T
    <2>2. T = SUBSET Docs
      BY <1>2, <2>1, SubsetInduction
    <2> QED
      BY <2>2
  <1> QED
    BY <1>1, <1>3

\* A sync that has not read the checkpoint.
Early == {"idle", "launch", "open", "checkpoint"}
\* A sync that has a set of seen documents to go by.
Counting == {"checkpoint", "list", "collect", "ingest", "rest", "save", "finish"}

\* What a sync adds to the total it read is what it put into the store since: it stores
\* only documents of which there was nothing when it began, so that every chunk it counts
\* is a new one.
CountOf(s) ==
    /\ pc[s] \notin {"ingest", "rest"} => fresh[s] = 0
    /\ pc[s] \in Early \cup {"list"} => done[s] = 0
    /\ pc[s] \notin Early =>
         /\ prior[s] + done[s] + fresh[s] <= Total
         /\ faults = 0 => prior[s] + done[s] + fresh[s] = Total
    /\ pc[s] \in Counting =>
         \A d \in Docs : d \notin seen[s] => stored[d] = IF d = doc[s] THEN chunk[s] ELSE 0
    /\ doc[s] \notin seen[s]

Counted ==
  ~overlapped =>
    /\ \A r, s \in Syncs : Alive(r) /\ Alive(s) => r = s
    /\ items <= Total
    /\ \A s \in Syncs : CountOf(s)
    /\ faults = 0 /\ (\A s \in Syncs : pc[s] \in Early) => items = Total

LEMMA TotalIsNat == TypeOK => Total \in Nat
  <1> SUFFICES ASSUME TypeOK PROVE Total \in Nat
    OBVIOUS
  <1>1. stored \in [Docs -> Nat]
    BY DEF TypeOK
  <1> QED
    BY <1>1, SumIsASum DEF Total

LEMMA TotalStays == stored' = stored => Total' = Total
  BY DEF Total

LEMMA InitCounted == Init => Counted
  <1> SUFFICES ASSUME Init PROVE Counted
    OBVIOUS
  <1>1. Total = 0
    <2>1. stored \in [Docs -> Nat] /\ \A d \in Docs : stored[d] = 0
      BY DEF Init
    <2> QED
      BY <2>1, SumNothing DEF Total
  <1>2. \A s \in Syncs : CountOf(s)
    BY DEF Init, CountOf, Early, Counting
  <1> QED
    BY <1>1, <1>2 DEF Init, Counted, Alive

LEMMA CheckCounts ==
    ASSUME TypeOK, Counted, NEW s \in Syncs, Check(s)
    PROVE  Counted'
  BY TotalIsNat, TotalStays DEF Check, Goto, row, TypeOK, Counted, CountOf, Alive, Early, Counting, Ingesting

LEMMA LaunchCounts ==
    ASSUME TypeOK, Counted, NEW s \in Syncs, Launch(s)
    PROVE  Counted'
  BY TotalIsNat, TotalStays DEF Launch, Begins, Goto, row, TypeOK, Counted, CountOf, Alive, Early, Counting, Ingesting

LEMMA RunCommandCounts ==
    ASSUME TypeOK, Counted, NEW s \in Syncs, RunCommand(s)
    PROVE  Counted'
  BY TotalIsNat, TotalStays DEF RunCommand, Begins, Goto, row, TypeOK, Counted, CountOf, Alive, Early, Counting, Ingesting

LEMMA OpenCounts ==
    ASSUME TypeOK, Counted, NEW s \in Syncs, Open(s)
    PROVE  Counted'
  BY TotalIsNat, TotalStays DEF Open, Goto, row, TypeOK, Counted, CountOf, Alive, Early, Counting, Ingesting

LEMMA ReadCheckpointCounts ==
    ASSUME TypeOK, Counted, NEW s \in Syncs, ReadCheckpoint(s)
    PROVE  Counted'
  BY TotalIsNat, TotalStays DEF ReadCheckpoint, Goto, row, TypeOK, Counted, CountOf, Alive, Early, Counting, Ingesting

LEMMA ListCounts ==
    ASSUME TypeOK, Counted, NEW s \in Syncs, List(s)
    PROVE  Counted'
  BY TotalIsNat, TotalStays DEF List, Goto, row, TypeOK, Counted, CountOf, Alive, Early, Counting, Ingesting

LEMMA CollectCounts ==
    ASSUME TypeOK, Counted, NEW s \in Syncs, Collect(s)
    PROVE  Counted'
  BY TotalIsNat, TotalStays DEF Collect, Goto, row, TypeOK, Counted, CountOf, Alive, Early, Counting, Ingesting

LEMMA NextDocCounts ==
    ASSUME TypeOK, Counted, NEW s \in Syncs, NextDoc(s)
    PROVE  Counted'
  BY TotalIsNat, TotalStays DEF NextDoc, row, TypeOK, Counted, CountOf, Alive, Early, Counting, Ingesting

LEMMA BatchDoneCounts ==
    ASSUME TypeOK, Counted, NEW s \in Syncs, BatchDone(s)
    PROVE  Counted'
  BY TotalIsNat, TotalStays DEF BatchDone, Goto, row, TypeOK, Counted, CountOf, Alive, Early, Counting, Ingesting

LEMMA SaveCounts ==
    ASSUME TypeOK, Counted, NEW s \in Syncs, Save(s)
    PROVE  Counted'
  BY TotalIsNat, TotalStays DEF Save, SaveCheckpoint, Goto, TypeOK, Counted, CountOf, Alive, Early, Counting, Ingesting

LEMMA FinishCounts ==
    ASSUME TypeOK, Counted, NEW s \in Syncs, Finish(s)
    PROVE  Counted'
  BY TotalIsNat, TotalStays DEF Finish, SaveCheckpoint, Retire, TypeOK, Counted, CountOf, Alive, Early, Counting, Ingesting

LEMMA SaveErrorCounts ==
    ASSUME TypeOK, Counted, NEW s \in Syncs, SaveError(s)
    PROVE  Counted'
  BY TotalIsNat, TotalStays DEF SaveError, SaveCheckpoint, Retire, TypeOK, Counted, CountOf, Alive, Early, Counting, Ingesting

LEMMA FailCounts ==
    ASSUME TypeOK, Counted, NEW s \in Syncs, Fail(s)
    PROVE  Counted'
  BY TotalIsNat, TotalStays DEF Fail, Fault, Goto, row, TypeOK, Counted, CountOf, Alive, Early, Counting, Ingesting

LEMMA RaiseCounts ==
    ASSUME TypeOK, Counted, NEW s \in Syncs, Raise(s)
    PROVE  Counted'
  BY TotalIsNat, TotalStays DEF Raise, Fault, Retire, row, TypeOK, Counted, CountOf, Alive, Early, Counting, Ingesting

LEMMA CommandDiesCounts ==
    ASSUME TypeOK, Counted, NEW s \in Syncs, CommandDies(s)
    PROVE  Counted'
  BY TotalIsNat, TotalStays DEF CommandDies, Fault, Retire, row, TypeOK, Counted, CountOf, Alive, Early, Counting, Ingesting

LEMMA ServerDiesCounts ==
    ASSUME TypeOK, Counted, ServerDies
    PROVE  Counted'
  BY TotalIsNat, TotalStays DEF ServerDies, Fault, Retire, row, TypeOK, Counted, CountOf, Alive, Early, Counting, Ingesting

LEMMA ArriveCounts ==
    ASSUME TypeOK, Counted, NEW d \in Docs, Arrive(d)
    PROVE  Counted'
  BY TotalIsNat, TotalStays DEF Arrive, local, row, TypeOK, Counted, CountOf, Alive, Early, Counting, Ingesting

LEMMA StoreChunkCounts ==
    ASSUME TypeOK, Counted, NEW s \in Syncs, StoreChunk(s)
    PROVE  Counted'
  <1> SUFFICES ASSUME ~overlapped PROVE Counted'
    BY DEF StoreChunk, Counted
  <1> DEFINE d == doc[s]
  <1>1. pc[s] \in {"ingest", "rest"} /\ d \in Docs /\ d \notin seen[s]
    BY DEF StoreChunk, TypeOK, Ingesting, Counted, CountOf
  <1>2. stored[d] = chunk[s]
    BY <1>1 DEF Counted, CountOf, Counting
  <1>3. Total' = Total + 1
    <2>1. stored \in [Docs -> Nat] /\ stored' \in [Docs -> Nat]
      BY <1>1 DEF StoreChunk, TypeOK
    <2>2. \A x \in Docs : stored'[x] = IF x = d THEN stored[x] + 1 ELSE stored[x]
      BY <1>1, <1>2 DEF StoreChunk, TypeOK
    <2> QED
      BY <1>1, <2>1, <2>2, SumOneMore DEF Total
  <1> QED
    BY <1>1, <1>2, <1>3, TotalIsNat
       DEF StoreChunk, row, TypeOK, Counted, CountOf, Alive, Early, Counting, Ingesting

LEMMA NextCounts == Typing /\ Counted /\ [Next]_vars => Counted'
  <1> SUFFICES ASSUME Typing, Counted, [Next]_vars PROVE Counted'
    OBVIOUS
  <1>0. TypeOK
    BY DEF Typing
  <1>1. CASE UNCHANGED vars
    BY <1>1, TotalStays DEF vars, row, local, Counted, CountOf, Alive
  <1>2. CASE Next
    <2>1. ASSUME NEW d \in Docs, Arrive(d) PROVE Counted'
      BY <1>0, <2>1, ArriveCounts
    <2>2. ASSUME NEW s \in Syncs, Check(s) \/ RunCommand(s) \/ Fail(s) \/ Raise(s) \/ CommandDies(s)
          PROVE  Counted'
      BY <1>0, <2>2, CheckCounts, RunCommandCounts, FailCounts, RaiseCounts, CommandDiesCounts
    <2>3. ASSUME NEW s \in Syncs, Step(s) PROVE Counted'
      BY <1>0, <2>3, LaunchCounts, OpenCounts, ReadCheckpointCounts, ListCounts, CollectCounts,
         NextDocCounts, StoreChunkCounts, BatchDoneCounts, SaveCounts, FinishCounts,
         SaveErrorCounts DEF Step
    <2>4. CASE ServerDies
      BY <1>0, <2>4, ServerDiesCounts
    <2> QED
      BY <1>2, <2>1, <2>2, <2>3, <2>4 DEF Next
  <1> QED
    BY <1>1, <1>2

\* items_synced is the number of chunks in the store as long as syncs do not overlap,
\* save for the batches that failed, however many documents, batches and failures there
\* are (sync_engine.py 85-140, store.py).
THEOREM SyncTotalIsHonest == Spec => []TotalIsHonest
  <1>1. Init => Typing /\ Counted
    BY InitType, InitCounted
  <1>2. Typing /\ Counted /\ [Next]_vars => (Typing /\ Counted)'
    BY NextType, NextCounts
  <1>3. Typing /\ Counted => TotalIsHonest
    BY DEF Typing, TypeOK, Counted, TotalIsHonest, Alive, Early
  <1> QED
    BY <1>1, <1>2, <1>3, PTL DEF Spec
=============================================================================
