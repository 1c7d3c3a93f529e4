-------------------------- MODULE Approvals_proofs --------------------------
(***************************************************************************)
(* Proofs about Approvals for every value of its constants.                *)
(***************************************************************************)
EXTENDS ApprovalsProps, TLAPS

USE ApprovalsAssumption

LEMMA InitType == Init => TypeOK
  BY DEF Init, TypeOK, Statuses, Decisions, ProgramCounters, Replies, NoReply

\* Returning keeps the local types.
LEMMA ReturnType ==
    ASSUME TypeOK, NEW x \in Executors, Return(x)
    PROVE  /\ pc' \in [Executors -> ProgramCounters]
           /\ proposed' \in [Executors -> SUBSET Actions]
           /\ rule' \in [Executors -> Decisions]
           /\ current' \in [Executors -> Actions \cup {NoAction}]
           /\ autos' \in [Executors -> SUBSET Actions]
           /\ asked' \in [Executors -> SUBSET Actions]
           /\ batch' \in [Executors -> SUBSET Actions]
           /\ \A y \in Executors :
                pc'[y] \in {"queue", "approve", "mark"} <=> current'[y] \in Actions
  BY DEF TypeOK, Return, Goto, ProgramCounters, Decisions

\* The steps of an executor keep the types.
LEMMA ExecutorType ==
    ASSUME TypeOK, NEW x \in Executors, Proceed(x) \/ Dies(x) \/ ReadApproved(x)
    PROVE  TypeOK'
  <1> USE DEF TypeOK, Goto, store, history
  <1>1. CASE Route(x)
    <2>1. PICK a \in proposed[x] : Route(x)!2!(a)
      BY <1>1 DEF Route
    <2>2. a \in Actions /\ permission[KeyOf[a]] \in Decisions
      OBVIOUS
    <2>3. CASE permission[KeyOf[a]] = "always_deny"
      BY <1>1, <2>1, <2>2, <2>3 DEF Route
    <2>4. CASE permission[KeyOf[a]] # "always_deny"
      BY <1>1, <2>1, <2>2, <2>4 DEF Route, ProgramCounters
    <2> QED
      BY <2>3, <2>4
  <1>2. CASE Queue(x)
    <2>1. status' \in [Actions -> Statuses]
      BY <1>2 DEF Queue, Statuses
    <2>2. CASE TierOf[current[x]] = "trivial" \/ rule[x] = "always_approve"
      BY <1>2, <2>1, <2>2 DEF Queue, ProgramCounters
    <2>3. CASE ~(TierOf[current[x]] = "trivial" \/ rule[x] = "always_approve")
      <3>1. current[x] \in Actions /\ pc[x] = "queue" /\ "route" \in ProgramCounters
        BY <1>2 DEF Queue, ProgramCounters
      <3>2. /\ pc' = [pc EXCEPT ![x] = "route"]
            /\ asked' = [asked EXCEPT ![x] = @ \cup {current[x]}]
            /\ current' = [current EXCEPT ![x] = NoAction]
        BY <1>2, <2>3 DEF Queue
      <3>3. /\ pc' \in [Executors -> ProgramCounters]
            /\ asked' \in [Executors -> SUBSET Actions]
            /\ current' \in [Executors -> Actions \cup {NoAction}]
            /\ \A y \in Executors :
                 pc'[y] \in {"queue", "approve", "mark"} <=> current'[y] \in Actions
        BY <3>1, <3>2
      <3> QED
        BY <1>2, <2>1, <3>3 DEF Queue
    <2> QED
      BY <2>2, <2>3
  <1>3. CASE AutoApprove(x)
    <2>1. status' \in [Actions -> Statuses] /\ grants' \in [Actions -> Nat]
      BY <1>3 DEF AutoApprove, Granted, Statuses
    <2>2. consent' \in [Actions -> BOOLEAN]
      BY <1>3 DEF AutoApprove
    <2> QED
      BY <1>3, <2>1, <2>2 DEF AutoApprove, ProgramCounters
  <1>4. CASE WriteBack(x)
    <2>1. PICK a \in asked[x] : WriteBack(x)!2!(a)
      BY <1>4 DEF WriteBack
    <2>2. status' \in [Actions -> Statuses]
      BY <2>1 DEF Statuses
    <2>3. CASE asked[x] = {a}
      BY <1>4, <2>1, <2>2, <2>3, ReturnType DEF WriteBack
    <2>4. CASE asked[x] # {a}
      BY <1>4, <2>1, <2>2, <2>4 DEF WriteBack
    <2> QED
      BY <2>3, <2>4
  <1>5. CASE ReadApproved(x)
    BY <1>5 DEF ReadApproved, ToExecute, ProgramCounters
  <1>6. CASE Perform(x)
    <2>1. effects' \in [Actions -> Nat]
      BY <1>6 DEF Perform
    <2> QED
      BY <1>6, <2>1 DEF Perform, ProgramCounters
  <1>7. CASE MarkExecuted(x)
    <2>1. status' \in [Actions -> Statuses]
      BY <1>7 DEF MarkExecuted, Statuses
    <2> QED
      BY <1>7, <2>1 DEF MarkExecuted, ProgramCounters
  <1>8. CASE Finish(x)
    <2>1. CASE x \in Runs /\ Notifies /\ asked[x] # {}
      BY <1>8, <2>1 DEF Finish, ProgramCounters
    <2>2. CASE ~(x \in Runs /\ Notifies /\ asked[x] # {})
      BY <1>8, <2>2, ReturnType DEF Finish
    <2> QED
      BY <2>1, <2>2
  <1>9. CASE Dies(x)
    BY <1>9, ReturnType DEF Dies
  <1> QED
    BY <1>1, <1>2, <1>3, <1>4, <1>5, <1>6, <1>7, <1>8, <1>9 DEF Proceed

\* What expire_stale leaves of the statuses.
LEMMA ExpireType ==
    ASSUME TypeOK
    PROVE  /\ ExpiredNow \in [Actions -> Statuses]
           /\ \A a \in Actions : \/ ExpiredNow[a] = status[a]
                                 \/ status[a] = "pending" /\ ExpiredNow[a] = "expired"
  BY DEF TypeOK, ExpiredNow, Statuses

\* The user's answer keeps the types.
LEMMA DecidedType ==
    ASSUME TypeOK, NEW a \in Actions, NEW yes \in BOOLEAN, Decided(a, yes)
    PROVE  /\ status' \in [Actions -> Statuses]
           /\ grants' \in [Actions -> Nat]
           /\ consent' \in [Actions -> BOOLEAN]
  <1>1. CASE yes
    <2>1. /\ status' = [status EXCEPT ![a] = "approved"]
          /\ grants' = [grants EXCEPT ![a] = @ + 1]
          /\ consent' = [consent EXCEPT ![a] = TRUE]
      BY <1>1 DEF Decided, Granted
    <2> QED
      BY <2>1 DEF TypeOK, Statuses
  <1>2. CASE ~yes
    <2>1. /\ status' = [status EXCEPT ![a] = "denied"]
          /\ UNCHANGED <<grants, consent>>
      BY <1>2 DEF Decided
    <2> QED
      BY <2>1 DEF TypeOK, Statuses
  <1> QED
    BY <1>1, <1>2

\* All other steps keep the types.
LEMMA OthersType ==
    ASSUME TypeOK,
           \/ \E r \in Runs : Collect(r)
           \/ \E x \in Callers : QueueTool(x)
           \/ \E a \in Actions : TimePasses(a)
           \/ UserActs \/ Reply \/ Remember \/ ListPending
    PROVE  TypeOK'
  <1>1. ASSUME NEW r \in Runs, Collect(r)
        PROVE  TypeOK'
    BY <1>1, ExpireType DEF TypeOK, Collect, Fresh, Goto, history, ProgramCounters, Executors
  <1>2. ASSUME NEW a \in Actions, TimePasses(a)
        PROVE  TypeOK'
    BY <1>2 DEF TypeOK, TimePasses, local, history
  <1>3. ASSUME NEW a \in Actions, NEW yes \in BOOLEAN, Press(a, yes)
        PROVE  TypeOK'
    BY <1>3, DecidedType DEF TypeOK, Press, local
  <1>4. CASE DecideNext
    <2>1. PICK a \in reply.todo : DecideNext!2!(a)
      BY <1>4 DEF DecideNext
    <2>2. a \in Actions /\ reply.yes \in BOOLEAN
      BY DEF TypeOK, Replies
    <2>3. reply' \in Replies
      BY <2>1, <2>2 DEF TypeOK, Replies, NoReply
    <2> QED
      BY <1>4, <2>1, <2>2, <2>3, DecidedType DEF DecideNext, TypeOK, local
  <1>5. CASE Reply
    <2>1. PICK A \in Answers, yes \in BOOLEAN, how \in {"once", "always", "tool"} :
            reply' = [todo |-> A, remember |-> NoAction, yes |-> yes, how |-> how]
      BY <1>5 DEF Reply
    <2>2. A \subseteq Actions
      BY DEF Answers
    <2>3. reply' \in Replies
      BY <2>1, <2>2 DEF Replies
    <2> QED
      BY <1>5, <2>3 DEF Reply, TypeOK, store, local, history
  <1>6. CASE Remember
    <2>1. reply.remember \in Actions /\ KeyOf[reply.remember] \in Keys
      BY <1>6 DEF Remember, TypeOK, Replies
    <2>2. permission' \in [Keys -> Decisions]
      BY <1>6, <2>1 DEF Remember, TypeOK, Decisions
    <2>3. reply' \in Replies
      BY <1>6 DEF Remember, TypeOK, Replies, NoReply
    <2> QED
      BY <1>6, <2>2, <2>3 DEF Remember, TypeOK, local, history
  <1>7. CASE ListPending
    BY <1>7, ExpireType DEF TypeOK, ListPending, local, history
  <1>8. ASSUME NEW x \in Callers, QueueTool(x)
        PROVE  TypeOK'
    BY <1>8 DEF TypeOK, QueueTool, Fresh, Statuses, local, history
  <1> QED
    BY <1>1, <1>2, <1>3, <1>4, <1>5, <1>6, <1>7, <1>8 DEF UserActs

LEMMA TypeStep ==
    ASSUME TypeOK, [Next]_vars
    PROVE  TypeOK'
  <1>1. CASE UNCHANGED vars
    BY <1>1 DEF TypeOK, vars, store, local, history
  <1>2. CASE Next
    BY <1>2, ExecutorType, OthersType DEF Next, Executors
  <1> QED
    BY <1>1, <1>2

\* The variables of Approvals stay in their types, whatever the tables and the
\* processes are.
THEOREM TypeCorrect == Spec => []TypeOK
  BY InitType, TypeStep, PTL DEF Spec

-----------------------------------------------------------------------------
(* Rows come before everything that acts on them.                          *)

\* Run r is going to queue action a.
Coming(r, a) == a \in proposed[r] \/ (pc[r] = "queue" /\ current[r] = a)

\* An id is free until its row is queued, by the one run that holds it; all
\* other references are to rows that exist.
RowInv ==
    /\ \A r \in Runs, a \in Actions : Coming(r, a) => status[a] = "none"
    /\ \A r, s \in Runs, a \in Actions : Coming(r, a) /\ Coming(s, a) => r = s
    /\ \A r \in Runs : pc[r] = "queue" => current[r] \notin proposed[r]
    /\ \A x \in Executors : \A a \in autos[x] \cup asked[x] \cup batch[x] : status[a] # "none"
    /\ \A x \in Executors : pc[x] \in {"approve", "mark"} => status[current[x]] # "none"
    /\ \A a \in reply.todo : status[a] # "none"

LEMMA RowInit == Init => RowInv
  <1> SUFFICES ASSUME Init PROVE RowInv
    OBVIOUS
  <1>2. reply.todo = {}
    BY DEF Init, NoReply
  <1> QED
    BY <1>2 DEF Init, RowInv, Coming, Executors

\* How a status changes, step by step.
LEMMA StatusMoves ==
    ASSUME TypeOK, [Next]_vars, NEW a \in Actions, status'[a] # status[a]
    PROVE  \/ status[a] = "pending" /\ status'[a] = "expired"
           \/ \E r \in Runs : Queue(r) /\ current[r] = a /\ status'[a] = "pending"
           \/ \E x \in Callers : QueueTool(x) /\ a \in Fresh /\ status'[a] = "pending"
           \/ \E r \in Runs : AutoApprove(r) /\ current[r] = a /\ status'[a] = "approved"
           \/ \E r \in Runs : WriteBack(r) /\ a \in asked[r] /\ status'[a] = "pending"
           \/ \E x \in Executors :
                MarkExecuted(x) /\ current[x] = a /\ status'[a] = "executed"
           \/ UserActs /\ status'[a] \in {"approved", "denied"} /\ (status[a] # "none" \/ a \in reply.todo)
  <1>1. CASE UNCHANGED vars
    BY <1>1 DEF vars, store
  <1>2. ASSUME NEW r \in Runs, Collect(r) PROVE status[a] = "pending" /\ status'[a] = "expired"
    BY <1>2, ExpireType DEF Collect
  <1>3. CASE ListPending
    <2>1. status[a] = "pending" /\ status'[a] = "expired"
      BY <1>3, ExpireType DEF ListPending
    <2> QED
      BY <2>1
  <1>4. ASSUME NEW x \in Executors, Proceed(x) \/ Dies(x) \/ ReadApproved(x)
        PROVE  \/ x \in Runs /\ Queue(x) /\ current[x] = a /\ status'[a] = "pending"
               \/ x \in Runs /\ AutoApprove(x) /\ current[x] = a /\ status'[a] = "approved"
               \/ x \in Runs /\ WriteBack(x) /\ a \in asked[x] /\ status'[a] = "pending"
               \/ MarkExecuted(x) /\ current[x] = a /\ status'[a] = "executed"
    <2>1. CASE x \in Runs /\ Queue(x)
      BY <2>1 DEF Queue, TypeOK
    <2>2. CASE x \in Runs /\ AutoApprove(x)
      BY <2>2 DEF AutoApprove, Granted, TypeOK
    <2>3. CASE x \in Runs /\ WriteBack(x)
      BY <2>3 DEF WriteBack, TypeOK
    <2>4. CASE MarkExecuted(x)
      BY <2>4 DEF MarkExecuted, TypeOK
    <2>5. CASE Route(x) \/ ReadApproved(x) \/ Perform(x) \/ Finish(x) \/ Dies(x)
      BY <2>5 DEF Route, ReadApproved, Perform, Finish, Dies, store
    <2> QED
      BY <1>4, <2>1, <2>2, <2>3, <2>4, <2>5 DEF Proceed
  <1>5. CASE Reply \/ Remember \/ \E b \in Actions : TimePasses(b)
    BY <1>5 DEF Reply, Remember, TimePasses, store
  <1>6. CASE UserActs
    <2>1. ASSUME NEW b \in Actions, NEW yes \in BOOLEAN, Press(b, yes)
          PROVE  status'[a] \in {"approved", "denied"} /\ status[a] # "none"
      BY <2>1 DEF Press, Decided, Granted, Exists, TypeOK
    <2>2. CASE DecideNext
      <3>1. PICK b \in reply.todo : Decided(b, reply.yes)
        BY <2>2 DEF DecideNext
      <3>2. \/ status' = [status EXCEPT ![b] = "approved"]
            \/ status' = [status EXCEPT ![b] = "denied"]
        BY <3>1 DEF Decided, Granted
      <3> QED
        BY <1>6, <3>1, <3>2 DEF TypeOK
    <2> QED
      BY <1>6, <2>1, <2>2 DEF UserActs
  <1>7. ASSUME NEW x \in Callers, QueueTool(x) PROVE a \in Fresh /\ status'[a] = "pending"
    BY <1>7 DEF QueueTool, Fresh, TypeOK
  <1> QED
    BY <1>1, <1>2, <1>3, <1>4, <1>5, <1>6, <1>7 DEF Next, Executors

\* A row never disappears, and only Queue and QueueTool make one.
LEMMA RowsStay ==
    ASSUME TypeOK, RowInv, [Next]_vars, NEW a \in Actions
    PROVE  /\ status[a] # "none" => status'[a] # "none"
           /\ status[a] = "none" /\ status'[a] # "none"
              => \/ \E r \in Runs : Queue(r) /\ current[r] = a
                 \/ \E x \in Callers : QueueTool(x)
  <1>1. CASE status'[a] = status[a]
    BY <1>1
  <1>2. CASE status'[a] # status[a]
    <2> USE DEF RowInv, TypeOK
    <2>1. ASSUME NEW r \in Runs, AutoApprove(r), current[r] = a
          PROVE  status[a] # "none"
      BY <2>1 DEF AutoApprove, Executors
    <2>2. ASSUME NEW x \in Executors, MarkExecuted(x), current[x] = a
          PROVE  status[a] # "none"
      BY <2>2 DEF MarkExecuted
    <2>3. ASSUME NEW r \in Runs, a \in asked[r]
          PROVE  status[a] # "none"
      BY <2>3 DEF Executors
    <2> QED
      BY <1>2, <2>1, <2>2, <2>3, StatusMoves
  <1> QED
    BY <1>1, <1>2

\* The steps of an executor keep RowInv.
LEMMA RowExecutor ==
    ASSUME TypeOK, RowInv, NEW x \in Executors,
           \/ x \in Runs /\ Collect(x)
           \/ Proceed(x) \/ Dies(x) \/ ReadApproved(x)
    PROVE  RowInv'
  <1> USE DEF RowInv, Coming, Goto, store, history, Executors
  <1>t. /\ status \in [Actions -> Statuses]
        /\ pc \in [Executors -> ProgramCounters]
        /\ proposed \in [Executors -> SUBSET Actions]
        /\ current \in [Executors -> Actions \cup {NoAction}]
        /\ autos \in [Executors -> SUBSET Actions]
        /\ asked \in [Executors -> SUBSET Actions]
        /\ batch \in [Executors -> SUBSET Actions]
        /\ \A y \in Executors :
             pc[y] \in {"queue", "approve", "mark"} <=> current[y] \in Actions
        /\ reply.todo \subseteq Actions
    BY DEF TypeOK, Replies
  <1>0. CASE x \in Runs /\ Collect(x)
    <2>1. \A a \in Actions : status'[a] = "none" <=> status[a] = "none"
      BY <1>t, <1>0, ExpireType DEF Collect
    <2>2. PICK P \in SUBSET Fresh : proposed' = [proposed EXCEPT ![x] = P]
      BY <1>t, <1>0 DEF Collect
    <2>3. \A a \in P : status[a] = "none" /\ \A r \in Runs : a \notin proposed[r] /\ a # current[r]
      BY <1>t, <2>2 DEF Fresh
    <2>4. UNCHANGED <<current, autos, asked, batch, reply>> /\ pc[x] = "idle" /\ pc' = [pc EXCEPT ![x] = "route"]
      BY <1>t, <1>0 DEF Collect
    <2>5. \A r \in Runs : pc'[r] = "queue" => pc[r] = "queue" /\ r # x
      BY <1>t, <2>4
    <2>6. \A r \in Runs, a \in Actions :
            Coming(r, a)' => Coming(r, a) \/ (r = x /\ a \in P)
      BY <1>t, <2>2, <2>4, <2>5
    <2>7. \A r \in Runs, a \in Actions : Coming(r, a) => a \notin P
      BY <1>t, <2>3
    <2>8. \A r, s \in Runs, a \in Actions : Coming(r, a)' /\ Coming(s, a)' => r = s
      BY <1>t, <2>6, <2>7
    <2>9. \A r \in Runs, a \in Actions : Coming(r, a)' => status'[a] = "none"
      BY <1>t, <2>1, <2>3, <2>6
    <2>10. \A r \in Runs : pc'[r] = "queue" => current'[r] \notin proposed'[r]
      BY <1>t, <2>2, <2>4, <2>5
    <2> QED
      BY <1>t, <2>1, <2>4, <2>8, <2>9, <2>10
  <1>1. CASE x \in Runs /\ Route(x)
    <2>1. PICK a \in proposed[x] : Route(x)!2!(a)
      BY <1>t, <1>1 DEF Route
    <2>2. a \in Actions /\ UNCHANGED <<status, autos, asked, batch, reply>> /\ pc[x] = "route"
      BY <1>t, <1>1 DEF Route
    <2>3. CASE permission[KeyOf[a]] = "always_deny"
      <3>1. UNCHANGED <<pc, current>> /\ proposed' = [proposed EXCEPT ![x] = @ \ {a}]
        BY <1>t, <2>1, <2>3
      <3>2. \A r \in Runs, b \in Actions : Coming(r, b)' => Coming(r, b)
        BY <1>t, <3>1
      <3> QED
        BY <1>t, <2>2, <3>1, <3>2
    <2>4. CASE permission[KeyOf[a]] # "always_deny"
      BY <1>t, <1>1, <2>1, <2>2, <2>4
    <2> QED
      BY <1>t, <2>3, <2>4
  <1>2. CASE x \in Runs /\ Queue(x)
    <2> DEFINE a == current[x]
    <2>1. a \in Actions /\ a \notin proposed[x]
      BY <1>t, <1>2 DEF Queue
    <2>2. status' = [status EXCEPT ![a] = "pending"] /\ pc[x] = "queue"
      BY <1>t, <1>2 DEF Queue
    <2>3. \A r \in Runs : Coming(r, a) => r = x
      BY <1>t, <1>2, <2>1, <2>2
    <2>4. CASE TierOf[a] = "trivial" \/ rule[x] = "always_approve"
      BY <1>t, <1>2, <2>1, <2>2, <2>3, <2>4 DEF Queue
    <2>5. CASE ~(TierOf[a] = "trivial" \/ rule[x] = "always_approve")
      <3>1. /\ pc' = [pc EXCEPT ![x] = "route"]
            /\ asked' = [asked EXCEPT ![x] = @ \cup {a}]
            /\ current' = [current EXCEPT ![x] = NoAction]
            /\ UNCHANGED <<proposed, autos, batch, reply>>
        BY <1>t, <1>2, <2>5 DEF Queue
      <3> QED
        BY <1>t, <2>1, <2>2, <2>3, <3>1
    <2> QED
      BY <1>t, <2>4, <2>5
  <1>3. CASE x \in Runs /\ AutoApprove(x)
    <2>1. /\ pc[x] = "approve" /\ current[x] \in Actions
          /\ status' = [status EXCEPT ![current[x]] = "approved"]
      BY <1>t, <1>3 DEF AutoApprove, Granted
    <2>2. status[current[x]] # "none"
      BY <1>t, <2>1
    <2>3. \A a \in Actions : status'[a] = "none" <=> status[a] = "none"
      BY <1>t, <2>1, <2>2
    <2> QED
      BY <1>t, <1>3, <2>1, <2>2, <2>3 DEF AutoApprove
  <1>4. CASE x \in Runs /\ WriteBack(x)
    <2>1. PICK a \in asked[x] : WriteBack(x)!2!(a)
      BY <1>t, <1>4 DEF WriteBack
    <2>2. \A b \in Actions : status'[b] = "none" <=> status[b] = "none"
      BY <1>t, <2>1
    <2>3. CASE asked[x] = {a}
      <3>1. Return(x) /\ UNCHANGED reply
        BY <1>t, <1>4, <2>1, <2>3 DEF WriteBack
      <3>2. \A r \in Runs, b \in Actions : Coming(r, b)' => Coming(r, b)
        BY <1>t, <3>1 DEF Return
      <3>3. \A r \in Runs : pc'[r] = "queue" => pc[r] = "queue" /\ r # x
        BY <1>t, <3>1 DEF Return
      <3> QED
        BY <1>t, <2>2, <3>1, <3>2, <3>3 DEF Return
    <2>4. CASE asked[x] # {a}
      BY <1>t, <1>4, <2>1, <2>2, <2>4 DEF WriteBack
    <2> QED
      BY <1>t, <2>3, <2>4
  <1>5. CASE ReadApproved(x)
    BY <1>t, <1>5 DEF ReadApproved, ToExecute
  <1>6. CASE Perform(x)
    <2>1. PICK a \in batch[x] : /\ batch' = [batch EXCEPT ![x] = @ \ {a}]
                               /\ current' = [current EXCEPT ![x] = a]
      BY <1>t, <1>6 DEF Perform
    <2> QED
      BY <1>t, <1>6, <2>1 DEF Perform
  <1>7. CASE MarkExecuted(x)
    <2>1. \A b \in Actions : status'[b] = "none" <=> status[b] = "none"
      BY <1>t, <1>7 DEF MarkExecuted
    <2> QED
      BY <1>t, <1>7, <2>1 DEF MarkExecuted
  <1>8. CASE Finish(x)
    <2>1. CASE x \in Runs /\ Notifies /\ asked[x] # {}
      BY <1>t, <1>8, <2>1 DEF Finish
    <2>2. CASE ~(x \in Runs /\ Notifies /\ asked[x] # {})
      BY <1>t, <1>8, <2>2 DEF Finish, Return
    <2> QED
      BY <1>t, <2>1, <2>2
  <1>9. CASE Dies(x)
    BY <1>t, <1>9 DEF Dies, Return
  <1> QED
    BY <1>t, <1>0, <1>1, <1>2, <1>3, <1>4, <1>5, <1>6, <1>7, <1>8, <1>9 DEF Proceed

\* What keeps RowInv when the executors do not move.
LEMMA RowFrame ==
    ASSUME TypeOK, RowInv, UNCHANGED local,
           \A a \in Actions : status'[a] = "none" <=> status[a] = "none",
           \A a \in reply'.todo : a \in Actions /\ status[a] # "none"
    PROVE  RowInv'
  BY DEF TypeOK, RowInv, Coming, local, Executors

LEMMA RowStep ==
    ASSUME TypeOK, RowInv, [Next]_vars
    PROVE  RowInv'
  <1>r. \A a \in reply.todo : a \in Actions /\ status[a] # "none"
    BY DEF TypeOK, RowInv, Replies
  <1>1. CASE UNCHANGED vars
    BY <1>1, <1>r, RowFrame DEF vars, store
  <1>2. ASSUME NEW a \in Actions, TimePasses(a) PROVE RowInv'
    BY <1>2, <1>r, RowFrame DEF TimePasses
  <1>3. ASSUME NEW a \in Actions, NEW yes \in BOOLEAN, Press(a, yes) PROVE RowInv'
    <2>1. \/ status' = [status EXCEPT ![a] = "approved"]
          \/ status' = [status EXCEPT ![a] = "denied"]
      BY <1>3 DEF Press, Decided, Granted
    <2>2. \A b \in Actions : status'[b] = "none" <=> status[b] = "none"
      BY <1>3, <2>1 DEF TypeOK, Press, Exists
    <2> QED
      BY <1>3, <1>r, <2>2, RowFrame DEF Press
  <1>4. CASE DecideNext
    <2>1. PICK a \in reply.todo : DecideNext!2!(a)
      BY <1>4 DEF DecideNext
    <2>2. \/ status' = [status EXCEPT ![a] = "approved"]
          \/ status' = [status EXCEPT ![a] = "denied"]
      BY <2>1 DEF Decided, Granted
    <2>3. \A b \in Actions : status'[b] = "none" <=> status[b] = "none"
      BY <1>r, <2>1, <2>2 DEF TypeOK
    <2>4. reply'.todo \subseteq reply.todo
      BY <2>1 DEF TypeOK, Replies, NoReply
    <2> QED
      BY <1>4, <1>r, <2>3, <2>4, RowFrame DEF DecideNext
  <1>5. CASE Reply
    <2>1. PICK A \in Answers, yes \in BOOLEAN, how \in {"once", "always", "tool"} :
            reply' = [todo |-> A, remember |-> NoAction, yes |-> yes, how |-> how]
      BY <1>5 DEF Reply
    <2>2. \A a \in A : a \in Actions /\ status[a] # "none"
      BY DEF Answers, Exists
    <2> QED
      BY <1>5, <2>1, <2>2, RowFrame DEF Reply, store
  <1>6. CASE Remember
    <2>1. reply'.todo \subseteq reply.todo
      BY <1>6 DEF Remember, TypeOK, Replies, NoReply
    <2> QED
      BY <1>6, <1>r, <2>1, RowFrame DEF Remember
  <1>7. CASE ListPending
    BY <1>7, <1>r, ExpireType, RowFrame DEF ListPending
  <1>8. ASSUME NEW x \in Callers, QueueTool(x) PROVE RowInv'
    <2>1. PICK a \in Fresh : status' = [status EXCEPT ![a] = "pending"]
      BY <1>8 DEF QueueTool
    <2>2. \A r \in Runs : ~Coming(r, a)
      BY <2>1 DEF Fresh, Coming
    <2> QED
      BY <1>8, <2>1, <2>2 DEF QueueTool, RowInv, Coming, TypeOK, local, Executors
  <1> QED
    BY <1>1, <1>2, <1>3, <1>4, <1>5, <1>6, <1>7, <1>8, RowExecutor
       DEF Next, UserActs, Executors

-----------------------------------------------------------------------------
(* An answer is kept.                                                      *)

\* Only runs of a system with a notification channel write back.
NotifyInv == \A x \in Executors : pc[x] = "notify" => Notifies

LEMMA NotifyStep ==
    ASSUME TypeOK, NotifyInv, [Next]_vars
    PROVE  NotifyInv'
  <1> USE DEF TypeOK, NotifyInv, Goto
  <1>1. CASE UNCHANGED vars
    BY <1>1 DEF vars, local
  <1>2. CASE UNCHANGED local
    BY <1>2 DEF local
  <1>3. ASSUME NEW x \in Executors,
               (x \in Runs /\ Collect(x)) \/ Proceed(x) \/ Dies(x) \/ ReadApproved(x)
        PROVE  NotifyInv'
    <2>1. CASE Finish(x)
      BY <2>1 DEF Finish, Return
    <2> QED
      BY <1>3, <2>1 DEF Collect, Proceed, Dies, ReadApproved, Route, Queue, AutoApprove,
         WriteBack, Perform, MarkExecuted, Return
  <1>4. \A a \in Actions, yes \in BOOLEAN :
          Press(a, yes) \/ TimePasses(a) => UNCHANGED local
    BY DEF Press, TimePasses
  <1>5. DecideNext \/ Reply \/ Remember \/ ListPending => UNCHANGED local
    BY DEF DecideNext, Reply, Remember, ListPending
  <1>6. \A x \in Callers : QueueTool(x) => UNCHANGED local
    BY DEF QueueTool
  <1> QED
    BY <1>1, <1>2, <1>3, <1>4, <1>5, <1>6 DEF Next, UserActs, Executors

\* With no notification channel, nothing but an execution under way and the
\* auto-approval of a fresh row replaces an answer of the user.
THEOREM AnswersAreKept == Spec => DecisionKeptUnlessNotified
  <1>1. Init => TypeOK /\ RowInv /\ NotifyInv
    BY InitType, RowInit DEF Init, NotifyInv
  <1>2. TypeOK /\ RowInv /\ NotifyInv /\ [Next]_vars => (TypeOK /\ RowInv /\ NotifyInv)'
    BY TypeStep, RowStep, NotifyStep
  <1>3. ASSUME TypeOK, RowInv, NotifyInv, [Next]_vars, ~Notifies, NEW a \in Actions,
               status[a] \in {"approved", "denied"}, status'[a] # status[a]
        PROVE  \/ UserActs
               \/ \E x \in Executors :
                    /\ current[x] = a
                    /\ \/ pc[x] = "mark" /\ status'[a] = "executed"
                       \/ pc[x] = "approve" /\ status'[a] = "approved"
    <2>1. ASSUME NEW r \in Runs, Queue(r), current[r] = a PROVE FALSE
      BY <1>3, <2>1 DEF Queue, RowInv, Coming
    <2>2. ASSUME NEW r \in Runs, WriteBack(r) PROVE FALSE
      BY <1>3, <2>2 DEF WriteBack, NotifyInv, Executors
    <2>3. ASSUME NEW r \in Runs, AutoApprove(r) PROVE pc[r] = "approve" /\ r \in Executors
      BY <2>3 DEF AutoApprove, Executors
    <2>4. ASSUME NEW x \in Executors, MarkExecuted(x) PROVE pc[x] = "mark"
      BY <2>4 DEF MarkExecuted
    <2>5. a \notin Fresh
      BY <1>3 DEF Fresh
    <2> QED
      BY <1>3, <2>1, <2>2, <2>3, <2>4, <2>5, StatusMoves
  <1> DEFINE Kept == ~Notifies =>
         \A a \in Actions :
            /\ status[a] \in {"approved", "denied"}
            /\ status'[a] # status[a]
            => \/ UserActs
               \/ \E x \in Executors :
                    /\ current[x] = a
                    /\ \/ pc[x] = "mark" /\ status'[a] = "executed"
                       \/ pc[x] = "approve" /\ status'[a] = "approved"
  <1>4. TypeOK /\ RowInv /\ NotifyInv /\ [Next]_vars => [Kept]_vars
    <2> HIDE DEF Kept
    <2>1. TypeOK /\ RowInv /\ NotifyInv /\ [Next]_vars => Kept
      BY <1>3 DEF Kept
    <2> QED
      BY <2>1
  <1>5. Spec => [][Kept]_vars
    BY <1>1, <1>2, <1>4, PTL DEF Spec
  <1> QED
    BY <1>5 DEF DecisionKeptUnlessNotified

-----------------------------------------------------------------------------
(* Nothing is carried out without consent.                                 *)

\* Consent precedes the approval, the approval precedes the batch, and only
\* the batch is carried out.
ConsentInv ==
    /\ \A x \in Executors :
         pc[x] = "approve" => TierOf[current[x]] = "trivial" \/ rule[x] = "always_approve"
    /\ \A a \in Actions : status[a] = "approved" => consent[a]
    /\ \A x \in Executors : \A a \in batch[x] : consent[a]
    /\ \A a \in Actions : effects[a] > 0 => consent[a]

LEMMA ConsentInit == Init => ConsentInv
  BY DEF Init, ConsentInv, Executors

\* Consent is never withdrawn (a denial changes the status).
LEMMA ConsentStays ==
    ASSUME TypeOK, [Next]_vars, NEW a \in Actions, consent[a]
    PROVE  consent'[a]
  <1> USE DEF TypeOK
  <1>1. CASE UNCHANGED consent
    BY <1>1
  <1>2. ASSUME NEW r \in Runs, AutoApprove(r) PROVE consent'[a]
    BY <1>2 DEF AutoApprove
  <1>3. ASSUME NEW b \in Actions, NEW yes \in BOOLEAN, Decided(b, yes) PROVE consent'[a]
    <2>1. CASE yes
      BY <1>3, <2>1 DEF Decided
    <2>2. CASE ~yes
      BY <1>3, <2>2 DEF Decided
    <2> QED
      BY <2>1, <2>2
  <1>4. CASE DecideNext
    <2>1. PICK b \in reply.todo : Decided(b, reply.yes)
      BY <1>4 DEF DecideNext
    <2>2. b \in Actions /\ reply.yes \in BOOLEAN
      BY DEF Replies
    <2> QED
      BY <1>3, <2>1, <2>2
  <1>5. ASSUME NEW x \in Executors, Proceed(x) PROVE consent'[a]
    BY <1>1, <1>2, <1>5 DEF Proceed, Route, Queue, WriteBack, ReadApproved, Perform,
       MarkExecuted, Finish, history
  <1>6. CASE Next
    <2>1. CASE UserActs
      <3>1. ASSUME NEW b \in Actions, NEW yes \in BOOLEAN, Press(b, yes)
            PROVE  consent'[a]
        BY <1>3, <3>1 DEF Press
      <3> QED
        BY <1>4, <2>1, <3>1 DEF UserActs
    <2>2. ASSUME NEW x \in Executors, Dies(x) \/ ReadApproved(x) \/ Collect(x)
          PROVE  consent'[a]
      BY <1>1, <2>2 DEF Dies, ReadApproved, Collect, history
    <2>3. CASE Reply \/ Remember \/ ListPending \/ \E b \in Actions : TimePasses(b)
      BY <1>1, <2>3 DEF Reply, Remember, ListPending, TimePasses, history
    <2>4. ASSUME NEW x \in Callers, QueueTool(x)
          PROVE  consent'[a]
      BY <1>1, <2>4 DEF QueueTool, history
    <2> QED
      BY <1>5, <1>6, <2>1, <2>2, <2>3, <2>4 DEF Next, Executors
  <1>7. CASE UNCHANGED vars
    BY <1>1, <1>7 DEF vars, history
  <1> QED
    BY <1>6, <1>7

\* What keeps ConsentInv when executors and effects do not move.
LEMMA ConsentFrame ==
    ASSUME TypeOK, ConsentInv, [Next]_vars, UNCHANGED <<local, effects>>,
           \A a \in Actions : status'[a] = "approved" => status[a] = "approved" \/ consent'[a]
    PROVE  ConsentInv'
  <1>1. \A a \in Actions : consent[a] => consent'[a]
    BY ConsentStays
  <1>2. \A x \in Executors : batch[x] \subseteq Actions
    BY DEF TypeOK
  <1> QED
    BY <1>1, <1>2 DEF ConsentInv, local

LEMMA ConsentExecutor ==
    ASSUME TypeOK, ConsentInv, [Next]_vars, NEW x \in Executors,
           \/ x \in Runs /\ Collect(x)
           \/ Proceed(x) \/ Dies(x) \/ ReadApproved(x)
    PROVE  ConsentInv'
  <1>c. \A a \in Actions : consent[a] => consent'[a]
    BY ConsentStays
  <1>t. /\ status \in [Actions -> Statuses]
        /\ pc \in [Executors -> ProgramCounters]
        /\ rule \in [Executors -> Decisions]
        /\ current \in [Executors -> Actions \cup {NoAction}]
        /\ batch \in [Executors -> SUBSET Actions]
        /\ effects \in [Actions -> Nat]
        /\ \A y \in Executors :
             pc[y] \in {"queue", "approve", "mark"} <=> current[y] \in Actions
    BY DEF TypeOK
  <1> USE DEF ConsentInv, Goto, store, history
  <1>0. CASE x \in Runs /\ Collect(x)
    BY <1>0, <1>c, <1>t, ExpireType DEF Collect
  <1>1. CASE x \in Runs /\ Route(x)
    <2>1. PICK a \in proposed[x] : Route(x)!2!(a)
      BY <1>1 DEF Route
    <2>2. UNCHANGED <<status, batch, effects, consent>> /\ pc[x] = "route"
      BY <1>1 DEF Route
    <2>3. \A y \in Executors : pc'[y] = "approve" =>
            y # x /\ pc[y] = "approve" /\ current'[y] = current[y] /\ rule'[y] = rule[y]
      BY <1>t, <2>1, <2>2
    <2> QED
      BY <1>c, <1>t, <2>2, <2>3
  <1>2. CASE x \in Runs /\ Queue(x)
    <2>1. /\ status' = [status EXCEPT ![current[x]] = "pending"]
          /\ UNCHANGED <<rule, batch, effects, consent>>
      BY <1>2 DEF Queue
    <2>2. CASE TierOf[current[x]] = "trivial" \/ rule[x] = "always_approve"
      BY <1>2, <1>c, <1>t, <2>1, <2>2 DEF Queue
    <2>3. CASE ~(TierOf[current[x]] = "trivial" \/ rule[x] = "always_approve")
      BY <1>2, <1>c, <1>t, <2>1, <2>3 DEF Queue
    <2> QED
      BY <2>2, <2>3
  <1>3. CASE x \in Runs /\ AutoApprove(x)
    <2>1. /\ pc[x] = "approve" /\ current[x] \in Actions
          /\ status' = [status EXCEPT ![current[x]] = "approved"]
          /\ UNCHANGED <<rule, batch, effects>>
          /\ current' = [current EXCEPT ![x] = NoAction]
          /\ pc' = [pc EXCEPT ![x] = "route"]
      BY <1>3, <1>t DEF AutoApprove, Granted
    <2>2. consent'[current[x]]
      BY <1>3, <2>1 DEF AutoApprove, TypeOK
    <2> QED
      BY <1>c, <1>t, <2>1, <2>2
  <1>4. CASE x \in Runs /\ WriteBack(x)
    <2>1. PICK a \in asked[x] : WriteBack(x)!2!(a)
      BY <1>4 DEF WriteBack
    <2>2. UNCHANGED <<effects, consent>>
      BY <1>4 DEF WriteBack
    <2>3. CASE asked[x] = {a}
      BY <1>4, <1>c, <1>t, <2>1, <2>2, <2>3 DEF Return
    <2>4. CASE asked[x] # {a}
      BY <1>4, <1>c, <1>t, <2>1, <2>2, <2>4
    <2> QED
      BY <2>3, <2>4
  <1>5. CASE ReadApproved(x)
    BY <1>5, <1>c, <1>t DEF ReadApproved, ToExecute
  <1>6. CASE Perform(x)
    <2>1. PICK a \in batch[x] :
             /\ batch' = [batch EXCEPT ![x] = @ \ {a}]
             /\ current' = [current EXCEPT ![x] = a]
             /\ \/ effects' = [effects EXCEPT ![a] = @ + 1]
                \/ UNCHANGED effects
      BY <1>6 DEF Perform
    <2>2. UNCHANGED <<status, rule, consent>> /\ pc' = [pc EXCEPT ![x] = "mark"]
      BY <1>6 DEF Perform
    <2>3. a \in Actions /\ consent[a]
      BY <1>t
    <2>4. \A b \in Actions : effects'[b] > 0 => b = a \/ effects[b] > 0
      BY <1>t, <2>1
    <2> QED
      BY <1>c, <1>t, <2>1, <2>2, <2>3, <2>4
  <1>7. CASE MarkExecuted(x)
    BY <1>7, <1>c, <1>t DEF MarkExecuted
  <1>8. CASE Finish(x)
    <2>1. CASE x \in Runs /\ Notifies /\ asked[x] # {}
      BY <1>8, <1>c, <1>t, <2>1 DEF Finish
    <2>2. CASE ~(x \in Runs /\ Notifies /\ asked[x] # {})
      BY <1>8, <1>c, <1>t, <2>2 DEF Finish, Return
    <2> QED
      BY <2>1, <2>2
  <1>9. CASE Dies(x)
    BY <1>9, <1>c, <1>t DEF Dies, Return
  <1> QED
    BY <1>0, <1>1, <1>2, <1>3, <1>4, <1>5, <1>6, <1>7, <1>8, <1>9 DEF Proceed

LEMMA ConsentStep ==
    ASSUME TypeOK, ConsentInv, [Next]_vars
    PROVE  ConsentInv'
  <1>1. CASE UNCHANGED vars
    BY <1>1, ConsentFrame DEF vars, store, history
  <1>2. ASSUME NEW a \in Actions, NEW yes \in BOOLEAN, Decided(a, yes),
               NEW b \in Actions, status'[b] = "approved"
        PROVE  status[b] = "approved" \/ consent'[b]
    <2>1. CASE yes
      BY <1>2, <2>1 DEF Decided, Granted, TypeOK
    <2>2. CASE ~yes
      BY <1>2, <2>2 DEF Decided, TypeOK
    <2> QED
      BY <2>1, <2>2
  <1>3. ASSUME NEW a \in Actions, NEW yes \in BOOLEAN, Press(a, yes) PROVE ConsentInv'
    BY <1>2, <1>3, ConsentFrame DEF Press
  <1>4. CASE DecideNext
    <2>1. PICK a \in reply.todo : Decided(a, reply.yes)
      BY <1>4 DEF DecideNext
    <2>2. a \in Actions /\ reply.yes \in BOOLEAN
      BY DEF TypeOK, Replies
    <2> QED
      BY <1>2, <1>4, <2>1, <2>2, ConsentFrame DEF DecideNext
  <1>5. CASE Reply \/ Remember \/ \E a \in Actions : TimePasses(a)
    BY <1>5, ConsentFrame DEF Reply, Remember, TimePasses, store, history
  <1>6. CASE ListPending
    BY <1>6, ExpireType, ConsentFrame DEF ListPending, history
  <1>7. ASSUME NEW x \in Callers, QueueTool(x) PROVE ConsentInv'
    <2>1. \A a \in Actions : status'[a] = "approved" => status[a] = "approved"
      BY <1>7 DEF QueueTool, Fresh, TypeOK
    <2> QED
      BY <1>7, <2>1, ConsentFrame DEF QueueTool, history
  <1> QED
    BY <1>1, <1>3, <1>4, <1>5, <1>6, <1>7, ConsentExecutor DEF Next, UserActs, Executors

\* Whatever the runs, callers, replies, expiry and crashes: an action is
\* carried out only if the user, a rule the user taught or its tier approved it.
THEOREM ConsentNeeded == Spec => []EffectNeedsConsent
  <1>1. Init => TypeOK /\ ConsentInv
    BY InitType, ConsentInit
  <1>2. TypeOK /\ ConsentInv /\ [Next]_vars => (TypeOK /\ ConsentInv)'
    BY TypeStep, ConsentStep
  <1>3. ConsentInv => EffectNeedsConsent
    BY DEF ConsentInv, EffectNeedsConsent
  <1> QED
    BY <1>1, <1>2, <1>3, PTL DEF Spec

-----------------------------------------------------------------------------
(* Without other callers of the tool, actions are carried out once.        *)

\* Run r has approved action a itself, or is about to.
Taken(r, a) == a \in autos[r] \/ (pc[r] = "approve" /\ current[r] = a)

\* One run answers for an action; until it has read what to execute, the
\* action has not been carried out.
OnceInv ==
    /\ \A a \in Actions : status[a] = "none" => effects[a] = 0
    /\ \A r, s \in Runs, a \in Actions : Taken(r, a) /\ Taken(s, a) => r = s
    /\ \A r \in Runs, a \in Actions :
         Taken(r, a) /\ pc[r] \in {"route", "queue", "approve"} => effects[a] = 0
    /\ \A r \in Runs : pc[r] = "idle" => autos[r] = {}
    /\ \A r \in Runs : \A a \in batch[r] : a \in autos[r] /\ effects[a] = 0
    /\ \A r \in Runs : batch[r] # {} => pc[r] \notin {"route", "queue", "approve"}
    /\ \A a \in Actions : effects[a] <= 1

LEMMA OnceInit == Init => OnceInv
  BY DEF Init, OnceInv, Taken, Executors

\* What keeps OnceInv when the executors do not move.
LEMMA OnceFrame ==
    ASSUME TypeOK, RowInv, OnceInv, [Next]_vars, UNCHANGED <<local, effects>>
    PROVE  OnceInv'
  <1>1. \A a \in Actions : status'[a] = "none" => status[a] = "none"
    BY RowsStay
  <1>2. \A r \in Runs : batch[r] \subseteq Actions
    BY DEF TypeOK, Executors
  <1> QED
    BY <1>1, <1>2 DEF OnceInv, Taken, local

LEMMA OnceExecutor ==
    ASSUME TypeOK, RowInv, OnceInv, [Next]_vars, NEW x \in Runs,
           Collect(x) \/ Proceed(x) \/ Dies(x)
    PROVE  OnceInv'
  <1>n. \A a \in Actions : status'[a] = "none" => status[a] = "none"
    BY RowsStay
  <1>t. /\ status \in [Actions -> Statuses]
        /\ x \in Executors
        /\ pc \in [Executors -> ProgramCounters]
        /\ proposed \in [Executors -> SUBSET Actions]
        /\ current \in [Executors -> Actions \cup {NoAction}]
        /\ autos \in [Executors -> SUBSET Actions]
        /\ batch \in [Executors -> SUBSET Actions]
        /\ effects \in [Actions -> Nat]
        /\ \A y \in Executors :
             pc[y] \in {"queue", "approve", "mark"} <=> current[y] \in Actions
    BY DEF TypeOK, Executors
  <1>r. \A r \in Runs : r \in Executors
    BY DEF Executors
  <1> USE DEF OnceInv, Taken, Goto, history
  <1>0. CASE Collect(x)
    <2>1. /\ pc[x] = "idle" /\ pc' = [pc EXCEPT ![x] = "route"]
          /\ UNCHANGED <<current, autos, batch, effects>>
      BY <1>0 DEF Collect
    <2> QED
      BY <1>n, <1>t, <1>r, <2>1
  <1>1. CASE Route(x)
    <2>1. PICK a \in proposed[x] : Route(x)!2!(a)
      BY <1>1 DEF Route
    <2>2. UNCHANGED <<status, autos, batch, effects>> /\ pc[x] = "route"
      BY <1>1 DEF Route, store
    <2>3. pc' = pc \/ pc' = [pc EXCEPT ![x] = "queue"]
      BY <2>1
    <2>4. \A r \in Runs, b \in Actions : Taken(r, b)' => Taken(r, b)
      BY <1>t, <1>r, <2>1, <2>2, <2>3
    <2> QED
      BY <1>t, <1>r, <2>2, <2>3, <2>4
  <1>2. CASE Queue(x)
    <2> DEFINE a == current[x]
    <2>1. /\ pc[x] = "queue" /\ a \in Actions /\ status[a] = "none"
          /\ UNCHANGED <<autos, batch, effects>>
      BY <1>2, <1>t DEF Queue, RowInv, Coming
    <2>2. \A r \in Runs : ~Taken(r, a)
      BY <1>t, <1>r, <2>1 DEF RowInv
    <2>3. \/ pc' = [pc EXCEPT ![x] = "approve"] /\ UNCHANGED current
          \/ /\ pc' = [pc EXCEPT ![x] = "route"]
             /\ current' = [current EXCEPT ![x] = NoAction]
      BY <1>2 DEF Queue
    <2>4. \A r \in Runs, b \in Actions :
            Taken(r, b)' => Taken(r, b) \/ (r = x /\ b = a)
      BY <1>t, <1>r, <2>1, <2>3
    <2>5. \A r, s \in Runs, b \in Actions : Taken(r, b)' /\ Taken(s, b)' => r = s
      BY <2>2, <2>4
    <2>6. \A r \in Runs, b \in Actions :
            Taken(r, b)' /\ pc'[r] \in {"route", "queue", "approve"} => effects'[b] = 0
      BY <1>t, <1>r, <2>1, <2>3, <2>4
    <2>7. \A r \in Runs : r # x => pc'[r] = pc[r]
      BY <1>t, <1>r, <2>3
    <2>8. pc'[x] \in {"route", "approve"}
      BY <1>t, <2>3
    <2> QED
      BY <1>n, <1>t, <1>r, <2>1, <2>5, <2>6, <2>7, <2>8
  <1>3. CASE AutoApprove(x)
    <2>1. /\ pc[x] = "approve" /\ pc' = [pc EXCEPT ![x] = "route"]
          /\ autos' = [autos EXCEPT ![x] = @ \cup {current[x]}]
          /\ current' = [current EXCEPT ![x] = NoAction]
          /\ UNCHANGED <<batch, effects>>
      BY <1>3 DEF AutoApprove
    <2>2. \A r \in Runs, b \in Actions : Taken(r, b)' => Taken(r, b)
      BY <1>t, <1>r, <2>1
    <2> QED
      BY <1>n, <1>t, <1>r, <2>1, <2>2
  <1>4. CASE WriteBack(x)
    <2>1. PICK a \in asked[x] : WriteBack(x)!2!(a)
      BY <1>4 DEF WriteBack
    <2>2. pc[x] = "notify" /\ UNCHANGED effects
      BY <1>4 DEF WriteBack
    <2>3. CASE asked[x] = {a}
      <3>1. Return(x)
        BY <2>1, <2>3
      <3> QED
        BY <1>n, <1>t, <1>r, <2>2, <3>1 DEF Return
    <2>4. CASE asked[x] # {a}
      BY <1>n, <1>t, <1>r, <2>1, <2>2, <2>4
    <2> QED
      BY <2>3, <2>4
  <1>5. CASE ReadApproved(x)
    <2>1. /\ pc[x] = "route" /\ pc' = [pc EXCEPT ![x] = "execute"]
          /\ batch' = [batch EXCEPT ![x] = ToExecute(x)]
          /\ UNCHANGED <<status, current, autos, effects>>
      BY <1>5 DEF ReadApproved, store
    <2>2. ToExecute(x) \subseteq autos[x]
      BY DEF ToExecute
    <2>3. \A a \in ToExecute(x) : effects[a] = 0
      BY <1>t, <2>1, <2>2
    <2>4. \A r \in Runs, b \in Actions : Taken(r, b)' => Taken(r, b)
      BY <1>t, <1>r, <2>1
    <2>5. \A r \in Runs : \A a \in batch'[r] : a \in autos'[r] /\ effects'[a] = 0
      BY <1>t, <1>r, <2>1, <2>2, <2>3
    <2>6. \A r \in Runs : r # x => pc'[r] = pc[r] /\ batch'[r] = batch[r]
      BY <1>t, <1>r, <2>1
    <2>7. pc'[x] = "execute"
      BY <1>t, <2>1
    <2> QED
      BY <1>t, <1>r, <2>1, <2>4, <2>5, <2>6, <2>7
  <1>6. CASE Perform(x)
    <2>1. PICK a \in batch[x] :
             /\ batch' = [batch EXCEPT ![x] = @ \ {a}]
             /\ current' = [current EXCEPT ![x] = a]
             /\ \/ effects' = [effects EXCEPT ![a] = @ + 1]
                \/ UNCHANGED effects
      BY <1>6 DEF Perform
    <2>2. /\ pc[x] = "execute" /\ pc' = [pc EXCEPT ![x] = "mark"]
          /\ UNCHANGED <<status, autos>>
      BY <1>6 DEF Perform, store
    <2>3. a \in Actions /\ a \in autos[x] /\ effects[a] = 0 /\ status[a] # "none"
      BY <1>t DEF RowInv
    <2>4. \A b \in Actions : b # a => effects'[b] = effects[b]
      BY <1>t, <2>1
    <2>5. effects'[a] <= 1
      BY <1>t, <2>1, <2>3
    <2>6. \A r \in Runs, b \in Actions : Taken(r, b)' => Taken(r, b)
      BY <1>t, <1>r, <2>1, <2>2
    <2>7. \A r \in Runs : Taken(r, a) => r = x
      BY <2>3
    <2>8. \A r \in Runs : r # x => pc'[r] = pc[r] /\ batch'[r] = batch[r] /\ a \notin batch[r]
      BY <1>t, <1>r, <2>1, <2>2, <2>7
    <2>9. \A r \in Runs, b \in Actions :
            Taken(r, b)' /\ pc'[r] \in {"route", "queue", "approve"} => effects'[b] = 0
      BY <1>t, <1>r, <2>2, <2>4, <2>6, <2>7
    <2>10. \A r \in Runs : \A b \in batch'[r] : b \in autos'[r] /\ effects'[b] = 0
      <3>1. \A b \in batch'[x] : b \in batch[x] /\ b # a
        BY <1>t, <2>1
      <3> QED
        BY <1>t, <1>r, <2>2, <2>4, <2>8, <3>1
    <2> QED
      BY <1>t, <1>r, <2>2, <2>3, <2>4, <2>5, <2>6, <2>8, <2>9, <2>10
  <1>7. CASE MarkExecuted(x)
    <2>1. /\ pc[x] = "mark" /\ pc' = [pc EXCEPT ![x] = "execute"]
          /\ current' = [current EXCEPT ![x] = NoAction]
          /\ UNCHANGED <<autos, batch, effects>>
      BY <1>7 DEF MarkExecuted
    <2> QED
      BY <1>n, <1>t, <1>r, <2>1
  <1>8. CASE Finish(x)
    <2>1. CASE Notifies /\ asked[x] # {}
      BY <1>8, <1>n, <1>t, <1>r, <2>1 DEF Finish
    <2>2. CASE ~(Notifies /\ asked[x] # {})
      <3>1. Return(x) /\ UNCHANGED effects
        BY <1>8, <2>2 DEF Finish
      <3> QED
        BY <1>n, <1>t, <1>r, <3>1 DEF Return
    <2> QED
      BY <2>1, <2>2
  <1>9. CASE Dies(x)
    <2>1. Return(x) /\ UNCHANGED effects
      BY <1>9 DEF Dies
    <2> QED
      BY <1>n, <1>t, <1>r, <2>1 DEF Return
  <1> QED
    BY <1>0, <1>1, <1>2, <1>3, <1>4, <1>5, <1>6, <1>7, <1>8, <1>9 DEF Proceed

LEMMA OnceStep ==
    ASSUME Callers = {}, TypeOK, RowInv, OnceInv, [Next]_vars
    PROVE  OnceInv'
  <1>1. CASE UNCHANGED vars
    BY <1>1, OnceFrame DEF vars, history
  <1>2. ASSUME NEW a \in Actions, NEW yes \in BOOLEAN, Press(a, yes) PROVE OnceInv'
    BY <1>2, OnceFrame DEF Press
  <1>3. CASE DecideNext
    BY <1>3, OnceFrame DEF DecideNext
  <1>4. CASE Reply \/ Remember \/ ListPending \/ \E a \in Actions : TimePasses(a)
    BY <1>4, OnceFrame DEF Reply, Remember, ListPending, TimePasses, history
  <1> QED
    BY <1>1, <1>2, <1>3, <1>4, OnceExecutor DEF Next, UserActs, Executors

\* When nobody but the proactive agent executes actions, none is carried out
\* twice, with any number of overlapping runs and however they die.
THEOREM ActedOnAtMostOnce == Spec => []RunsActAtMostOnce
  <1>1. Init => TypeOK /\ RowInv /\ OnceInv
    BY InitType, RowInit, OnceInit
  <1>2. CASE Callers = {}
    <2>1. TypeOK /\ RowInv /\ OnceInv /\ [Next]_vars => (TypeOK /\ RowInv /\ OnceInv)'
      BY <1>2, TypeStep, RowStep, OnceStep
    <2>2. OnceInv => RunsActAtMostOnce
      BY DEF OnceInv, RunsActAtMostOnce
    <2> QED
      BY <1>1, <2>1, <2>2, PTL DEF Spec
  <1>3. CASE Callers # {}
    <2>1. RunsActAtMostOnce
      BY <1>3 DEF RunsActAtMostOnce
    <2> QED
      BY <2>1, PTL
  <1> QED
    BY <1>2, <1>3

-----------------------------------------------------------------------------
(* What a run approves itself it settles.                                  *)

\* What a run approved itself was granted at least once; and while it executes, what
\* is approved by that one grant is still in its batch or in its hand.
SettledInv ==
    \A r \in Runs : \A a \in autos[r] :
        /\ grants[a] >= 1
        /\ pc[r] \in {"execute", "mark"} /\ grants[a] = 1 /\ status[a] = "approved"
           => a \in batch[r] \/ (pc[r] = "mark" /\ current[r] = a)

\* No step takes a grant back, and one that approves is a grant.
LEMMA GrantsGrow ==
    ASSUME TypeOK, [Next]_vars, NEW a \in Actions
    PROVE  /\ grants'[a] \in Nat /\ grants'[a] >= grants[a]
           /\ status'[a] = "approved" => status[a] = "approved" \/ grants'[a] > grants[a]
  <1>t. /\ grants \in [Actions -> Nat] /\ status \in [Actions -> Statuses]
        /\ current \in [Executors -> Actions \cup {NoAction}]
    BY DEF TypeOK
  <1>1. ASSUME NEW b \in Actions, Granted(b)
        PROVE  /\ grants'[a] \in Nat /\ grants'[a] >= grants[a]
               /\ status'[a] = "approved" => status[a] = "approved" \/ grants'[a] > grants[a]
    BY <1>t, <1>1 DEF Granted
  <1>2. ASSUME NEW b \in Actions, NEW yes \in BOOLEAN, Decided(b, yes)
        PROVE  /\ grants'[a] \in Nat /\ grants'[a] >= grants[a]
               /\ status'[a] = "approved" => status[a] = "approved" \/ grants'[a] > grants[a]
    <2>1. CASE yes
      BY <1>1, <1>2, <2>1 DEF Decided
    <2>2. CASE ~yes
      BY <1>t, <1>2, <2>2 DEF Decided
    <2> QED
      BY <2>1, <2>2
  <1>3. CASE UserActs
    <2>1. ASSUME NEW b \in Actions, NEW yes \in BOOLEAN, Press(b, yes)
          PROVE  Decided(b, yes)
      BY <2>1 DEF Press
    <2>2. CASE DecideNext
      <3>1. PICK b \in reply.todo : Decided(b, reply.yes)
        BY <2>2 DEF DecideNext
      <3>2. b \in Actions /\ reply.yes \in BOOLEAN
        BY DEF TypeOK, Replies
      <3> QED
        BY <1>2, <3>1, <3>2
    <2> QED
      BY <1>2, <1>3, <2>1, <2>2 DEF UserActs
  <1>4. ASSUME NEW r \in Runs, AutoApprove(r)
        PROVE  Granted(current[r]) /\ current[r] \in Actions
    BY <1>4 DEF AutoApprove, TypeOK, Executors
  <1>5. CASE grants' = grants /\ ~UserActs
    <2>1. CASE status'[a] = status[a]
      BY <1>t, <1>5, <2>1
    <2>2. CASE status'[a] # status[a]
      BY <1>t, <1>1, <1>4, <1>5, <2>2, StatusMoves
    <2> QED
      BY <2>1, <2>2
  <1>6. \/ UserActs \/ grants' = grants
        \/ \E r \in Runs : AutoApprove(r)
    BY DEF Next, vars, history, Collect, ReadApproved, QueueTool, Proceed, Dies, Route, Queue,
       WriteBack, Perform, MarkExecuted, Finish, TimePasses, Reply, Remember, ListPending
  <1> QED
    BY <1>1, <1>3, <1>4, <1>5, <1>6

\* Where the runs stay as they are.
LEMMA SettledFrame ==
    ASSUME TypeOK, SettledInv, [Next]_vars,
           \A r \in Runs : /\ autos'[r] \in {autos[r], {}} /\ batch'[r] = batch[r]
                           /\ pc'[r] = pc[r] /\ current'[r] = current[r]
    PROVE  SettledInv'
  <1>1. \A r \in Runs : autos[r] \subseteq Actions
    BY DEF TypeOK, Executors
  <1>2. \A a \in Actions : grants[a] \in Nat
    BY DEF TypeOK
  <1> QED
    BY <1>1, <1>2, GrantsGrow DEF SettledInv

LEMMA SettledRun ==
    ASSUME TypeOK, SettledInv, [Next]_vars, NEW x \in Runs,
           Collect(x) \/ Proceed(x) \/ Dies(x)
    PROVE  SettledInv'
  <1>t. /\ x \in Executors
        /\ status \in [Actions -> Statuses]
        /\ pc \in [Executors -> ProgramCounters]
        /\ current \in [Executors -> Actions \cup {NoAction}]
        /\ autos \in [Executors -> SUBSET Actions]
        /\ batch \in [Executors -> SUBSET Actions]
        /\ \A a \in Actions : grants[a] \in Nat
        /\ \A r \in Runs : r \in Executors
    BY DEF TypeOK, Executors
  <1>g. \A a \in Actions :
          /\ grants'[a] \in Nat /\ grants'[a] >= grants[a]
          /\ status'[a] = "approved" => status[a] = "approved" \/ grants'[a] > grants[a]
    BY GrantsGrow
  <1> USE DEF SettledInv, Goto
  <1>0. CASE Return(x)
    BY <1>0, <1>t, <1>g DEF Return
  <1>1. CASE Collect(x)
    <2>1. /\ pc' = [pc EXCEPT ![x] = "route"] /\ UNCHANGED <<current, autos, batch>>
      BY <1>1 DEF Collect
    <2> QED
      BY <1>t, <1>g, <2>1
  <1>2. CASE Route(x)
    <2>1. PICK a \in proposed[x] : Route(x)!2!(a)
      BY <1>2 DEF Route
    <2>2. UNCHANGED <<status, autos, batch>> /\ pc[x] = "route"
      BY <1>2 DEF Route, store
    <2>3. /\ pc' \in {pc, [pc EXCEPT ![x] = "queue"]}
          /\ current' \in {current, [current EXCEPT ![x] = a]}
      BY <2>1
    <2>4. pc'[x] \in {"route", "queue"} /\ \A r \in Runs : r # x => pc'[r] = pc[r] /\ current'[r] = current[r]
      BY <1>t, <2>2, <2>3
    <2> QED
      BY <1>t, <1>g, <2>2, <2>4
  <1>3. CASE Queue(x)
    <2>1. /\ pc'[x] \in {"route", "approve"} /\ UNCHANGED <<autos, batch>>
          /\ \A r \in Runs : r # x => pc'[r] = pc[r] /\ current'[r] = current[r]
      BY <1>3, <1>t DEF Queue
    <2> QED
      BY <1>t, <1>g, <2>1
  <1>4. CASE AutoApprove(x)
    <2>1. /\ grants' = [grants EXCEPT ![current[x]] = @ + 1] /\ current[x] \in Actions
          /\ autos' = [autos EXCEPT ![x] = @ \cup {current[x]}]
          /\ current' = [current EXCEPT ![x] = NoAction]
          /\ pc' = [pc EXCEPT ![x] = "route"] /\ UNCHANGED batch
      BY <1>4 DEF AutoApprove, Granted, TypeOK, Executors
    <2>2. grants'[current[x]] >= 1
      BY <1>t, <2>1 DEF TypeOK
    <2> QED
      BY <1>t, <1>g, <2>1, <2>2
  <1>5. CASE WriteBack(x)
    <2>1. PICK a \in asked[x] : WriteBack(x)!2!(a)
      BY <1>5 DEF WriteBack
    <2>2. CASE asked[x] = {a}
      BY <1>0, <2>1, <2>2
    <2>3. CASE asked[x] # {a}
      BY <2>1, <2>3, SettledFrame
    <2> QED
      BY <2>2, <2>3
  <1>6. CASE ReadApproved(x)
    <2>1. /\ pc' = [pc EXCEPT ![x] = "execute"]
          /\ batch' = [batch EXCEPT ![x] = ToExecute(x)]
          /\ UNCHANGED <<status, current, autos, grants>>
      BY <1>6 DEF ReadApproved, store, history
    <2>2. \A a \in autos[x] : status[a] = "approved" => a \in ToExecute(x)
      BY <1>t DEF ToExecute
    <2> QED
      BY <1>t, <2>1, <2>2
  <1>7. CASE Perform(x)
    <2>1. PICK a \in batch[x] : /\ batch' = [batch EXCEPT ![x] = @ \ {a}]
                               /\ current' = [current EXCEPT ![x] = a]
      BY <1>7 DEF Perform
    <2>2. /\ pc[x] = "execute" /\ pc' = [pc EXCEPT ![x] = "mark"]
          /\ UNCHANGED <<status, autos, grants>>
      BY <1>7 DEF Perform, store
    <2> QED
      BY <1>t, <2>1, <2>2
  <1>8. CASE MarkExecuted(x)
    <2>1. /\ pc[x] = "mark" /\ pc' = [pc EXCEPT ![x] = "execute"]
          /\ status' = [status EXCEPT ![current[x]] = "executed"]
          /\ current' = [current EXCEPT ![x] = NoAction]
          /\ UNCHANGED <<autos, batch, grants>>
      BY <1>8 DEF MarkExecuted, history
    <2>2. \A a \in Actions : status'[a] = "approved" => status[a] = "approved" /\ a # current[x]
      BY <1>t, <2>1
    <2> QED
      BY <1>t, <2>1, <2>2
  <1>9. CASE Finish(x)
    <2>1. CASE Return(x)
      BY <1>0, <2>1
    <2>2. CASE ~Return(x)
      <3>1. pc' = [pc EXCEPT ![x] = "notify"] /\ UNCHANGED <<current, autos, batch>>
        BY <1>9, <2>2 DEF Finish
      <3> QED
        BY <1>t, <1>g, <3>1
    <2> QED
      BY <2>1, <2>2
  <1>10. CASE Dies(x)
    BY <1>0, <1>10 DEF Dies
  <1> QED
    BY <1>1, <1>2, <1>3, <1>4, <1>5, <1>6, <1>7, <1>8, <1>9, <1>10 DEF Proceed

\* Another agent that executes what is approved leaves the runs alone.
LEMMA SettledCaller ==
    ASSUME TypeOK, SettledInv, [Next]_vars, NEW x \in Callers, NEW s \in Runs,
           ReadApproved(x) \/ Proceed(x) \/ Dies(x)
    PROVE  /\ autos'[s] = autos[s] /\ batch'[s] = batch[s]
           /\ pc'[s] = pc[s] /\ current'[s] = current[s]
  <1>1. x # s /\ x \notin Runs /\ x \in Executors /\ s \in Executors
    BY DEF ApprovalsAssumption, Executors
  <1>2. /\ pc \in [Executors -> ProgramCounters]
        /\ current \in [Executors -> Actions \cup {NoAction}]
        /\ autos \in [Executors -> SUBSET Actions]
        /\ batch \in [Executors -> SUBSET Actions]
    BY DEF TypeOK
  <1>3. ReadApproved(x) \/ Perform(x) \/ MarkExecuted(x) \/ Finish(x) \/ Dies(x)
    BY <1>1 DEF Proceed
  <1> QED
    BY <1>1, <1>2, <1>3 DEF ReadApproved, Perform, MarkExecuted, Finish, Dies, Return, Goto

\* The executors move only themselves.
LEMMA WhoMoves ==
    ASSUME [Next]_vars
    PROVE  \/ \E x \in Runs : Collect(x) \/ Proceed(x) \/ Dies(x)
           \/ \E x \in Callers : ReadApproved(x) \/ Proceed(x) \/ Dies(x)
           \/ UNCHANGED local
  <1>1. ASSUME NEW a \in Actions, NEW yes \in BOOLEAN, Press(a, yes) PROVE UNCHANGED local
    BY <1>1 DEF Press
  <1>2. ASSUME DecideNext PROVE UNCHANGED local
    BY <1>2 DEF DecideNext
  <1>3. ASSUME Reply PROVE UNCHANGED local
    BY <1>3 DEF Reply
  <1>4. ASSUME Remember PROVE UNCHANGED local
    BY <1>4 DEF Remember
  <1>5. ASSUME ListPending PROVE UNCHANGED local
    BY <1>5 DEF ListPending
  <1>6. ASSUME NEW a \in Actions, TimePasses(a) PROVE UNCHANGED local
    BY <1>6 DEF TimePasses
  <1>7. ASSUME NEW x \in Callers, QueueTool(x) PROVE UNCHANGED local
    BY <1>7 DEF QueueTool
  <1>8. ASSUME UNCHANGED vars PROVE UNCHANGED local
    BY <1>8 DEF vars
  <1> QED
    BY <1>1, <1>2, <1>3, <1>4, <1>5, <1>6, <1>7, <1>8 DEF Next, UserActs, Executors

LEMMA SettledStep ==
    ASSUME TypeOK, SettledInv, [Next]_vars
    PROVE  SettledInv'
  <1>1. CASE \E x \in Runs : Collect(x) \/ Proceed(x) \/ Dies(x)
    BY <1>1, SettledRun
  <1>2. CASE \E x \in Callers : ReadApproved(x) \/ Proceed(x) \/ Dies(x)
    <2>1. \A s \in Runs : /\ autos'[s] = autos[s] /\ batch'[s] = batch[s]
                          /\ pc'[s] = pc[s] /\ current'[s] = current[s]
      BY <1>2, SettledCaller
    <2> QED
      BY <2>1, SettledFrame
  <1>3. CASE UNCHANGED local
    BY <1>3, SettledFrame DEF local
  <1> QED
    BY <1>1, <1>2, <1>3, WhoMoves

\* When the execution step of a run is over, no action that it approved itself, and
\* nobody approved once more, is left approved for a later executor to find
\* (proactive_agent.py 441-482, proactive_tools.py 328-400).
THEOREM OwnApprovalsAreSettled == Spec => []AutoApprovedIsSettled
  <1>1. Init => TypeOK /\ SettledInv
    <2>1. ASSUME Init, NEW r \in Runs PROVE autos[r] = {}
      BY <2>1 DEF Init, Executors
    <2> QED
      BY <2>1, InitType DEF SettledInv
  <1>2. TypeOK /\ SettledInv /\ [Next]_vars => (TypeOK /\ SettledInv)'
    BY TypeStep, SettledStep
  <1>3. SettledInv => AutoApprovedIsSettled
    BY DEF SettledInv, AutoApprovedIsSettled
  <1> QED
    BY <1>1, <1>2, <1>3, PTL DEF Spec

-----------------------------------------------------------------------------
(* Items do not come up twice.                                             *)

\* The rows about an item that a run is still to propose something for are its own.
NewItemsInv ==
    \A r \in Runs, a \in Actions : Coming(r, a) =>
        /\ pc[r] \in {"route", "queue", "approve"}
        /\ \A b \in Actions : status[b] # "none" /\ ItemOf[b] = ItemOf[a] =>
             b \in autos[r] \cup asked[r] \/ (pc[r] = "approve" /\ current[r] = b)

LEMMA NewItemsStep ==
    ASSUME \A r, s \in Runs : r = s, Callers = {}, TypeOK, RowInv, NewItemsInv, [Next]_vars
    PROVE  NewItemsInv'
  <1>t. /\ \A r \in Runs : r \in Executors
        /\ status \in [Actions -> Statuses]
        /\ pc \in [Executors -> ProgramCounters]
        /\ proposed \in [Executors -> SUBSET Actions]
        /\ current \in [Executors -> Actions \cup {NoAction}]
        /\ autos \in [Executors -> SUBSET Actions]
        /\ asked \in [Executors -> SUBSET Actions]
    BY DEF TypeOK, Executors
  <1>n. \A b \in Actions : status[b] = "none" /\ status'[b] # "none" =>
          \E r \in Runs : Queue(r) /\ current[r] = b
    BY RowsStay
  <1> USE DEF NewItemsInv, Coming, Goto
  <1>0. CASE UNCHANGED local /\ \A r \in Runs : ~Queue(r)
    BY <1>0, <1>n, <1>t DEF local
  <1>1. ASSUME NEW x \in Runs, Return(x), ~Queue(x)
        PROVE  NewItemsInv'
    <2>1. \A r \in Runs, a \in Actions : ~Coming(r, a)'
      BY <1>1, <1>t DEF Return
    <2> QED
      BY <2>1
  <1>2. ASSUME NEW x \in Runs, Collect(x) PROVE NewItemsInv'
    <2>1. PICK P \in SUBSET {a \in Fresh : ItemOf[a] \notin SeenItems} :
             proposed' = [proposed EXCEPT ![x] = P]
      BY <1>2 DEF Collect
    <2>2. pc'[x] = "route" /\ proposed'[x] = P
      BY <1>2, <1>t, <2>1 DEF Collect
    <2>3. \A b \in Actions : status'[b] # "none" => status[b] # "none"
      BY <1>2, ExpireType DEF Collect
    <2>4. \A a \in P, b \in Actions : status[b] # "none" => ItemOf[b] # ItemOf[a]
      BY DEF SeenItems
    <2> QED
      BY <2>2, <2>3, <2>4
  <1>3. ASSUME NEW x \in Runs, Route(x) PROVE NewItemsInv'
    <2>1. PICK a \in proposed[x] : Route(x)!2!(a)
      BY <1>3 DEF Route
    <2>2. pc[x] = "route" /\ UNCHANGED <<status, autos, asked>> /\ a \in Actions
      BY <1>3, <1>t DEF Route, store
    <2>3. /\ \/ pc' = pc /\ current' = current
             \/ pc' = [pc EXCEPT ![x] = "queue"] /\ current' = [current EXCEPT ![x] = a]
          /\ proposed' = [proposed EXCEPT ![x] = @ \ {a}]
      BY <2>1
    <2>4. /\ pc'[x] \in {"route", "queue"} /\ proposed'[x] \subseteq proposed[x]
          /\ pc'[x] = "queue" => current'[x] = a
      BY <1>t, <2>2, <2>3
    <2>5. \A b \in Actions : Coming(x, b)' => Coming(x, b)
      BY <1>t, <2>4
    <2> QED
      BY <2>2, <2>4, <2>5
  <1>4. ASSUME NEW x \in Runs, Queue(x) PROVE NewItemsInv'
    <2>1. pc[x] = "queue" /\ current[x] \in Actions
      BY <1>4, <1>t DEF Queue, TypeOK
    <2>2. /\ UNCHANGED <<proposed, autos>>
          /\ \/ pc'[x] = "approve" /\ current'[x] = current[x] /\ asked'[x] = asked[x]
             \/ pc'[x] = "route" /\ asked'[x] = asked[x] \cup {current[x]}
      BY <1>4, <1>t DEF Queue
    <2>3. \A b \in Actions : status'[b] # "none" => status[b] # "none" \/ b = current[x]
      BY <1>n
    <2> QED
      BY <2>1, <2>2, <2>3
  <1>5. ASSUME NEW x \in Runs, AutoApprove(x) PROVE NewItemsInv'
    <2>1. /\ pc[x] = "approve" /\ pc'[x] = "route" /\ UNCHANGED <<proposed, asked>>
          /\ autos'[x] = autos[x] \cup {current[x]}
      BY <1>5, <1>t DEF AutoApprove
    <2>2. \A b \in Actions : status'[b] # "none" => status[b] # "none"
      BY <1>n, <2>1 DEF Queue
    <2> QED
      BY <2>1, <2>2
  <1>6. ASSUME NEW x \in Runs, ReadApproved(x) \/ Perform(x) \/ MarkExecuted(x) \/ Finish(x)
                              \/ WriteBack(x) \/ Dies(x)
        PROVE  NewItemsInv'
    <2>1. CASE Return(x)
      <3>1. pc'[x] = "idle"
        BY <1>t, <2>1 DEF Return
      <3>2. ~Queue(x)
        BY <1>t, <3>1 DEF Queue
      <3> QED
        BY <1>1, <2>1, <3>2
    <2>2. CASE ~Return(x)
      <3>1. proposed' = proposed /\ pc'[x] # "queue"
        BY <1>6, <1>t, <2>2 DEF ReadApproved, Perform, MarkExecuted, Finish, WriteBack, Dies
      <3>2. pc[x] \in {"route", "queue", "approve"} => proposed[x] = {}
        BY <1>6, <2>2 DEF ReadApproved, Perform, MarkExecuted, Finish, WriteBack, Dies
      <3>3. \A a \in Actions : ~Coming(x, a)'
        BY <1>t, <3>1, <3>2
      <3> QED
        BY <3>3
    <2> QED
      BY <2>1, <2>2
  <1>7. CASE \E x \in Runs : Collect(x) \/ Proceed(x) \/ Dies(x)
    <2>1. PICK x \in Runs : Collect(x) \/ Proceed(x) \/ Dies(x)
      BY <1>7
    <2>2. \/ Collect(x) \/ Route(x) \/ Queue(x) \/ AutoApprove(x)
          \/ \/ ReadApproved(x) \/ Perform(x) \/ MarkExecuted(x) \/ Finish(x)
             \/ WriteBack(x) \/ Dies(x)
      BY <2>1 DEF Proceed
    <2> QED
      BY <1>2, <1>3, <1>4, <1>5, <1>6, <2>2
  <1>8. CASE ~\E x \in Runs : Collect(x) \/ Proceed(x) \/ Dies(x)
    <2>1. UNCHANGED local
      BY <1>8, WhoMoves
    <2>2. \A r \in Runs : ~Queue(r)
      BY <1>8 DEF Proceed
    <2> QED
      BY <1>0, <2>1, <2>2
  <1> QED
    BY <1>7, <1>8

\* With one run at a time and no other agent that queues actions, an item that has a
\* row gets another only from the run that wrote the first (get_seen_ids,
\* approval_store.py 363-372, proactive_agent.py 330-340).
THEOREM NoItemResurfaces ==
    (\A r, s \in Runs : r = s) /\ Callers = {} => (Spec => ItemsDoNotResurface)
  <1> SUFFICES ASSUME \A r, s \in Runs : r = s, Callers = {}
               PROVE  Spec => ItemsDoNotResurface
    OBVIOUS
  <1> DEFINE Inv == TypeOK /\ RowInv /\ NewItemsInv
             Step == \A a, b \in Actions :
                       /\ status[a] = "none" /\ status'[a] # "none"
                       /\ status[b] # "none" /\ ItemOf[b] = ItemOf[a]
                       => \E r \in Runs : current[r] = a /\ b \in autos[r] \cup asked[r]
  <1>1. Init => Inv
    <2>1. Init => NewItemsInv
      BY DEF Init, NewItemsInv, Coming, Executors
    <2> QED
      BY <2>1, InitType, RowInit
  <1>2. Inv /\ [Next]_vars => Inv'
    BY TypeStep, RowStep, NewItemsStep
  <1>3. Inv /\ [Next]_vars => [Step]_vars
    <2> SUFFICES ASSUME Inv, [Next]_vars, NEW a \in Actions, NEW b \in Actions,
                        status[a] = "none", status'[a] # "none",
                        status[b] # "none", ItemOf[b] = ItemOf[a]
                 PROVE  \E r \in Runs : current[r] = a /\ b \in autos[r] \cup asked[r]
      OBVIOUS
    <2>1. PICK r \in Runs : Queue(r) /\ current[r] = a
      BY RowsStay
    <2>2. pc[r] = "queue"
      BY <2>1 DEF Queue
    <2> QED
      BY <2>1, <2>2 DEF NewItemsInv, Coming
  <1> QED
    BY <1>1, <1>2, <1>3, PTL DEF Spec, ItemsDoNotResurface

=============================================================================
