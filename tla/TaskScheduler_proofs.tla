------------------------ MODULE TaskScheduler_proofs ------------------------
(***************************************************************************)
(* Proofs about TaskScheduler for every value of its constants.            *)
(***************************************************************************)
EXTENDS TaskSchedulerProps, TLAPS

USE TasksAssumption

LEMMA InitType == Init => TypeOK
  <1> SUFFICES ASSUME Init PROVE TypeOK
    OBVIOUS
  <1>1. NoRow \in Rows
    BY DEF NoRow, Rows, Statuses
  <1>2. \A x \in Actors : pc[x] = "idle" /\ task[x] \notin Tasks
    BY DEF Init
  <1>3. \A c \in Clients : pc[c] = "idle" /\ command[c] = "none"
    BY DEF Init, Actors
  <1>4. /\ row \in [Tasks -> Rows]
        /\ pc \in [Actors -> ProgramCounters]
        /\ todo \in [Actors -> SUBSET Tasks]
        /\ task \in [Actors -> Tasks \cup {NoTask}]
        /\ copy \in [Actors -> Rows]
        /\ command \in [Actors -> {"none", "pause", "resume", "cancel"}]
    BY <1>1 DEF Init, ProgramCounters
  <1>5. /\ starts \in [Tasks -> 0..2]
        /\ foreign \in [Actors -> BOOLEAN]
        /\ race \in [Tasks -> BOOLEAN]
        /\ faults \in 0..MaxFaults
    BY DEF Init
  <1> QED
    BY <1>2, <1>3, <1>4, <1>5 DEF TypeOK

\* The rows that are written are rows.
LEMMA NewRowType ==
    ASSUME NEW t \in Tasks, NEW o \in OperatorTasks \cup {NoTask}
    PROVE  NewRow(t, o) \in Rows
  BY DEF NewRow, NextRun, Rows, Statuses

LEMMA CompletedType ==
    ASSUME NEW t \in Tasks, NEW r \in Rows
    PROVE  Completed(t, r) \in Rows
  BY DEF Completed, NextRun, Rows, Statuses

LEMMA CommandedType ==
    ASSUME NEW t \in Tasks, NEW r \in Rows, NEW how \in {"pause", "resume", "cancel"}
    PROVE  Commanded(t, r, how) \in Rows
  BY DEF Commanded, NextRun, Rows, Statuses

\* Replacing a row keeps the types of the table and of the staleness marks.
LEMMA ReplaceType ==
    ASSUME TypeOK, NEW x \in Actors, NEW t \in Tasks, NEW r \in Rows, Replace(x, t, r)
    PROVE  row' \in [Tasks -> Rows] /\ foreign' \in [Actors -> BOOLEAN]
  BY DEF TypeOK, Replace, Writing

LEMMA RetireType ==
    ASSUME TypeOK, NEW X, Retire(X)
    PROVE  /\ pc' \in [Actors -> ProgramCounters]
           /\ todo' \in [Actors -> SUBSET Tasks]
           /\ task' \in [Actors -> Tasks \cup {NoTask}]
           /\ copy' \in [Actors -> Rows]
           /\ command' \in [Actors -> {"none", "pause", "resume", "cancel"}]
           /\ \A x \in Actors : task'[x] \in Tasks <=> pc'[x] \notin {"idle", "batch"}
           /\ \A c \in Clients : pc'[c] = "command" <=> command'[c] # "none"
           /\ \A c \in Clients : pc'[c] \in {"create", "save"} => task'[c] \in OperatorTasks
  <1>1. NoRow \in Rows
    BY DEF NoRow, Rows, Statuses
  <1> QED
    BY <1>1 DEF TypeOK, Retire, ProgramCounters, Actors

LEMMA RacesType ==
    ASSUME TypeOK, NEW T, Races(T)
    PROVE  race' \in [Tasks -> BOOLEAN]
  BY DEF TypeOK, Races

LEMMA ExecuteType ==
    ASSUME TypeOK, NEW t \in Tasks, Execute(t)
    PROVE  starts' \in [Tasks -> 0..2]
  BY DEF TypeOK, Execute, AtMost

-----------------------------------------------------------------------------
\* The steps of a poll loop keep the types.
LEMMA PollerType ==
    ASSUME TypeOK, NEW p \in Pollers,
           Poll(p) \/ Step(p) \/ ReadBack(p) \/ PollError(p)
    PROVE  TypeOK'
  <1>p. p \in Actors /\ p \notin Clients
    BY DEF Actors
  <1>s. \/ Poll(p) \/ Start(p) \/ AskReturns(p) \/ ReadBack(p)
        \/ Complete(p) \/ EndBatch(p) \/ PollError(p)
    BY DEF Step
  <1> USE DEF TypeOK, ProgramCounters, Goto, history, Actors
  <1>1. CASE Poll(p)
    BY <1>1, <1>p, RacesType DEF Poll, Due
  <1>2. CASE Start(p)
    <2>1. PICK t \in todo[p] : Start(p)!2!(t)
      BY <1>2 DEF Start
    <2>2. t \in Tasks
      BY <1>p
    <2> QED
      BY <1>2, <1>p, <2>1, <2>2, ExecuteType DEF Start
  <1>3. CASE AskReturns(p)
    BY <1>3, <1>p DEF AskReturns
  <1>4. CASE ReadBack(p)
    <2>1. task[p] \in Tasks
      BY <1>4, <1>p DEF ReadBack
    <2> QED
      BY <1>4, <1>p, <2>1 DEF ReadBack
  <1>5. CASE Complete(p)
    <2>1. task[p] \in Tasks /\ copy[p] \in Rows
      BY <1>5, <1>p DEF Complete
    <2>2. row' \in [Tasks -> Rows] /\ foreign' \in [Actors -> BOOLEAN]
      BY <1>5, <1>p, <2>1, CompletedType, ReplaceType DEF Complete
    <2>3. NoRow \in Rows
      BY DEF NoRow, Rows, Statuses
    <2> QED
      BY <1>5, <1>p, <2>2, <2>3 DEF Complete
  <1>6. CASE EndBatch(p)
    BY <1>6, RetireType DEF EndBatch
  <1>7. CASE PollError(p)
    BY <1>7, <1>p, RetireType, RacesType DEF PollError
  <1> HIDE DEF TypeOK
  <1> QED
    BY <1>s, <1>1, <1>2, <1>3, <1>4, <1>5, <1>6, <1>7

\* What a client does.
Client(c) ==
    \/ CreateTask(c) \/ ReadRow(c) \/ WriteRow(c) \/ RunTask(c)
    \/ Activate(c) \/ ActivateCreate(c) \/ ActivateSave(c)

\* The steps of a client keep the types.
LEMMA ClientType ==
    ASSUME TypeOK, NEW c \in Clients, Client(c)
    PROVE  TypeOK'
  <1>c. c \in Actors /\ c \notin Pollers
    BY DEF Actors
  <1> USE DEF TypeOK, ProgramCounters, Goto, history, local, Actors
  <1>1. CASE CreateTask(c)
    <2>1. PICK t \in FreeIds : Replace(c, t, NewRow(t, NoTask))
      BY <1>1 DEF CreateTask
    <2>2. row' \in [Tasks -> Rows] /\ foreign' \in [Actors -> BOOLEAN]
      BY <1>c, <2>1, NewRowType, ReplaceType DEF FreeIds
    <2> QED
      BY <1>1, <2>2 DEF CreateTask
  <1>2. CASE ReadRow(c)
    BY <1>2, <1>c DEF ReadRow
  <1>3. CASE WriteRow(c)
    <2>1. task[c] \in Tasks /\ copy[c] \in Rows /\ command[c] \in {"pause", "resume", "cancel"}
      BY <1>3, <1>c DEF WriteRow
    <2>2. row' \in [Tasks -> Rows] /\ foreign' \in [Actors -> BOOLEAN]
      BY <1>3, <1>c, <2>1, CommandedType, ReplaceType DEF WriteRow
    <2>3. race' \in [Tasks -> BOOLEAN]
      BY <1>3, RacesType DEF WriteRow
    <2> QED
      BY <1>3, <2>2, <2>3, RetireType DEF WriteRow
  <1>4. CASE RunTask(c)
    BY <1>4, ExecuteType, RacesType DEF RunTask
  <1>5. CASE Activate(c)
    BY <1>5, <1>c DEF Activate
  <1>6. CASE ActivateCreate(c)
    <2>1. PICK t \in FreeIds : Replace(c, t, NewRow(t, task[c]))
      BY <1>6 DEF ActivateCreate
    <2>2. task[c] \in OperatorTasks
      BY <1>6 DEF ActivateCreate
    <2>3. row' \in [Tasks -> Rows] /\ foreign' \in [Actors -> BOOLEAN]
      BY <1>c, <2>1, <2>2, NewRowType, ReplaceType DEF FreeIds
    <2> QED
      BY <1>6, <1>c, <2>3 DEF ActivateCreate
  <1>7. CASE ActivateSave(c)
    <2>1. task[c] \in OperatorTasks
      BY <1>7 DEF ActivateSave
    <2>2. row' \in [Tasks -> Rows]
      BY <1>7, <2>1, NewRowType DEF ActivateSave
    <2>3. foreign' \in [Actors -> BOOLEAN]
      BY <1>7 DEF ActivateSave, Writing
    <2>4. starts' \in [Tasks -> 0..2]
      BY <1>7 DEF ActivateSave
    <2> QED
      BY <1>7, <2>2, <2>3, <2>4, RetireType DEF ActivateSave
  <1> HIDE DEF TypeOK
  <1> QED
    BY <1>1, <1>2, <1>3, <1>4, <1>5, <1>6, <1>7 DEF Client

\* The steps of the surroundings keep the types.
LEMMA OthersType ==
    ASSUME TypeOK, \/ \E x \in Actors : Dies(x)
                   \/ \E t \in Tasks : TimePasses(t)
    PROVE  TypeOK'
  <1>1. ASSUME NEW x \in Actors, Dies(x) PROVE TypeOK'
    <2> DEFINE X == {y \in Actors : ProcessOf[y] = ProcessOf[x]}
    <2>1. /\ Retire(X) /\ faults < MaxFaults /\ faults' = faults + 1
          /\ race' \in [Tasks -> BOOLEAN]
          /\ foreign' = [y \in Actors |-> y \notin X /\ foreign[y]]
          /\ UNCHANGED <<row, starts>>
      BY <1>1, RacesType DEF Dies
    <2>2. foreign' \in [Actors -> BOOLEAN]
      BY <2>1
    <2> HIDE DEF X
    <2> QED
      BY <2>1, <2>2, RetireType DEF TypeOK
  <1>2. ASSUME NEW t \in Tasks, TimePasses(t) PROVE TypeOK'
    BY <1>2 DEF TypeOK, TimePasses, Rows, local, history
  <1> QED
    BY <1>1, <1>2

LEMMA TypeStep ==
    ASSUME TypeOK, [Next]_vars
    PROVE  TypeOK'
  <1>1. CASE UNCHANGED vars
    BY <1>1 DEF TypeOK, vars, local, history
  <1>2. ASSUME NEW p \in Pollers, Poll(p) \/ Step(p) \/ ReadBack(p) \/ PollError(p)
        PROVE  TypeOK'
    BY <1>2, PollerType
  <1>3. ASSUME NEW c \in Clients, Client(c)
        PROVE  TypeOK'
    BY <1>3, ClientType
  <1>4. CASE Next
    BY <1>2, <1>3, <1>4, OthersType DEF Next, Client
  <1> QED
    BY <1>1, <1>4

\* The variables of TaskScheduler stay in their types, whatever the tables, the
\* poll loops and the processes are.
THEOREM TypeCorrect == Spec => []TypeOK
  BY InitType, TypeStep, PTL DEF Spec

-----------------------------------------------------------------------------
(* The lock.                                                               *)

\* Of the actors that share a lock, one at a time is between reading and writing.
Mutex == \A x \in Actors : Writing(x) => LockFree(x)

LockInv == TypeOK /\ Mutex /\ CopyIsCurrent

\* x moves, the other actors stay where they are, and a row that another is about
\* to write changes only if he is marked.
Alone(x) ==
    \A y \in Actors \ {x} :
        /\ pc'[y] = pc[y] /\ task'[y] = task[y] /\ copy'[y] = copy[y]
        /\ Writing(y) /\ ~foreign'[y] =>
               ~foreign[y] /\ Same(row[task[y]], row'[task[y]])

\* A step of one actor keeps the lock's invariant if, when he is about to write
\* after it, he has just taken the lock and read.
LEMMA LockKept ==
    ASSUME LockInv, NEW x \in Actors, Alone(x),
           Writing(x)' => LockFree(x) /\ row' = row /\ copy'[x] = row[task'[x]]
    PROVE  Mutex' /\ CopyIsCurrent'
  <1>1. \A y \in Actors \ {x} : Writing(y)' <=> Writing(y)
    BY DEF Alone, Writing
  <1>2. Mutex'
    BY <1>1 DEF LockInv, Mutex, LockFree
  <1>3. ASSUME NEW y \in Actors \ {x}, Writing(y), ~foreign'[y]
        PROVE  Same(copy'[y], row'[task'[y]])
    BY <1>3 DEF LockInv, CopyIsCurrent, Alone, Same
  <1>4. CopyIsCurrent'
    BY <1>1, <1>3 DEF CopyIsCurrent, Same
  <1> QED
    BY <1>2, <1>4

\* Who replaces a row under the lock leaves the others in order.
LEMMA ReplaceAlone ==
    ASSUME LockInv, NEW x \in Actors, NEW t \in Tasks, NEW r \in Rows,
           LockFree(x), Replace(x, t, r),
           \A y \in Actors \ {x} :
               pc'[y] = pc[y] /\ task'[y] = task[y] /\ copy'[y] = copy[y]
    PROVE  Alone(x)
  <1> SUFFICES ASSUME NEW y \in Actors \ {x}, Writing(y), ~foreign'[y]
               PROVE  ~foreign[y] /\ Same(row[task[y]], row'[task[y]])
    BY DEF Alone
  <1>1. ProcessOf[y] # ProcessOf[x]
    BY DEF LockFree
  <1>2. ~foreign[y] /\ task[y] # t
    BY <1>1 DEF Replace
  <1>3. task[y] \in Tasks
    BY DEF LockInv, TypeOK, Writing
  <1> QED
    BY <1>2, <1>3 DEF Replace, Same, LockInv, TypeOK

LEMMA PollerLock ==
    ASSUME LockInv, NEW p \in Pollers,
           Poll(p) \/ Step(p) \/ ReadBack(p) \/ PollError(p)
    PROVE  Mutex' /\ CopyIsCurrent'
  <1>p. p \in Actors
    BY DEF Actors
  <1>s. \/ Poll(p) \/ Start(p) \/ AskReturns(p) \/ ReadBack(p)
        \/ Complete(p) \/ EndBatch(p) \/ PollError(p)
    BY DEF Step
  <1>t. /\ row \in [Tasks -> Rows] /\ pc \in [Actors -> ProgramCounters]
        /\ task \in [Actors -> Tasks \cup {NoTask}] /\ copy \in [Actors -> Rows]
        /\ foreign \in [Actors -> BOOLEAN]
        /\ \A x \in Actors : task[x] \in Tasks <=> pc[x] \notin {"idle", "batch"}
    BY DEF LockInv, TypeOK
  <1>1. CASE Poll(p)
    <2>1. Alone(p) /\ ~Writing(p)'
      BY <1>1, <1>p, <1>t DEF Poll, Goto, Alone, Writing, Same
    <2> QED
      BY <2>1, <1>p, LockKept
  <1>2. CASE Start(p)
    <2>1. Alone(p) /\ ~Writing(p)'
      BY <1>2, <1>p, <1>t DEF Start, Goto, Alone, Writing, Same
    <2> QED
      BY <2>1, <1>p, LockKept
  <1>3. CASE AskReturns(p)
    <2>1. Alone(p) /\ ~Writing(p)'
      BY <1>3, <1>p, <1>t DEF AskReturns, Goto, history, Alone, Writing, Same
    <2> QED
      BY <2>1, <1>p, LockKept
  <1>4. CASE ReadBack(p)
    <2>1. Alone(p)
      BY <1>4, <1>p, <1>t DEF ReadBack, Goto, history, Alone, Same
    <2>2. LockFree(p) /\ row' = row /\ copy'[p] = row[task'[p]]
      BY <1>4, <1>p, <1>t DEF ReadBack, history
    <2> QED
      BY <2>1, <2>2, <1>p, LockKept
  <1>5. CASE Complete(p)
    <2>1. task[p] \in Tasks /\ copy[p] \in Rows /\ Writing(p)
      BY <1>5, <1>p, <1>t DEF Complete, Writing
    <2>2. LockFree(p)
      BY <2>1, <1>p DEF LockInv, Mutex
    <2>3. /\ Replace(p, task[p], Completed(task[p], copy[p]))
          /\ Completed(task[p], copy[p]) \in Rows
      BY <1>5, <2>1, CompletedType DEF Complete
    <2>4. \A y \in Actors \ {p} :
             pc'[y] = pc[y] /\ task'[y] = task[y] /\ copy'[y] = copy[y]
      BY <1>5, <1>t DEF Complete, Goto
    <2>5. Alone(p)
      BY <2>1, <2>2, <2>3, <2>4, <1>p, ReplaceAlone
    <2>6. ~Writing(p)'
      BY <1>5, <1>p, <1>t DEF Complete, Goto, Writing
    <2> QED
      BY <2>5, <2>6, <1>p, LockKept
  <1>6. CASE EndBatch(p)
    <2>1. Alone(p) /\ ~Writing(p)'
      BY <1>6, <1>p, <1>t DEF EndBatch, Retire, history, Alone, Writing, Same
    <2> QED
      BY <2>1, <1>p, LockKept
  <1>7. CASE PollError(p)
    <2>1. Alone(p) /\ ~Writing(p)'
      BY <1>7, <1>p, <1>t DEF PollError, Retire, Alone, Writing, Same
    <2> QED
      BY <2>1, <1>p, LockKept
  <1> QED
    BY <1>s, <1>1, <1>2, <1>3, <1>4, <1>5, <1>6, <1>7

LEMMA ClientLock ==
    ASSUME LockInv, NEW c \in Clients, Client(c)
    PROVE  Mutex' /\ CopyIsCurrent'
  <1>c. c \in Actors
    BY DEF Actors
  <1>t. /\ row \in [Tasks -> Rows] /\ pc \in [Actors -> ProgramCounters]
        /\ task \in [Actors -> Tasks \cup {NoTask}] /\ copy \in [Actors -> Rows]
        /\ foreign \in [Actors -> BOOLEAN]
        /\ \A x \in Actors : task[x] \in Tasks <=> pc[x] \notin {"idle", "batch"}
    BY DEF LockInv, TypeOK
  <1>1. CASE CreateTask(c)
    <2>1. PICK t \in FreeIds : Replace(c, t, NewRow(t, NoTask))
      BY <1>1 DEF CreateTask
    <2>2. t \in Tasks /\ NewRow(t, NoTask) \in Rows
      BY NewRowType DEF FreeIds
    <2>3. LockFree(c) /\ UNCHANGED local /\ ~Writing(c)'
      BY <1>1, <1>c DEF CreateTask, Writing, local
    <2>4. Alone(c)
      BY <2>1, <2>2, <2>3, <1>c, ReplaceAlone DEF local
    <2> QED
      BY <2>3, <2>4, <1>c, LockKept
  <1>2. CASE ReadRow(c)
    <2>1. Alone(c)
      BY <1>2, <1>c, <1>t DEF ReadRow, Goto, history, Alone, Same
    <2>2. LockFree(c) /\ row' = row /\ copy'[c] = row[task'[c]]
      BY <1>2, <1>c, <1>t DEF ReadRow, history
    <2> QED
      BY <2>1, <2>2, <1>c, LockKept
  <1>3. CASE WriteRow(c)
    <2>1. /\ task[c] \in Tasks /\ copy[c] \in Rows /\ Writing(c)
          /\ command[c] \in {"pause", "resume", "cancel"}
      BY <1>3, <1>c DEF WriteRow, Writing, LockInv, TypeOK
    <2>2. LockFree(c)
      BY <2>1, <1>c DEF LockInv, Mutex
    <2>3. /\ Replace(c, task[c], Commanded(task[c], copy[c], command[c]))
          /\ Commanded(task[c], copy[c], command[c]) \in Rows
      BY <1>3, <2>1, CommandedType DEF WriteRow
    <2>4. \A y \in Actors \ {c} :
             pc'[y] = pc[y] /\ task'[y] = task[y] /\ copy'[y] = copy[y]
      BY <1>3, <1>t DEF WriteRow, Retire
    <2>5. Alone(c)
      BY <2>1, <2>2, <2>3, <2>4, <1>c, ReplaceAlone
    <2>6. ~Writing(c)'
      BY <1>3, <1>c DEF WriteRow, Retire, Writing
    <2> QED
      BY <2>5, <2>6, <1>c, LockKept
  <1>4. CASE RunTask(c)
    <2>1. Alone(c) /\ ~Writing(c)'
      BY <1>4, <1>c, <1>t DEF RunTask, local, Alone, Writing, Same
    <2> QED
      BY <2>1, <1>c, LockKept
  <1>5. CASE Activate(c)
    <2>1. Alone(c) /\ ~Writing(c)'
      BY <1>5, <1>c, <1>t DEF Activate, Goto, history, Alone, Writing, Same
    <2> QED
      BY <2>1, <1>c, LockKept
  <1>6. CASE ActivateCreate(c)
    <2>1. PICK t \in FreeIds : Replace(c, t, NewRow(t, task[c]))
      BY <1>6 DEF ActivateCreate
    <2>2. t \in Tasks /\ task[c] \in OperatorTasks
      BY <1>6 DEF FreeIds, ActivateCreate, LockInv, TypeOK
    <2>3. NewRow(t, task[c]) \in Rows
      BY <2>2, NewRowType
    <2>4. LockFree(c) /\ ~Writing(c)'
      BY <1>6, <1>c, <1>t DEF ActivateCreate, Goto, Writing
    <2>5. \A y \in Actors \ {c} :
             pc'[y] = pc[y] /\ task'[y] = task[y] /\ copy'[y] = copy[y]
      BY <1>6, <1>t DEF ActivateCreate, Goto
    <2>6. Alone(c)
      BY <2>1, <2>2, <2>3, <2>4, <2>5, <1>c, ReplaceAlone
    <2> QED
      BY <2>4, <2>6, <1>c, LockKept
  <1>7. CASE ActivateSave(c)
    <2>1. ~Writing(c)' /\ \A y \in Actors \ {c} :
             pc'[y] = pc[y] /\ task'[y] = task[y] /\ copy'[y] = copy[y]
      BY <1>7, <1>c, <1>t DEF ActivateSave, Retire, Writing
    <2>2. ASSUME NEW y \in Actors \ {c}, Writing(y), ~foreign'[y]
          PROVE  ~foreign[y] /\ row'[task[y]] = row[task[y]]
      <3>1. ~foreign[y] /\ task[y] # task[c]
        BY <1>7, <2>2 DEF ActivateSave
      <3>2. task[y] \in Tasks
        BY <1>t, <2>2 DEF Writing
      <3> QED
        BY <1>7, <1>t, <3>1, <3>2 DEF ActivateSave
    <2>3. Alone(c)
      BY <2>1, <2>2 DEF Alone, Same
    <2> QED
      BY <2>1, <2>3, <1>c, LockKept
  <1> QED
    BY <1>1, <1>2, <1>3, <1>4, <1>5, <1>6, <1>7 DEF Client

LEMMA OthersLock ==
    ASSUME LockInv, \/ \E x \in Actors : Dies(x)
                    \/ \E t \in Tasks : TimePasses(t)
    PROVE  Mutex' /\ CopyIsCurrent'
  <1>t. /\ row \in [Tasks -> Rows] /\ pc \in [Actors -> ProgramCounters]
        /\ \A x \in Actors : task[x] \in Tasks <=> pc[x] \notin {"idle", "batch"}
    BY DEF LockInv, TypeOK
  <1>1. ASSUME NEW x \in Actors, Dies(x)
        PROVE  Mutex' /\ CopyIsCurrent'
    <2>1. row' = row
      BY <1>1 DEF Dies
    <2>2. ASSUME NEW y \in Actors, Writing(y)'
          PROVE  /\ Writing(y) /\ task'[y] = task[y] /\ copy'[y] = copy[y]
                 /\ foreign'[y] = foreign[y]
      <3>1. ProcessOf[y] # ProcessOf[x]
        BY <1>1, <2>2, <1>t DEF Dies, Retire, Writing
      <3> QED
        BY <1>1, <2>2, <3>1, <1>t DEF Dies, Retire, Writing, LockInv, TypeOK
    <2>3. Mutex'
      BY <2>2 DEF Mutex, LockFree, LockInv
    <2>4. CopyIsCurrent'
      BY <2>1, <2>2 DEF CopyIsCurrent, LockInv, Same
    <2> QED
      BY <2>3, <2>4
  <1>2. ASSUME NEW t \in Tasks, TimePasses(t)
        PROVE  Mutex' /\ CopyIsCurrent'
    <2>1. UNCHANGED <<pc, task, copy, foreign>>
      BY <1>2 DEF TimePasses, local, history
    <2>2. \A u \in Tasks : Same(row[u], row'[u])
      BY <1>2, <1>t DEF TimePasses, Same, Rows
    <2>3. Mutex'
      BY <2>1 DEF Mutex, LockFree, Writing, LockInv
    <2>4. \A y \in Actors : Writing(y) => task[y] \in Tasks
      BY <1>t DEF Writing
    <2>5. CopyIsCurrent'
      BY <2>1, <2>2, <2>4 DEF CopyIsCurrent, Writing, LockInv, Same
    <2> QED
      BY <2>3, <2>5
  <1> QED
    BY <1>1, <1>2

LEMMA LockStep ==
    ASSUME LockInv, [Next]_vars
    PROVE  LockInv'
  <1>1. TypeOK'
    BY TypeStep DEF LockInv
  <1>2. CASE UNCHANGED vars
    BY <1>1, <1>2 DEF LockInv, Mutex, CopyIsCurrent, LockFree, Writing, Same, vars, local, history
  <1>3. ASSUME NEW p \in Pollers, Poll(p) \/ Step(p) \/ ReadBack(p) \/ PollError(p)
        PROVE  Mutex' /\ CopyIsCurrent'
    BY <1>3, PollerLock
  <1>4. ASSUME NEW c \in Clients, Client(c)
        PROVE  Mutex' /\ CopyIsCurrent'
    BY <1>4, ClientLock
  <1>5. CASE Next
    <2>1. Mutex' /\ CopyIsCurrent'
      BY <1>3, <1>4, <1>5, OthersLock DEF Next, Client
    <2> QED
      BY <1>1, <2>1 DEF LockInv
  <1> QED
    BY <1>2, <1>5

LEMMA LockInit == Init => LockInv
  <1> SUFFICES ASSUME Init PROVE LockInv
    OBVIOUS
  <1>1. \A x \in Actors : ~Writing(x)
    BY DEF Init, Writing
  <1> QED
    BY <1>1, InitType DEF LockInv, Mutex, CopyIsCurrent

\* The row an actor is about to write back is the one in the table, unless
\* somebody who does not share his lock has written it since he read it.
THEOREM LockKeepsCopiesCurrent == Spec => []CopyIsCurrent
  <1>1. LockInv => CopyIsCurrent
    BY DEF LockInv
  <1> QED
    BY <1>1, LockInit, LockStep, PTL DEF Spec

-----------------------------------------------------------------------------
(* Commands.                                                               *)

\* Who makes the row of t active that was paused or cancelled.
Revived(t) ==
    /\ row[t].status \in {"paused", "cancelled"}
    /\ row'[t].status = "active"

Reviver(x, t) ==
    /\ task[x] = t
    /\ \/ pc[x] = "command" /\ command[x] = "resume"
       \/ pc[x] = "save"
       \/ foreign[x]

LEMMA CommandsStep ==
    ASSUME LockInv, [Next]_vars, NEW t \in Tasks, Revived(t)
    PROVE  \E x \in Actors : Reviver(x, t)
  <1>t. row \in [Tasks -> Rows] /\ copy \in [Actors -> Rows] /\ foreign \in [Actors -> BOOLEAN]
    BY DEF LockInv, TypeOK
  <1>r. row'[t] # row[t] /\ row'[t].status # row[t].status
    BY DEF Revived
  <1>1. ASSUME NEW p \in Pollers, Poll(p) \/ Step(p) \/ ReadBack(p) \/ PollError(p)
        PROVE  Reviver(p, t)
    <2>p. p \in Actors
      BY DEF Actors
    <2>1. Complete(p)
      BY <1>1, <1>r DEF Poll, Step, Start, AskReturns, EndBatch, ReadBack, PollError, history
    <2>2. task[p] = t /\ row'[t] = Completed(t, copy[p])
      BY <2>1, <1>r, <1>t DEF Complete, Replace
    <2>3. copy[p].status = "active"
      <3>1. copy[p] \in Rows
        BY <2>p, <1>t
      <3>2. Completed(t, copy[p]).status \in {"completed", copy[p].status}
        BY <3>1 DEF Completed, NextRun, Rows
      <3> QED
        BY <2>2, <3>2 DEF Revived
    <2>4. foreign[p]
      BY <2>1, <2>2, <2>3, <2>p, <1>t DEF LockInv, CopyIsCurrent, Same, Revived, Complete, Writing
    <2> QED
      BY <2>2, <2>4 DEF Reviver
  <1>2. ASSUME NEW c \in Clients, Client(c)
        PROVE  Reviver(c, t)
    <2>c. c \in Actors
      BY DEF Actors
    <2>1. row[t].status # "none"
      BY DEF Revived
    <2>2. CASE CreateTask(c)
      <3>1. PICK u \in FreeIds : Replace(c, u, NewRow(u, NoTask))
        BY <2>2 DEF CreateTask
      <3>2. row'[t] = row[t]
        BY <2>1, <3>1, <1>t DEF FreeIds, Replace
      <3> QED
        BY <3>2, <1>r
    <2>3. CASE ActivateCreate(c)
      <3>1. PICK u \in FreeIds : Replace(c, u, NewRow(u, task[c]))
        BY <2>3 DEF ActivateCreate
      <3>2. row'[t] = row[t]
        BY <2>1, <3>1, <1>t DEF FreeIds, Replace
      <3> QED
        BY <3>2, <1>r
    <2>4. CASE ActivateSave(c)
      BY <2>4, <1>r, <1>t DEF ActivateSave, Reviver
    <2>5. CASE WriteRow(c)
      <3>1. task[c] = t /\ row'[t] = Commanded(t, copy[c], command[c]) /\ pc[c] = "command"
        BY <2>5, <1>r, <1>t DEF WriteRow, Replace
      <3>2. copy[c] \in Rows /\ command[c] \in {"pause", "resume", "cancel"}
        BY <3>1, <2>c DEF LockInv, TypeOK
      <3>3. command[c] # "resume" => Commanded(t, copy[c], command[c]).status # "active"
        BY <3>2 DEF Commanded, Rows
      <3> QED
        BY <3>1, <3>3 DEF Revived, Reviver
    <2>6. CASE ReadRow(c) \/ RunTask(c) \/ Activate(c)
      BY <2>6, <1>r DEF ReadRow, RunTask, Activate
    <2> QED
      BY <1>2, <2>2, <2>3, <2>4, <2>5, <2>6 DEF Client
  <1>3. ~(\E x \in Actors : Dies(x))
    BY <1>r DEF Dies
  <1>4. ~(\E u \in Tasks : TimePasses(u))
    BY <1>r, <1>t DEF TimePasses, Rows
  <1>5. ~UNCHANGED vars
    BY <1>r DEF vars
  <1> QED
    BY <1>1, <1>2, <1>3, <1>4, <1>5 DEF Next, Client, Actors

\* What the user paused or cancelled becomes active again only by a resume, the
\* activation of its operator, or a write from a copy made stale past the lock.
THEOREM CommandsAreNotUndone == Spec => CommandsStand
  <1>1. LockInv /\ [Next]_vars =>
          [\A t \in Tasks :
             /\ row[t].status \in {"paused", "cancelled"}
             /\ row'[t].status = "active"
             => \E x \in Actors :
                  /\ task[x] = t
                  /\ \/ pc[x] = "command" /\ command[x] = "resume"
                     \/ pc[x] = "save"
                     \/ foreign[x]]_vars
    BY CommandsStep DEF Revived, Reviver
  <1> QED
    BY <1>1, LockInit, LockStep, PTL DEF Spec, CommandsStand

-----------------------------------------------------------------------------
(* One-time tasks.                                                         *)

\* A one-time task t on its way: at most one poll loop has it, before it has run;
\* it has not been executed while it is on a list, and not more than once; when
\* it has been executed somebody is about to record that, or it is recorded.
Orderly(t) ==
    /\ \A p, q \in Pollers : InHand(p, t) /\ InHand(q, t) => p = q
    /\ \A p \in Pollers : InHand(p, t) => ~row[t].ran
    /\ \A p \in Pollers : t \in todo[p] => starts[t] = 0
    /\ row[t].ran => row[t].next = "none" /\ row[t].status # "none"
    /\ starts[t] <= 1
    /\ starts[t] = 1 => row[t].ran \/ \E p \in Pollers : Busy(p) /\ task[p] = t

\* What a poll loop executes has left its list.
NoRepeat == \A p \in Pollers : Busy(p) => task[p] \notin todo[p]

OnceInv ==
    /\ LockInv
    /\ NoRepeat
    /\ \A t \in Tasks : Kind[t] = "once" /\ ~race[t] => Orderly(t)

\* The poll loops stay where they are.
PollersStay ==
    \A p \in Pollers : pc'[p] = pc[p] /\ todo'[p] = todo[p] /\ task'[p] = task[p]

\* Whoever changes the table and not the poll loops keeps t in order, if t runs or has
\* not run as before and stays so, or begins anew.
LEMMA TableStep ==
    ASSUME OnceInv, PollersStay, NEW t \in Tasks, Orderly(t),
           \/ /\ row'[t].ran = row[t].ran /\ starts'[t] = starts[t]
              /\ row'[t].ran => row'[t].next = "none" /\ row'[t].status # "none"
           \/ row'[t].ran = FALSE /\ starts'[t] = 0
    PROVE  Orderly(t)'
  <1>1. \A p \in Pollers : (InHand(p, t)' <=> InHand(p, t)) /\ (Busy(p)' <=> Busy(p))
    BY DEF PollersStay, InHand, Busy
  <1> QED
    BY <1>1 DEF Orderly, PollersStay

LEMMA StayNoRepeat ==
    ASSUME OnceInv, PollersStay
    PROVE  NoRepeat'
  BY DEF OnceInv, NoRepeat, PollersStay, Busy

LEMMA ClientOnce ==
    ASSUME OnceInv, NEW c \in Clients, Client(c)
    PROVE  /\ NoRepeat'
           /\ \A t \in Tasks : Kind[t] = "once" /\ ~race'[t] => Orderly(t)'
  <1>c. c \in Actors /\ c \notin Pollers /\ Pollers \subseteq Actors
    BY DEF Actors
  <1>t. /\ row \in [Tasks -> Rows] /\ pc \in [Actors -> ProgramCounters]
        /\ todo \in [Actors -> SUBSET Tasks] /\ copy \in [Actors -> Rows]
        /\ task \in [Actors -> Tasks \cup {NoTask}]
        /\ starts \in [Tasks -> 0..2] /\ race \in [Tasks -> BOOLEAN]
    BY DEF OnceInv, LockInv, TypeOK
  <1>1. PollersStay
    BY <1>c, <1>t DEF PollersStay, Client, CreateTask, ReadRow, WriteRow, RunTask,
        Activate, ActivateCreate, ActivateSave, Retire, Goto, local
  <1>2. NoRepeat'
    BY <1>1, StayNoRepeat
  <1> SUFFICES ASSUME NEW t \in Tasks, Kind[t] = "once", ~race'[t]
               PROVE  Orderly(t)'
    BY <1>2
  <1>3. ~race[t]
    BY <1>t DEF Client, CreateTask, ReadRow, WriteRow, RunTask,
        Activate, ActivateCreate, ActivateSave, Races, history
  <1>4. Orderly(t)
    BY <1>3 DEF OnceInv
  <1>5. row[t].ran => row[t].next = "none" /\ row[t].status # "none"
    BY <1>4 DEF Orderly
  <1>6. CASE CreateTask(c)
    <2>1. PICK u \in FreeIds : Replace(c, u, NewRow(u, NoTask))
      BY <1>6 DEF CreateTask
    <2>2. row[u].status = "none" /\ u \in Tasks /\ starts' = starts
      BY <1>6 DEF FreeIds, CreateTask
    <2>3. CASE u = t
      BY <2>1, <2>2, <2>3, <1>1, <1>4, <1>5, <1>t, TableStep DEF Replace, NewRow, Rows
    <2>4. CASE u # t
      BY <2>1, <2>2, <2>4, <1>1, <1>4, <1>5, <1>t, TableStep DEF Replace
    <2> QED
      BY <2>3, <2>4
  <1>7. CASE ReadRow(c) \/ Activate(c)
    BY <1>7, <1>1, <1>4, <1>5, TableStep DEF ReadRow, Activate, history
  <1>8. CASE WriteRow(c)
    <2>1. /\ task[c] \in Tasks /\ copy[c] \in Rows /\ Writing(c)
          /\ command[c] \in {"pause", "resume", "cancel"} /\ starts' = starts
      BY <1>8, <1>c DEF WriteRow, Writing, OnceInv, LockInv, TypeOK
    <2>2. CASE task[c] = t
      <3>1. ~foreign[c]
        BY <1>8, <2>2, <1>t DEF WriteRow, Races
      <3>2. Same(copy[c], row[t])
        BY <2>1, <2>2, <3>1, <1>c DEF OnceInv, LockInv, CopyIsCurrent
      <3>3. row'[t] = Commanded(t, copy[c], command[c])
        BY <1>8, <2>2, <1>t DEF WriteRow, Replace
      <3>4. /\ Commanded(t, copy[c], command[c]).ran = copy[c].ran
            /\ Commanded(t, copy[c], command[c]).status # "none"
            /\ copy[c].ran /\ copy[c].next = "none" =>
                  Commanded(t, copy[c], command[c]).next = "none"
        BY <2>1 DEF Commanded, Rows, NextRun
      <3> QED
        BY <2>1, <3>2, <3>3, <3>4, <1>1, <1>4, <1>5, TableStep DEF Same
    <2>3. CASE task[c] # t
      BY <1>8, <2>1, <2>3, <1>1, <1>4, <1>5, <1>t, TableStep DEF WriteRow, Replace
    <2> QED
      BY <2>2, <2>3
  <1>9. CASE RunTask(c)
    <2>1. PICK u \in Tasks : Execute(u) /\ Races({u})
      BY <1>9 DEF RunTask
    <2>2. u # t
      BY <2>1 DEF Races
    <2> QED
      BY <1>9, <2>1, <2>2, <1>1, <1>4, <1>5, <1>t, TableStep DEF RunTask, Execute
  <1>10. CASE ActivateCreate(c)
    <2>1. PICK u \in FreeIds : Replace(c, u, NewRow(u, task[c]))
      BY <1>10 DEF ActivateCreate
    <2>2. row[u].status = "none" /\ u \in Tasks /\ starts' = starts
      BY <1>10 DEF FreeIds, ActivateCreate
    <2>3. CASE u = t
      BY <2>1, <2>2, <2>3, <1>1, <1>4, <1>5, <1>t, TableStep DEF Replace, NewRow, Rows
    <2>4. CASE u # t
      BY <2>1, <2>2, <2>4, <1>1, <1>4, <1>5, <1>t, TableStep DEF Replace
    <2> QED
      BY <2>3, <2>4
  <1>11. CASE ActivateSave(c)
    <2>1. CASE task[c] = t
      BY <1>11, <2>1, <1>1, <1>4, <1>t, TableStep DEF ActivateSave, NewRow
    <2>2. CASE task[c] # t
      BY <1>11, <2>2, <1>1, <1>4, <1>5, <1>t, TableStep DEF ActivateSave
    <2> QED
      BY <2>1, <2>2
  <1> QED
    BY <1>6, <1>7, <1>8, <1>9, <1>10, <1>11 DEF Client

\* A poll loop keeps one-time tasks in order.
LEMMA PollerOnce ==
    ASSUME OnceInv, NEW p \in Pollers,
           Poll(p) \/ Step(p) \/ ReadBack(p) \/ PollError(p)
    PROVE  /\ NoRepeat'
           /\ \A t \in Tasks : Kind[t] = "once" /\ ~race'[t] => Orderly(t)'
  <1>p. p \in Actors /\ Pollers \subseteq Actors
    BY DEF Actors
  <1>t. /\ row \in [Tasks -> Rows] /\ pc \in [Actors -> ProgramCounters]
        /\ todo \in [Actors -> SUBSET Tasks] /\ copy \in [Actors -> Rows]
        /\ task \in [Actors -> Tasks \cup {NoTask}]
        /\ starts \in [Tasks -> 0..2] /\ race \in [Tasks -> BOOLEAN]
        /\ \A x \in Actors : task[x] \in Tasks <=> pc[x] \notin {"idle", "batch"}
    BY DEF OnceInv, LockInv, TypeOK
  <1>s. \/ Poll(p) \/ Start(p) \/ AskReturns(p) \/ ReadBack(p)
        \/ Complete(p) \/ EndBatch(p) \/ PollError(p)
    BY DEF Step
  <1>o. \A q \in Pollers \ {p} : pc'[q] = pc[q] /\ todo'[q] = todo[q] /\ task'[q] = task[q]
    BY <1>s, <1>p, <1>t DEF Poll, Start, AskReturns, ReadBack, Complete, EndBatch, PollError,
        Retire, Goto
  <1>q. \A q \in Pollers \ {p} : (Busy(q)' <=> Busy(q)) /\
           (\A t \in Tasks : InHand(q, t)' <=> InHand(q, t))
    BY <1>o DEF InHand, Busy
  <1>k. \A t \in Tasks : ~race'[t] => ~race[t]
    BY <1>s, <1>t DEF Poll, Start, AskReturns, ReadBack, Complete, EndBatch, PollError,
        Races, history
  <1>n. NoRepeat
    BY DEF OnceInv
  <1>1. CASE Poll(p)
    <2>1. todo'[p] = Due /\ ~Busy(p)' /\ row' = row /\ starts' = starts /\ task' = task /\ ~Busy(p)
      BY <1>1, <1>p, <1>t DEF Poll, Goto, Busy
    <2>2. NoRepeat'
      BY <1>n, <1>o, <1>q, <2>1 DEF NoRepeat
    <2>3. ASSUME NEW t \in Tasks, Kind[t] = "once", ~race'[t]
          PROVE  Orderly(t)'
      <3>1. Orderly(t)
        BY <1>k, <2>3 DEF OnceInv
      <3>2. CASE t \in Due
        <4>1. \A q \in Pollers \ {p} : ~InHand(q, t)
          BY <1>1, <2>3, <3>2 DEF Poll, Races
        <4>2. ~row[t].ran
          BY <3>1, <3>2 DEF Orderly, Due
        <4>3. starts[t] = 0
          BY <2>1, <2>3, <3>1, <4>1, <4>2, <1>t DEF Orderly, InHand
        <4> QED
          BY <1>q, <2>1, <3>1, <4>1, <4>2, <4>3 DEF Orderly
      <3>3. CASE t \notin Due
        <4>1. ~InHand(p, t)'
          BY <2>1, <3>3 DEF InHand
        <4>2. \A q \in Pollers : t \in todo'[q] => t \in todo[q]
          BY <1>o, <2>1, <3>3
        <4>3. \A q \in Pollers : Busy(q) /\ task[q] = t => Busy(q)' /\ task'[q] = t
          BY <1>q, <2>1
        <4>4. \A q \in Pollers : InHand(q, t)' => InHand(q, t)
          BY <1>q, <4>1
        <4> QED
          BY <2>1, <3>1, <4>2, <4>3, <4>4 DEF Orderly
      <3> QED
        BY <3>2, <3>3
    <2> QED
      BY <2>2, <2>3
  <1>2. CASE Start(p)
    <2>1. PICK u \in todo[p] : /\ todo' = [todo EXCEPT ![p] = @ \ {u}]
                              /\ task' = [task EXCEPT ![p] = u] /\ Execute(u)
      BY <1>2 DEF Start
    <2>2. /\ u \in Tasks /\ todo'[p] = todo[p] \ {u} /\ task'[p] = u
          /\ Busy(p)' /\ ~Busy(p) /\ row' = row
      BY <1>2, <2>1, <1>p, <1>t DEF Start, Goto, Busy
    <2>3. NoRepeat'
      BY <1>n, <1>o, <1>q, <2>2 DEF NoRepeat
    <2>4. ASSUME NEW t \in Tasks, Kind[t] = "once", ~race'[t]
          PROVE  Orderly(t)'
      <3>1. Orderly(t)
        BY <1>k, <2>4 DEF OnceInv
      <3>2. InHand(p, t)' <=> InHand(p, t)
        BY <2>1, <2>2 DEF InHand
      <3>3. CASE t = u
        <4>1. starts[t] = 0 /\ InHand(p, t)
          BY <2>1, <3>1, <3>3 DEF Orderly, InHand
        <4>2. starts'[t] = 1
          BY <2>1, <2>4, <3>3, <4>1, <1>t DEF Execute, AtMost
        <4>3. \A q \in Pollers \ {p} : ~InHand(q, t)
          BY <3>1, <4>1 DEF Orderly
        <4>4. \A q \in Pollers : t \notin todo'[q]
          BY <1>o, <2>2, <3>3, <4>3 DEF InHand
        <4>5. \A q \in Pollers : InHand(q, t)' => q = p
          BY <1>q, <4>3
        <4>6. ~row'[t].ran
          BY <2>2, <3>1, <4>1 DEF Orderly
        <4>7. Busy(p)' /\ task'[p] = t
          BY <2>2, <3>3
        <4>8. row'[t].ran => row'[t].next = "none" /\ row'[t].status # "none"
          BY <4>6
        <4> QED
          BY <4>2, <4>4, <4>5, <4>6, <4>7, <4>8 DEF Orderly
      <3>4. CASE t # u
        <4>1. starts'[t] = starts[t]
          BY <2>1, <2>2, <3>4, <1>t DEF Execute
        <4> QED
          BY <1>o, <1>q, <2>2, <3>1, <3>2, <3>4, <4>1 DEF Orderly
      <3> QED
        BY <3>3, <3>4
    <2> QED
      BY <2>3, <2>4
  <1>3. CASE AskReturns(p) \/ ReadBack(p)
    <2>1. /\ todo' = todo /\ task' = task /\ Busy(p)' /\ Busy(p) /\ row' = row
          /\ starts' = starts /\ race' = race
      BY <1>3, <1>p, <1>t DEF AskReturns, ReadBack, Goto, Busy, history
    <2>2. NoRepeat'
      BY <1>n, <1>q, <2>1 DEF NoRepeat
    <2>3. ASSUME NEW t \in Tasks, Orderly(t)
          PROVE  Orderly(t)'
      <3>1. InHand(p, t)' <=> InHand(p, t)
        BY <2>1 DEF InHand
      <3> QED
        BY <1>q, <2>1, <2>3, <3>1 DEF Orderly
    <2> QED
      BY <2>1, <2>2, <2>3 DEF OnceInv
  <1>4. CASE Complete(p)
    <2>1. /\ task[p] \in Tasks /\ copy[p] \in Rows /\ Busy(p) /\ ~Busy(p)'
          /\ todo' = todo /\ starts' = starts
          /\ row' = [row EXCEPT ![task[p]] = Completed(task[p], copy[p])]
      BY <1>4, <1>p, <1>t DEF Complete, Goto, Busy, Replace
    <2>2. NoRepeat'
      BY <1>n, <1>o, <1>q, <2>1 DEF NoRepeat
    <2>3. ASSUME NEW t \in Tasks, Kind[t] = "once", ~race'[t]
          PROVE  Orderly(t)'
      <3>1. Orderly(t)
        BY <1>k, <2>3 DEF OnceInv
      <3>2. CASE t = task[p]
        <4>1. InHand(p, t) /\ t \notin todo[p]
          BY <1>n, <2>1, <3>2 DEF NoRepeat, InHand
        <4>2. \A q \in Pollers : ~InHand(q, t)'
          BY <1>q, <2>1, <3>1, <4>1 DEF Orderly, InHand
        <4>3. row'[t].ran /\ row'[t].next = "none" /\ row'[t].status # "none"
          BY <2>1, <2>3, <3>2, <1>t DEF Completed, NextRun, Rows
        <4>4. \A q \in Pollers : t \notin todo'[q]
          BY <4>2 DEF InHand
        <4> QED
          BY <2>1, <3>1, <4>2, <4>3, <4>4 DEF Orderly
      <3>3. CASE t # task[p]
        <4>1. InHand(p, t)' <=> InHand(p, t)
          BY <2>1, <3>3 DEF InHand
        <4>2. row'[t] = row[t]
          BY <2>1, <3>3, <1>t
        <4> QED
          BY <1>o, <1>q, <2>1, <3>1, <3>3, <4>1, <4>2 DEF Orderly
      <3> QED
        BY <3>2, <3>3
    <2> QED
      BY <2>2, <2>3
  <1>5. CASE EndBatch(p) \/ PollError(p)
    <2>1. todo'[p] = {} /\ ~Busy(p)' /\ row' = row /\ starts' = starts
      BY <1>5, <1>p, <1>t DEF EndBatch, PollError, Retire, Busy, history
    <2>2. NoRepeat'
      BY <1>n, <1>o, <1>q, <2>1 DEF NoRepeat
    <2>3. ASSUME NEW t \in Tasks, Kind[t] = "once", ~race'[t]
          PROVE  Orderly(t)'
      <3>1. Orderly(t)
        BY <1>k, <2>3 DEF OnceInv
      <3>2. ~InHand(p, t)'
        BY <2>1 DEF InHand
      <3>3. ~(Busy(p) /\ task[p] = t)
        BY <1>5, <2>3, <1>t DEF EndBatch, PollError, Races, Busy
      <3> QED
        BY <1>o, <1>q, <2>1, <3>1, <3>2, <3>3 DEF Orderly
    <2> QED
      BY <2>2, <2>3
  <1> QED
    BY <1>s, <1>1, <1>2, <1>3, <1>4, <1>5

LEMMA OthersOnce ==
    ASSUME OnceInv, \/ \E x \in Actors : Dies(x)
                    \/ \E t \in Tasks : TimePasses(t)
    PROVE  /\ NoRepeat'
           /\ \A t \in Tasks : Kind[t] = "once" /\ ~race'[t] => Orderly(t)'
  <1>t. /\ row \in [Tasks -> Rows] /\ race \in [Tasks -> BOOLEAN]
        /\ Pollers \subseteq Actors
    BY DEF OnceInv, LockInv, TypeOK, Actors
  <1>1. ASSUME NEW x \in Actors, Dies(x)
        PROVE  /\ NoRepeat'
               /\ \A t \in Tasks : Kind[t] = "once" /\ ~race'[t] => Orderly(t)'
    <2> DEFINE X == {y \in Actors : ProcessOf[y] = ProcessOf[x]}
    <2>1. /\ Retire(X) /\ row' = row /\ starts' = starts
          /\ Races({t \in Tasks : \E p \in X \cap Pollers : Busy(p) /\ task[p] = t})
      BY <1>1 DEF Dies
    <2> HIDE DEF X
    <2>2. ASSUME NEW q \in Pollers
          PROVE  \/ todo'[q] = {} /\ ~Busy(q)' /\ q \in X
                 \/ todo'[q] = todo[q] /\ task'[q] = task[q] /\ (Busy(q)' <=> Busy(q)) /\ q \notin X
      BY <2>1, <1>t DEF Retire, Busy
    <2>3. NoRepeat'
      BY <2>2 DEF NoRepeat, OnceInv
    <2>4. ASSUME NEW t \in Tasks, Kind[t] = "once", ~race'[t]
          PROVE  Orderly(t)'
      <3>1. ~race[t] /\ \A p \in X \cap Pollers : ~(Busy(p) /\ task[p] = t)
        BY <2>1, <2>4 DEF Races
      <3>2. Orderly(t)
        BY <3>1, <2>4 DEF OnceInv
      <3>3. \A q \in Pollers : InHand(q, t)' => InHand(q, t)
        BY <2>2 DEF InHand
      <3>4. \A q \in Pollers : t \in todo'[q] => t \in todo[q]
        BY <2>2
      <3>5. \A q \in Pollers : Busy(q) /\ task[q] = t => Busy(q)' /\ task'[q] = t
        BY <2>2, <3>1
      <3> QED
        BY <2>1, <3>2, <3>3, <3>4, <3>5 DEF Orderly
    <2> QED
      BY <2>3, <2>4
  <1>2. ASSUME NEW u \in Tasks, TimePasses(u)
        PROVE  /\ NoRepeat'
               /\ \A t \in Tasks : Kind[t] = "once" /\ ~race'[t] => Orderly(t)'
    <2>1. PollersStay /\ race' = race /\ starts' = starts
      BY <1>2 DEF TimePasses, local, history, PollersStay
    <2>2. ASSUME NEW t \in Tasks, Kind[t] = "once", ~race'[t]
          PROVE  Orderly(t)'
      <3>1. Orderly(t)
        BY <2>1, <2>2 DEF OnceInv
      <3>2. row'[t].ran = row[t].ran
        BY <1>2, <1>t DEF TimePasses, Rows
      <3>3. row[t].ran => row'[t] = row[t]
        BY <1>2, <1>t, <3>1 DEF TimePasses, Rows, Orderly
      <3> QED
        BY <2>1, <3>1, <3>2, <3>3, TableStep DEF Orderly
    <2> QED
      BY <2>1, <2>2, StayNoRepeat
  <1> QED
    BY <1>1, <1>2

LEMMA OnceStep ==
    ASSUME OnceInv, [Next]_vars
    PROVE  OnceInv'
  <1>1. LockInv'
    BY LockStep DEF OnceInv
  <1>2. CASE UNCHANGED vars
    <2>1. PollersStay /\ UNCHANGED <<row, starts, race>>
      BY <1>2 DEF vars, local, history, PollersStay
    <2>2. ASSUME NEW t \in Tasks, Orderly(t)
          PROVE  Orderly(t)'
      BY <2>1, <2>2, TableStep DEF Orderly
    <2> QED
      BY <1>1, <2>1, <2>2, StayNoRepeat DEF OnceInv
  <1>3. ASSUME NEW p \in Pollers, Poll(p) \/ Step(p) \/ ReadBack(p) \/ PollError(p)
        PROVE  OnceInv'
    BY <1>1, <1>3, PollerOnce DEF OnceInv
  <1>4. ASSUME NEW c \in Clients, Client(c)
        PROVE  OnceInv'
    BY <1>1, <1>4, ClientOnce DEF OnceInv
  <1>5. ASSUME (\E x \in Actors : Dies(x)) \/ (\E t \in Tasks : TimePasses(t))
        PROVE  OnceInv'
    BY <1>1, <1>5, OthersOnce DEF OnceInv
  <1>6. CASE Next
    BY <1>3, <1>4, <1>5, <1>6 DEF Next, Client
  <1> QED
    BY <1>2, <1>6

LEMMA OnceInit == Init => OnceInv
  <1> SUFFICES ASSUME Init PROVE OnceInv
    OBVIOUS
  <1>1. \A p \in Pollers : ~Busy(p) /\ todo[p] = {}
    BY DEF Init, Busy, Actors
  <1>2. \A t \in Tasks : starts[t] = 0 /\ ~row[t].ran
    BY DEF Init, NoRow
  <1> QED
    BY <1>1, <1>2, LockInit DEF OnceInv, NoRepeat, Orderly, InHand

\* A one-time task is executed at most once, except after a race.
THEOREM OnceTwiceOnlyAfterRace == Spec => []OnceTwiceNeedsRace
  <1>1. OnceInv => OnceTwiceNeedsRace
    BY DEF OnceInv, LockInv, TypeOK, OnceTwiceNeedsRace, Orderly
  <1> QED
    BY <1>1, OnceInit, OnceStep, PTL DEF Spec

=============================================================================
