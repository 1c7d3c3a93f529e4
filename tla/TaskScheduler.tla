--------------------------- MODULE TaskScheduler ----------------------------
(***************************************************************************)
(* The table of scheduled tasks (scheduler/store.py) and those who use it: *)
(* poll loops that execute due tasks (scheduler/scheduler.py), commands    *)
(* that pause, resume and cancel them (tools in the poller's process,      *)
(* `scheduler` and `digest` commands in processes of their own), and       *)
(* operators, which are tasks under a name (operators/manager.py).         *)
(*                                                                         *)
(* A TaskScheduler object has a lock, held from reading a row to writing   *)
(* it back; the database has none that spans the two statements, and each  *)
(* process has its own object.                                             *)
(***************************************************************************)
EXTENDS Naturals, FiniteSets

CONSTANTS
    Tasks,         \* ids of rows
    NoTask,
    Kind,          \* schedule_type: "once", or "recurring" (interval, cron)
    OperatorTasks, \* the ids "operator:{id}" of the operators
    Pollers,       \* poll loops
    Clients,       \* threads and processes that issue commands
    ProcessOf,     \* the process of each of these
    MaxFaults      \* bound on the exceptions and deaths in a behaviour

Actors == Pollers \cup Clients

ASSUME TasksAssumption ==
    /\ NoTask \notin Tasks
    /\ Kind \in [Tasks -> {"once", "recurring"}]
    /\ OperatorTasks \subseteq Tasks
    /\ Pollers \cap Clients = {}
    /\ DOMAIN ProcessOf = Actors
    /\ MaxFaults \in Nat

VARIABLES
    row,      \* scheduled_tasks
    \* each actor
    pc,
    todo,     \* the due tasks a poller has still to execute
    task,     \* the task at hand
    copy,     \* the row as it was read
    command,  \* what a client does with it
    \* history
    starts,   \* how often a one-time task was executed, at most 2
    foreign,  \* somebody who does not share the actor's lock wrote its row since it read it
    race,     \* of a one-time task: a command written from such a copy, two pollers
              \* with the task, a lost completion, run-task
    faults

local == <<pc, todo, task, copy, command>>
history == <<starts, foreign, race, faults>>
vars == <<row, local, history>>

Statuses == {"none", "active", "paused", "cancelled", "completed"}
\* next_run is a time that has not yet come, or that has; ran: last_run is set;
\* owner: the operator that metadata["operator_id"] names, if any.
Rows == [status : Statuses, next : {"none", "later", "due"}, ran : BOOLEAN,
         owner : OperatorTasks \cup {NoTask}]
NoRow == [status |-> "none", next |-> "none", ran |-> FALSE, owner |-> NoTask]

\* _compute_next_run.  (The date of a one-time task may have passed already.)
NextRun(t, ran) == IF Kind[t] = "once" /\ ran THEN "none" ELSE "later"

\* create_task.
NewRow(t, o) ==
    [status |-> "active", next |-> NextRun(t, FALSE), ran |-> FALSE, owner |-> o]

Init ==
    /\ row = [t \in Tasks |-> NoRow]
    /\ pc = [x \in Actors |-> "idle"]
    /\ todo = [x \in Actors |-> {}]
    /\ task = [x \in Actors |-> NoTask]
    /\ copy = [x \in Actors |-> NoRow]
    /\ command = [x \in Actors |-> "none"]
    /\ starts = [t \in Tasks |-> 0]
    /\ foreign = [x \in Actors |-> FALSE]
    /\ race = [t \in Tasks |-> FALSE]
    /\ faults = 0

-----------------------------------------------------------------------------

Goto(x, label) == pc' = [pc EXCEPT ![x] = label]

\* Between reading a row and writing it back.
Writing(x) == pc[x] \in {"complete", "command"}

\* The lock of x's TaskScheduler is free.
LockFree(x) ==
    \A y \in Actors : y # x /\ ProcessOf[y] = ProcessOf[x] => ~Writing(y)

\* x replaces the row of t; the copies others hold of it are out of date.  The
\* lock tells those of x's own process (they hold none).
Replace(x, t, r) ==
    /\ row' = [row EXCEPT ![t] = r]
    /\ foreign' = [y \in Actors |->
                     y # x /\ (foreign[y] \/ (Writing(y) /\ task[y] = t
                                              /\ ProcessOf[y] # ProcessOf[x]))]

Busy(p) == pc[p] \in {"ask", "record", "complete"}
InHand(p, t) == t \in todo[p] \/ (Busy(p) /\ task[p] = t)

\* Actors X are done (or dead).
Retire(X) ==
    /\ pc' = [x \in Actors |-> IF x \in X THEN "idle" ELSE pc[x]]
    /\ todo' = [x \in Actors |-> IF x \in X THEN {} ELSE todo[x]]
    /\ task' = [x \in Actors |-> IF x \in X THEN NoTask ELSE task[x]]
    /\ copy' = [x \in Actors |-> IF x \in X THEN NoRow ELSE copy[x]]
    /\ command' = [x \in Actors |-> IF x \in X THEN "none" ELSE command[x]]

Races(T) == race' = [t \in Tasks |-> race[t] \/ (t \in T /\ Kind[t] = "once")]

AtMost(n, bound) == IF n > bound THEN bound ELSE n
Execute(t) ==
    starts' = [starts EXCEPT ![t] = IF Kind[t] = "once" THEN AtMost(@ + 1, 2) ELSE 0]

-----------------------------------------------------------------------------
(* The poll loop.                                                          *)

\* Variant: a task that has run is not looked at again.
DueUnlessRan == {t \in Tasks : row[t].status = "active" /\ row[t].next = "due" /\ ~row[t].ran}

\* get_due_tasks.
Due == {t \in Tasks : row[t].status = "active" /\ row[t].next = "due"}

\* (Polling an empty list changes nothing.)
Poll(p) ==
    /\ pc[p] = "idle" /\ LockFree(p)
    /\ Due # {}
    /\ todo' = [todo EXCEPT ![p] = Due]
    /\ Races({t \in Due : \E q \in Pollers \ {p} : InHand(q, t)})
    /\ Goto(p, "batch")
    /\ UNCHANGED <<row, task, copy, command, starts, foreign, faults>>

\* _execute_task, from the list: the row is not read again.
Start(p) ==
    /\ pc[p] = "batch"
    /\ \E t \in todo[p] :
         /\ todo' = [todo EXCEPT ![p] = @ \ {t}]
         /\ task' = [task EXCEPT ![p] = t]
         /\ Execute(t)
    /\ Goto(p, "ask")
    /\ UNCHANGED <<row, copy, command, foreign, race, faults>>

\* system.ask returns or raises; both are logged.
AskReturns(p) ==
    /\ pc[p] = "ask"
    /\ Goto(p, "record")
    /\ UNCHANGED <<row, todo, task, copy, command, history>>

\* Variant: the row is read without the lock.
ReadBackUnlocked(p) ==
    /\ pc[p] = "record"
    /\ copy' = [copy EXCEPT ![p] = row[task[p]]]
    /\ Goto(p, "complete")
    /\ UNCHANGED <<row, todo, task, command, history>>

\* log_run and get_task, under the lock.
ReadBack(p) ==
    /\ pc[p] = "record" /\ LockFree(p)
    /\ copy' = [copy EXCEPT ![p] = row[task[p]]]
    /\ Goto(p, "complete")
    /\ UNCHANGED <<row, todo, task, command, history>>

\* Variant: last_run is not set.
CompletedNeverRan(t, r) ==
    LET next == NextRun(t, r.ran)
    IN  [r EXCEPT !.status = IF next = "none" THEN "completed" ELSE @, !.next = next]

\* Variant: a completed run reactivates its task.
CompletedActive(t, r) ==
    LET next == NextRun(t, TRUE)
    IN  [r EXCEPT !.status = IF next = "none" THEN "completed" ELSE "active",
                  !.next = next, !.ran = TRUE]

\* The row after a run.
Completed(t, r) ==
    LET next == NextRun(t, TRUE)
    IN  [r EXCEPT !.status = IF next = "none" THEN "completed" ELSE @,
                  !.next = next, !.ran = TRUE]

\* update_task.
Complete(p) ==
    /\ pc[p] = "complete"
    /\ Replace(p, task[p], Completed(task[p], copy[p]))
    /\ Goto(p, "batch")
    /\ task' = [task EXCEPT ![p] = NoTask]
    /\ copy' = [copy EXCEPT ![p] = NoRow]
    /\ UNCHANGED <<todo, command, starts, race, faults>>

EndBatch(p) ==
    /\ pc[p] = "batch" /\ todo[p] = {}
    /\ Retire({p})
    /\ UNCHANGED <<row, history>>

\* Variant: the loop goes on where it was, without a task.
PollErrorInPlace(p) ==
    /\ faults < MaxFaults
    /\ pc[p] \in {"batch", "record", "complete"}
    /\ todo' = [todo EXCEPT ![p] = {}]
    /\ task' = [task EXCEPT ![p] = NoTask]
    /\ faults' = faults + 1
    /\ UNCHANGED <<row, pc, copy, command, starts, foreign, race>>

\* An exception outside system.ask (a subscriber of the bus, a locked
\* database): the poll loop logs it and forgets the rest of its list.
PollError(p) ==
    /\ faults < MaxFaults
    /\ pc[p] \in {"batch", "record", "complete"}
    /\ Retire({p})
    /\ Races({t \in {task[p]} : Busy(p)})
    /\ foreign' = [foreign EXCEPT ![p] = FALSE]
    /\ faults' = faults + 1
    /\ UNCHANGED <<row, starts>>

-----------------------------------------------------------------------------
(* Commands.                                                               *)

\* Random ids no row has yet.
FreeIds == {t \in Tasks \ OperatorTasks : row[t].status = "none"}

\* Bound: nobody begins to create a task when the ids of the model are used up.
IdsLeft == Cardinality({c \in Clients : pc[c] = "create"}) < Cardinality(FreeIds)

\* create_task.
CreateTask(c) ==
    /\ pc[c] = "idle" /\ LockFree(c) /\ IdsLeft
    /\ \E t \in FreeIds : Replace(c, t, NewRow(t, NoTask))
    /\ UNCHANGED <<local, starts, race, faults>>

\* pause_task, resume_task, cancel_task: get_task ...
ReadRow(c) ==
    /\ pc[c] = "idle" /\ LockFree(c)
    /\ \E t \in Tasks, how \in {"pause", "resume", "cancel"} :
         /\ row[t].status # "none"
         /\ task' = [task EXCEPT ![c] = t]
         /\ copy' = [copy EXCEPT ![c] = row[t]]
         /\ command' = [command EXCEPT ![c] = how]
    /\ Goto(c, "command")
    /\ UNCHANGED <<row, todo, history>>

Commanded(t, r, how) ==
    CASE how = "pause" -> [r EXCEPT !.status = "paused"]
      [] how = "resume" -> [r EXCEPT !.status = "active", !.next = NextRun(t, r.ran)]
      [] how = "cancel" -> [r EXCEPT !.status = "cancelled", !.next = "none"]

\* ... and update_task.
WriteRow(c) ==
    /\ pc[c] = "command"
    /\ Replace(c, task[c], Commanded(task[c], copy[c], command[c]))
    /\ Races({t \in {task[c]} : foreign[c]})
    /\ Retire({c})
    /\ UNCHANGED <<starts, faults>>

\* `scheduler run-task`, a process of its own: an active task is executed now, and
\* only the log is written.
RunTask(c) ==
    /\ pc[c] = "idle"
    /\ \A y \in Actors \ {c} : ProcessOf[y] # ProcessOf[c]
    /\ \E t \in Tasks :
         /\ row[t].status = "active"
         /\ Execute(t)
         /\ Races({t})
    /\ UNCHANGED <<row, local, foreign, faults>>

-----------------------------------------------------------------------------
(* OperatorManager.activate.  (deactivate, pause and resume are commands    *)
(* for the operator's task.)                                               *)

\* list_tasks: the operator's task is not active.
Activate(c) ==
    /\ pc[c] = "idle" /\ LockFree(c) /\ IdsLeft
    /\ \E t \in OperatorTasks :
         /\ row[t].status # "active"
         /\ task' = [task EXCEPT ![c] = t]
    /\ Goto(c, "create")
    /\ UNCHANGED <<row, todo, copy, command, history>>

\* create_task, which chooses an id of its own.
ActivateCreate(c) ==
    /\ pc[c] = "create" /\ LockFree(c)
    /\ \E t \in FreeIds : Replace(c, t, NewRow(t, task[c]))
    /\ Goto(c, "save")
    /\ UNCHANGED <<todo, task, copy, command, starts, race, faults>>

\* save_task under the operator's id, past the scheduler's lock.
ActivateSave(c) ==
    /\ pc[c] = "save"
    /\ row' = [row EXCEPT ![task[c]] = NewRow(task[c], task[c])]
    /\ foreign' = [y \in Actors |->
                     y # c /\ (foreign[y] \/ (Writing(y) /\ task[y] = task[c]))]
    /\ starts' = [starts EXCEPT ![task[c]] = 0]
    /\ Retire({c})
    /\ UNCHANGED <<race, faults>>

-----------------------------------------------------------------------------

\* The time of the next run comes.
TimePasses(t) ==
    /\ row[t].next = "later"
    /\ row' = [row EXCEPT ![t].next = "due"]
    /\ UNCHANGED <<local, history>>

\* The process of x dies.  (Its poll loop, started again, is idle.)
Dies(x) ==
    LET X == {y \in Actors : ProcessOf[y] = ProcessOf[x]}
    IN  /\ faults < MaxFaults
        /\ \E y \in X : pc[y] # "idle"
        /\ Retire(X)
        /\ Races({t \in Tasks : \E p \in X \cap Pollers : Busy(p) /\ task[p] = t})
        /\ foreign' = [y \in Actors |-> y \notin X /\ foreign[y]]
        /\ faults' = faults + 1
        /\ UNCHANGED <<row, starts>>

Step(p) == Start(p) \/ AskReturns(p) \/ Complete(p) \/ EndBatch(p)

Next ==
    \/ \E p \in Pollers : Poll(p) \/ Step(p) \/ ReadBack(p) \/ PollError(p)
    \/ \E c \in Clients :
         \/ CreateTask(c) \/ ReadRow(c) \/ WriteRow(c) \/ RunTask(c)
         \/ Activate(c) \/ ActivateCreate(c) \/ ActivateSave(c)
    \/ \E x \in Actors : Dies(x)
    \/ \E t \in Tasks : TimePasses(t)

Spec == Init /\ [][Next]_vars

\* Threads get scheduled, and get the lock some time when it is free again and
\* again; system.ask comes back.  Nobody need issue commands, but a command
\* that was begun is finished (else it holds the lock for ever).
Fairness ==
    /\ \A p \in Pollers : WF_vars(Step(p)) /\ SF_vars(Poll(p)) /\ SF_vars(ReadBack(p))
    /\ \A c \in Clients : WF_vars(WriteRow(c))

FairSpec == Spec /\ Fairness

=============================================================================
