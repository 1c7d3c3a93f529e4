------------------------- MODULE TaskSchedulerProps -------------------------
(***************************************************************************)
(* What is claimed of TaskScheduler, and a statement of the code that the  *)
(* runs in MCTaskScheduler refute.                                         *)
(***************************************************************************)
EXTENDS TaskScheduler

ProgramCounters == {"idle", "batch", "ask", "record", "complete",
                    "command", "create", "save"}

\* The variables stay in their types; an actor that is about to execute or
\* write a task has one.
TypeOK ==
    /\ row \in [Tasks -> Rows]
    /\ pc \in [Actors -> ProgramCounters]
    /\ todo \in [Actors -> SUBSET Tasks]
    /\ task \in [Actors -> Tasks \cup {NoTask}]
    /\ copy \in [Actors -> Rows]
    /\ command \in [Actors -> {"none", "pause", "resume", "cancel"}]
    /\ starts \in [Tasks -> 0..2]
    /\ foreign \in [Actors -> BOOLEAN]
    /\ race \in [Tasks -> BOOLEAN]
    /\ faults \in 0..MaxFaults
    /\ \A x \in Actors : task[x] \in Tasks <=> pc[x] \notin {"idle", "batch"}
    /\ \A c \in Clients : pc[c] = "command" <=> command[c] # "none"
    /\ \A c \in Clients : pc[c] \in {"create", "save"} => task[c] \in OperatorTasks

\* A one-time task is executed a second time only after a race: a command written
\* from a copy that another process had made stale, two poll loops with the task in
\* hand, a completion lost to an exception or a death, or `run-task`.
OnceTwiceNeedsRace ==
    \A t \in Tasks : Kind[t] = "once" /\ starts[t] > 1 => race[t]

\* Rows apart from the passing of time.
Same(r, s) ==
    r.status = s.status /\ r.ran = s.ran /\ r.owner = s.owner /\ (r.next = "none" <=> s.next = "none")

\* The lock of a TaskScheduler does its work: the row somebody is about to
\* write back is the one in the table, unless a process that does not share the
\* lock (or activate, which goes past it) has written it meanwhile.
CopyIsCurrent ==
    \A x \in Actors : Writing(x) /\ ~foreign[x] => Same(copy[x], row[task[x]])

\* What the user paused or cancelled becomes active again only by a resume or
\* the activation of its operator, or by a write from a stale copy: the
\* completion of a run under way does not undo a command.
CommandsStand ==
    [][\A t \in Tasks :
         /\ row[t].status \in {"paused", "cancelled"}
         /\ row'[t].status = "active"
         => \E x \in Actors :
              /\ task[x] = t
              /\ \/ pc[x] = "command" /\ command[x] = "resume"
                 \/ pc[x] = "save"
                 \/ foreign[x]]_vars

\* A due task is executed (its next run is set), paused, or cancelled, whatever
\* commands come in meanwhile and whatever fails finitely often.
DueGetsExecuted ==
    \A t \in Tasks :
        row[t].status = "active" /\ row[t].next = "due"
            ~> ~(row[t].status = "active" /\ row[t].next = "due")

-----------------------------------------------------------------------------
(* Refuted.                                                                *)

\* activate returns "the scheduler task ID" (operators/manager.py:62) after "Override
\* the random ID with our deterministic one" (107): an operator has one task.
OneTaskPerOperator ==
    \A o \in OperatorTasks :
        Cardinality({t \in Tasks : row[t].owner = o /\ row[t].status = "active"}) <= 1

=============================================================================
