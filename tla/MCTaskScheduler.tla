-------------------------- MODULE MCTaskScheduler ---------------------------
(* Small instances of TaskScheduler for TLC.                               *)
EXTENDS TaskSchedulerProps

CONSTANTS t1, t2, op, p1, p2, c1, c2

\* t1 runs once, the others again and again.
OnceFirst == [t \in Tasks |-> IF t = t1 THEN "once" ELSE "recurring"]
\* The first poller and the first client share a process.
Shared == [x \in Actors |-> IF x \in {p1, c1} THEN "server" ELSE x]

=============================================================================
