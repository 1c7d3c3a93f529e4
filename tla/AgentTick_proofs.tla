-------------------------- MODULE AgentTick_proofs --------------------------
(***************************************************************************)
(* Proofs about AgentTick for every value of its constants.                *)
(***************************************************************************)
EXTENDS AgentTickProps, TLAPS

USE ConstantsAssumption

\* What the scheduler found stalled: one entry per agent, and while it counts
\* a release, the entry it works on is below the limit.
StallInv ==
    /\ \A s, t \in stalled : s[1] = t[1] => s = t
    /\ \A s \in stalled : pc[Scheduler] = "stall.count" /\ s[1] = at[Scheduler]
                            => s[2] < MaxStallRetries

TypeInv == TypeOK /\ StallInv

-----------------------------------------------------------------------------
\* Local variables keep their types when workers retire.
LEMMA RetireType ==
    ASSUME TypeInv, NEW W \in SUBSET Workers, Retire(W)
    PROVE  /\ pc' \in [Workers -> ProgramCounters]
           /\ at' \in [Workers -> Agents \cup {NoAgent}]
           /\ tries' \in [Workers -> 0..(MaxRetries - 1)]
           /\ todo' \in [Workers -> SUBSET Messages]
           /\ took' \in [Workers -> SUBSET Messages]
           /\ verdict' \in [Workers -> {"none", "ok", "error", "needs_attention"}]
           /\ \A w \in Workers : pc'[w] \notin {"idle", "reconcile"} => at'[w] \in Agents
           /\ \A w \in Workers : pc'[w] = "flag" => verdict'[w] \in Status
           /\ \A w \in Workers : pc'[w] = "release" => verdict'[w] # "none"
           /\ \A w \in Workers : pc'[w] # "idle" => pc'[w] = pc[w] /\ at'[w] = at[w]
  BY DEF TypeInv, TypeOK, Retire, ProgramCounters

\* The row keeps its type when its status is overwritten.
LEMMA OverwriteType ==
    ASSUME TypeInv, NEW A, NEW s \in Status, Overwrite(A, s)
    PROVE  status' \in [Agents -> Status] /\ lost' \in [Agents -> BOOLEAN]
  BY DEF TypeInv, TypeOK, Overwrite

LEMMA InitType == Init => TypeInv
  BY DEF Init, TypeInv, TypeOK, StallInv, Status, ProgramCounters, SpentBound

\* What most steps keep: the fields they do not touch.
LEMMA StepType ==
    ASSUME TypeInv, NEW w \in Workers, Step(w)
    PROVE  TypeInv'
  <1> USE DEF TypeInv, TypeOK, Goto, row, letters, worker, server
  <1>s. Scheduler \in Workers
    BY DEF Workers, ServerWorkers
  <1>p. \A v \in Workers : pc[v] \notin {"idle", "reconcile"} => at[v] \in Agents
    OBVIOUS
  <1>1. CASE Unflag(w)
    <2>1. status' \in [Agents -> Status] /\ lost' \in [Agents -> BOOLEAN]
      BY <1>1, OverwriteType DEF Unflag, Status
    <2> QED
      BY <1>1, <1>s, <2>1 DEF Unflag, StallInv, ProgramCounters, OnEventLoop
  <1>2. CASE StoreMessage(w)
    BY <1>2, <1>s DEF StoreMessage, StallInv, ProgramCounters, OnEventLoop
  <1>3. CASE CliBuild(w)
    <2>1. status' \in [Agents -> Status] /\ lost' \in [Agents -> BOOLEAN]
      BY <1>3, OverwriteType DEF CliBuild, Sweep, Status
    <2> QED
      BY <1>3, <1>s, <2>1 DEF CliBuild, StallInv, ProgramCounters
  <1>4. CASE StartTick(w)
    <2>1. status' \in [Agents -> Status] /\ lost' \in [Agents -> BOOLEAN]
      BY <1>4 DEF StartTick, Status
    <2> QED
      BY <1>4, <1>s, <2>1 DEF StartTick, StallInv, ProgramCounters, InTick, OnEventLoop
  <1>5. CASE StartTickRefused(w)
    BY <1>5, <1>s, RetireType DEF StartTickRefused, StallInv
  <1>6. CASE Enter(w)
    BY <1>6, <1>s DEF Enter, StallInv, ProgramCounters, InTick
  <1>17. CASE Prepare(w)
    BY <1>17, <1>s DEF Prepare, StallInv, ProgramCounters, InTick
  <1>7. CASE TakeMessages(w)
    BY <1>7, <1>s DEF TakeMessages, StallInv, ProgramCounters, InTick
  <1>8. CASE MarkDelivered(w)
    BY <1>8, <1>s DEF MarkDelivered, StallInv
  <1>9. CASE CallAgent(w)
    <2>1. served' \in [Messages -> 0..2]
      BY <1>9 DEF CallAgent, AtMost
    <2>2. activity' \in [Agents -> {"none", "fresh", "old"}]
      BY <1>9 DEF CallAgent
    <2> QED
      BY <1>9, <1>s, <2>1, <2>2 DEF CallAgent, StallInv, ProgramCounters, InTick
  <1>10. CASE EndTick(w)
    <2>1. status' \in [Agents -> Status]
      BY <1>10 DEF EndTick, Status
    <2>2. verdict[w] \in {"ok", "error", "needs_attention"}
      BY <1>10 DEF EndTick
    <2> QED
      BY <1>10, <1>s, <2>1, <2>2 DEF EndTick, StallInv, ProgramCounters, Status
  <1>11. CASE Flag(w)
    <2>1. status' \in [Agents -> Status] /\ lost' \in [Agents -> BOOLEAN]
      BY <1>11, OverwriteType DEF Flag
    <2> QED
      BY <1>11, <1>s, <2>1, RetireType DEF Flag, StallInv
  <1>12. CASE Spend(w)
    <2>1. \A n \in Nat : AtMost(n, SpentBound) \in 0..SpentBound
      BY DEF AtMost, SpentBound
    <2>2. spent' \in [Agents -> 0..SpentBound]
      BY <1>12, <2>1 DEF Spend
    <2> QED
      BY <1>12, <1>s, <2>2 DEF Spend, StallInv, ProgramCounters
  <1>13. CASE Answer(w)
    BY <1>13, <1>s DEF Answer, StallInv, ProgramCounters
  <1>14. CASE CheckBudget(w)
    <2>1. CASE OverBudget(at[w])
      BY <1>14, <1>s, <2>1 DEF CheckBudget, StallInv, ProgramCounters
    <2>2. CASE ~OverBudget(at[w])
      BY <1>14, <1>s, <2>2, RetireType DEF CheckBudget, StallInv
    <2> QED
      BY <2>1, <2>2
  <1>15. CASE Exceed(w)
    <2>1. status' \in [Agents -> Status] /\ lost' \in [Agents -> BOOLEAN]
      BY <1>15, OverwriteType DEF Exceed, Status
    <2> QED
      BY <1>15, <1>s, <2>1, RetireType DEF Exceed, StallInv
  <1>16. CASE Abort(w)
    <2>1. status' \in [Agents -> Status] /\ lost' \in [Agents -> BOOLEAN]
      BY <1>16 DEF Abort, Status
    <2> QED
      BY <1>16, <1>s, <2>1 DEF Abort, StallInv, ProgramCounters, InTick, Status
  <1> QED
    BY <1>1, <1>2, <1>3, <1>4, <1>5, <1>6, <1>7, <1>8, <1>9, <1>10, <1>11,
       <1>12, <1>13, <1>14, <1>15, <1>16, <1>17 DEF Step

\* The type invariant across the steps of a tick that are not calls of its own.
LEMMA OtherWorkerType ==
    ASSUME TypeInv, NEW w \in Workers,
           \/ AgentEnds(w) \/ AttemptFailsEarly(w) \/ Raises(w) \/ CliDies(w)
           \/ \E a \in Agents : RunRoute(w, a) \/ CliOpen(w, a)
           \/ \E m \in Messages : MessageRoute(w, m)
    PROVE  TypeInv'
  <1> USE DEF TypeInv, TypeOK, Goto, row, letters, worker, server
  <1>s. Scheduler \in Workers
    BY DEF Workers, ServerWorkers
  <1>f. ASSUME NEW outcome \in Outcomes, pc[w] \in {"run", "attempt"}, Fail(w, outcome)
        PROVE  TypeInv'
    <2>1. CASE outcome = "retryable" /\ tries[w] + 1 < MaxRetries
      BY <1>f, <1>s, <2>1 DEF Fail, StallInv, ProgramCounters, InTick
    <2>2. CASE ~(outcome = "retryable" /\ tries[w] + 1 < MaxRetries)
      BY <1>f, <1>s, <2>2 DEF Fail, StallInv, ProgramCounters, InTick, Outcomes
    <2> QED
      BY <2>1, <2>2
  <1>1. CASE AgentReturns(w)
    BY <1>1, <1>s DEF AgentReturns, StallInv, ProgramCounters, InTick
  <1>2. CASE AgentRaises(w)
    BY <1>2, <1>f DEF AgentRaises
  <1>3. CASE AttemptFailsEarly(w)
    BY <1>3, <1>f DEF AttemptFailsEarly
  <1>4. CASE Raises(w)
    <2>1. CASE w \in HttpThreads
      BY <1>4, <1>s, <2>1 DEF Raises, StallInv, ProgramCounters, InTick
    <2>2. CASE w \notin HttpThreads
      BY <1>4, <1>s, <2>2, RetireType DEF Raises, Strand, StallInv
    <2> QED
      BY <2>1, <2>2
  <1>5. CASE CliDies(w)
    BY <1>5, <1>s, RetireType DEF CliDies, Strand, StallInv
  <1>6. ASSUME NEW a \in Agents, RunRoute(w, a)
        PROVE  TypeInv'
    BY <1>6, <1>s DEF RunRoute, StallInv, ProgramCounters, OnEventLoop
  <1>7. ASSUME NEW a \in Agents, CliOpen(w, a)
        PROVE  TypeInv'
    <2>1. status' \in [Agents -> Status] /\ lost' \in [Agents -> BOOLEAN]
      BY <1>7, OverwriteType DEF CliOpen, Sweep, Status
    <2> QED
      BY <1>7, <1>s, <2>1 DEF CliOpen, StallInv, ProgramCounters
  <1>8. ASSUME NEW m \in Messages, MessageRoute(w, m)
        PROVE  TypeInv'
    BY <1>8, <1>s DEF MessageRoute, StallInv, ProgramCounters, OnEventLoop
  <1> QED
    BY <1>1, <1>2, <1>3, <1>4, <1>5, <1>6, <1>7, <1>8 DEF AgentEnds

\* ... and across everything else that can happen.
LEMMA EnvironmentType ==
    ASSUME TypeInv,
           \/ \E a \in Agents :
                \/ SchedulerCheck(a) \/ TimeoutElapses(a)
                \/ Pause(a) \/ Resume(a) \/ Recover(a) \/ Delete(a)
           \/ \E m \in Messages : QueueMessage(m)
           \/ Stalls \/ CliCommand \/ Crash \/ Restart
    PROVE  TypeInv'
  <1> USE DEF TypeInv, TypeOK, Goto, row, letters, worker, server
  <1>s. Scheduler \in Workers /\ ServerWorkers \in SUBSET Workers
    BY DEF Workers, ServerWorkers
  <1>1. ASSUME NEW a \in Agents, SchedulerCheck(a)
        PROVE  TypeInv'
    BY <1>1, <1>s DEF SchedulerCheck, StallInv, ProgramCounters
  <1>2. ASSUME NEW a \in Agents, TimeoutElapses(a)
        PROVE  TypeInv'
    BY <1>2, <1>s DEF TimeoutElapses, StallInv
  <1>3. ASSUME NEW a \in Agents, NEW s \in {"paused", "idle", "archived"},
               OperatorWrites(a, s)
        PROVE  TypeInv'
    <2>1. status' \in [Agents -> Status] /\ lost' \in [Agents -> BOOLEAN]
      BY <1>3, OverwriteType DEF OperatorWrites, Status
    <2> QED
      BY <1>3, <1>s, <2>1 DEF OperatorWrites, StallInv
  <1>4. ASSUME NEW m \in Messages, QueueMessage(m)
        PROVE  TypeInv'
    BY <1>4, <1>s DEF QueueMessage, StallInv
  <1>5. CASE Reconcile
    <2>1. stalled' \in SUBSET (Agents \X (0..MaxStallRetries))
      BY <1>5 DEF Reconcile, StalledNow
    <2>2. \A s, t \in stalled' : s[1] = t[1] => s = t
      BY <1>5 DEF Reconcile, StalledNow
    <2> QED
      BY <1>5, <1>s, <2>1, <2>2 DEF Reconcile, StallInv, ProgramCounters
  <1>6. CASE StallExhausted
    <2>1. PICK s \in stalled : /\ Overwrite({s[1]}, "error")
                               /\ stalled' = stalled \ {s}
                               /\ NextStalled(stalled \ {s})
      BY <1>6 DEF StallExhausted
    <2>2. status' \in [Agents -> Status] /\ lost' \in [Agents -> BOOLEAN]
      BY <2>1, OverwriteType DEF Status
    <2> QED
      BY <1>6, <1>s, <2>1, <2>2
      DEF StallExhausted, NextStalled, StallInv, ProgramCounters
  <1>7. CASE StallRelease
    <2>1. PICK s \in stalled : /\ s[2] < MaxStallRetries
                               /\ Overwrite({s[1]}, "idle")
                               /\ at' = [at EXCEPT ![Scheduler] = s[1]]
      BY <1>7 DEF StallRelease
    <2>2. status' \in [Agents -> Status] /\ lost' \in [Agents -> BOOLEAN]
      BY <2>1, OverwriteType DEF Status
    <2>3. s[1] \in Agents
      BY <2>1
    <2> QED
      BY <1>7, <1>s, <2>1, <2>2, <2>3 DEF StallRelease, StallInv, ProgramCounters
  <1>8. CASE StallCount
    <2>1. PICK s \in stalled :
             /\ s[1] = at[Scheduler]
             /\ stallRetries' = [stallRetries EXCEPT ![s[1]] = s[2] + 1]
             /\ stalled' = stalled \ {s}
             /\ NextStalled(stalled \ {s})
      BY <1>8 DEF StallCount
    <2>2. s[1] \in Agents /\ s[2] \in 0..MaxStallRetries /\ s[2] < MaxStallRetries
      BY <1>8, <2>1 DEF StallCount, StallInv
    <2>3. stallRetries' \in [Agents -> 0..MaxStallRetries]
      BY <2>1, <2>2
    <2> QED
      BY <1>8, <1>s, <2>1, <2>3
      DEF StallCount, NextStalled, StallInv, ProgramCounters
  <1>9. CASE CliCommand
    <2>1. status' \in [Agents -> Status] /\ lost' \in [Agents -> BOOLEAN]
      BY <1>9, OverwriteType DEF CliCommand, Sweep, Status
    <2> QED
      BY <1>9, <1>s, <2>1 DEF CliCommand, StallInv
  <1>10. CASE Crash
    BY <1>10, <1>s, RetireType DEF Crash, StallInv
  <1>11. CASE Restart
    <2>1. status' \in [Agents -> Status] /\ lost' \in [Agents -> BOOLEAN]
      BY <1>11, OverwriteType DEF Restart, Sweep, Status
    <2>2. registered' \in SUBSET Agents
      BY <1>11, ConstantsAssumption DEF Restart, Registrable
    <2> QED
      BY <1>11, <1>s, <2>1, <2>2 DEF Restart, StallInv
  <1> QED
    BY <1>1, <1>2, <1>3, <1>4, <1>5, <1>6, <1>7, <1>8, <1>9, <1>10, <1>11
    DEF Stalls, Pause, Resume, Recover, Delete

LEMMA NextType == TypeInv /\ [Next]_vars => TypeInv'
  <1>1. ASSUME TypeInv, UNCHANGED vars
        PROVE  TypeInv'
    BY <1>1 DEF TypeInv, TypeOK, StallInv, vars, row, letters, worker, server
  <1> QED
    BY <1>1, StepType, OtherWorkerType, EnvironmentType DEF Next

LEMMA TypeInvariant == Spec => []TypeInv
  BY InitType, NextType, PTL DEF Spec

\* Every variable stays in its type, a worker with work to do serves an agent,
\* and a stalled agent is released at most max_stall_retries times in a row.
THEOREM TypeCorrect == Spec => []TypeOK
  <1>1. TypeInv => TypeOK
    BY DEF TypeInv
  <1> QED
    BY <1>1, TypeInvariant, PTL

-----------------------------------------------------------------------------
(* The shape of a step, as far as the guard is concerned.                  *)

SameHolders == \A a \in Agents : Holders(a)' = Holders(a)

Keeps ==
    /\ SameHolders
    /\ status' = status /\ lost' = lost /\ up' = up /\ stranded' = stranded

Acquires(w, a) ==
    /\ status[a] # "running"
    /\ w \notin Holders(a)
    /\ \A b \in Agents : Holders(b)' = IF b = a THEN Holders(b) \cup {w} ELSE Holders(b)
    /\ status' = [status EXCEPT ![a] = "running"]
    /\ lost' = [lost EXCEPT ![a] = @ /\ Holders(a) # {}]
    /\ up' = up
    /\ stranded' = stranded \ {a}

Ends(w, a) ==
    /\ w \in Holders(a)
    /\ \A b \in Agents : Holders(b)' = IF b = a THEN Holders(b) \ {w} ELSE Holders(b)
    /\ status' = [status EXCEPT ![a] = "idle"]
    /\ lost' = lost
    /\ up' = up /\ stranded' = stranded

Overwrites(A, s) ==
    /\ s \in Status \ {"running"}
    /\ Overwrite(A, s)
    /\ SameHolders
    /\ up' = up \/ A = {a \in Agents : status[a] = "running"}
    /\ stranded' = stranded

Vanish(W) ==
    /\ \A a \in Agents : Holders(a)' = Holders(a) \ W
    /\ status' = status /\ lost' = lost
    /\ \/ ~up'
       \/ /\ up' = up
          /\ stranded' = stranded \cup {a \in Agents : Holders(a) \cap W # {}}

Shape ==
    \/ Keeps
    \/ \E w \in Workers, a \in Agents : Acquires(w, a) \/ Ends(w, a)
    \/ \E A \in SUBSET Agents, s \in Status : Overwrites(A, s)
    \/ \E W \in SUBSET Workers : Vanish(W)

\* Retiring workers are no holders any more.
LEMMA RetireHolders ==
    ASSUME TypeInv, NEW W \in SUBSET Workers, Retire(W)
    PROVE  \A a \in Agents : Holders(a)' = Holders(a) \ W
  BY DEF TypeInv, TypeOK, Retire, Holders, InTick

\* A worker that is gone for good is a holder no more, and its tick is stranded.
LEMMA StrandVanishes ==
    ASSUME TypeInv, NEW w \in Workers, Strand(w), status' = status, lost' = lost, up' = up
    PROVE  Vanish({w})
  <1>1. \A a \in Agents : Holders(a)' = Holders(a) \ {w}
    BY RetireHolders DEF Strand
  <1>2. \A a \in Agents : w \in Holders(a) <=> Holders(a) \cap {w} # {}
    OBVIOUS
  <1>3. stranded' = stranded \cup {a \in Agents : Holders(a) \cap {w} # {}}
    BY <1>2 DEF Strand
  <1> QED
    BY <1>1, <1>3 DEF Vanish

\* A worker outside of any tick that retires changes no holders.
LEMMA RetireOutside ==
    ASSUME TypeInv, NEW w \in Workers, pc[w] \notin InTick, Retire({w})
    PROVE  SameHolders
  <1>1. \A a \in Agents : w \notin Holders(a)
    BY DEF Holders
  <1>2. {w} \in SUBSET Workers
    OBVIOUS
  <1> QED
    BY <1>1, <1>2, RetireHolders DEF SameHolders

\* Moving inside a tick, or outside of one, changes no holders.
LEMMA GotoSameHolders ==
    ASSUME TypeInv, NEW w \in Workers, NEW label \in ProgramCounters, Goto(w, label),
           pc[w] \in InTick <=> label \in InTick,
           \/ at' = at
           \/ pc[w] \notin InTick /\ \E b : at' = [at EXCEPT ![w] = b]
    PROVE  SameHolders
  BY DEF TypeInv, TypeOK, Goto, Holders, SameHolders

LEMMA StepShape ==
    ASSUME TypeInv, NEW w \in Workers, Step(w)
    PROVE  Shape
  <1> USE DEF row, letters, worker, server
  <1>p. pc[w] \notin {"idle", "reconcile"} => at[w] \in Agents
    BY DEF TypeInv, TypeOK
  <1>l. InTick \cup OnEventLoop \cup {"idle", "claim", "flag", "spend", "answer",
              "budget", "exceed", "abort", "cli.build"} \subseteq ProgramCounters
    BY DEF ProgramCounters
  <1>1. CASE Unflag(w)
    <2>1. SameHolders
      BY <1>1, <1>l, GotoSameHolders DEF Unflag, InTick, OnEventLoop
    <2> QED
      BY <1>1, <1>p, <2>1 DEF Unflag, Shape, Overwrites, Status
  <1>2. CASE StoreMessage(w)
    <2>1. SameHolders
      BY <1>2, <1>l, GotoSameHolders DEF StoreMessage, InTick
    <2> QED
      BY <1>2, <2>1 DEF StoreMessage, Shape, Keeps
  <1>3. CASE CliBuild(w)
    <2>1. SameHolders
      BY <1>3, <1>l, GotoSameHolders DEF CliBuild, InTick
    <2> QED
      BY <1>3, <2>1 DEF CliBuild, Sweep, Shape, Overwrites, Status
  <1>4. CASE StartTick(w)
    <2>1. at[w] \in Agents /\ pc[w] \notin InTick
      BY <1>4, <1>p DEF StartTick, InTick
    <2>2. pc'[w] \in InTick /\ at' = at /\ \A v \in Workers : v # w => pc'[v] = pc[v]
      BY <1>4 DEF StartTick, Goto, InTick, TypeInv, TypeOK
    <2>3. \A b \in Agents : Holders(b)' =
            IF b = at[w] THEN Holders(b) \cup {w} ELSE Holders(b)
      BY <2>1, <2>2 DEF Holders
    <2>4. w \notin Holders(at[w])
      BY <2>1 DEF Holders
    <2> QED
      BY <1>4, <2>1, <2>3, <2>4 DEF StartTick, Shape, Acquires
  <1>5. CASE StartTickRefused(w)
    <2>1. SameHolders
      BY <1>5, RetireOutside DEF StartTickRefused, InTick
    <2> QED
      BY <1>5, <2>1 DEF StartTickRefused, Shape, Keeps
  <1>6. CASE Enter(w)
    <2>1. SameHolders
      BY <1>6, <1>l, GotoSameHolders DEF Enter, InTick
    <2> QED
      BY <1>6, <2>1 DEF Enter, Shape, Keeps
  <1>17. CASE Prepare(w)
    <2>1. SameHolders
      BY <1>17, <1>l, GotoSameHolders DEF Prepare, InTick
    <2> QED
      BY <1>17, <2>1 DEF Prepare, Shape, Keeps
  <1>7. CASE TakeMessages(w)
    <2>1. SameHolders
      BY <1>7, <1>l, GotoSameHolders DEF TakeMessages, InTick
    <2> QED
      BY <1>7, <2>1 DEF TakeMessages, Shape, Keeps
  <1>8. CASE MarkDelivered(w)
    BY <1>8 DEF MarkDelivered, Shape, Keeps, SameHolders, Holders
  <1>9. CASE CallAgent(w)
    <2>1. SameHolders
      BY <1>9, <1>l, GotoSameHolders DEF CallAgent, InTick
    <2> QED
      BY <1>9, <2>1 DEF CallAgent, Shape, Keeps
  <1>10. CASE EndTick(w)
    <2>1. at[w] \in Agents /\ w \in Holders(at[w])
      BY <1>10, <1>p DEF EndTick, InTick, Holders
    <2>2. pc'[w] \notin InTick /\ at' = at /\ \A v \in Workers : v # w => pc'[v] = pc[v]
      BY <1>10 DEF EndTick, Goto, InTick, TypeInv, TypeOK
    <2>3. \A b \in Agents : Holders(b)' =
            IF b = at[w] THEN Holders(b) \ {w} ELSE Holders(b)
      BY <2>1, <2>2 DEF Holders
    <2> QED
      BY <1>10, <2>1, <2>3 DEF EndTick, Shape, Ends
  <1>11. CASE Flag(w)
    <2>1. SameHolders
      BY <1>11, RetireOutside DEF Flag, InTick
    <2>2. verdict[w] \in Status \ {"running"}
      BY <1>11 DEF Flag, TypeInv, TypeOK
    <2> QED
      BY <1>11, <1>p, <2>1, <2>2 DEF Flag, Shape, Overwrites
  <1>12. CASE Spend(w)
    <2>1. SameHolders
      BY <1>12, <1>l, GotoSameHolders DEF Spend, InTick
    <2> QED
      BY <1>12, <2>1 DEF Spend, Shape, Keeps
  <1>13. CASE Answer(w)
    <2>1. SameHolders
      BY <1>13, <1>l, GotoSameHolders DEF Answer, InTick
    <2> QED
      BY <1>13, <2>1 DEF Answer, Shape, Keeps
  <1>14. CASE CheckBudget(w)
    <2>1. SameHolders
      <3>1. CASE OverBudget(at[w])
        BY <1>14, <1>l, <3>1, GotoSameHolders DEF CheckBudget, InTick
      <3>2. CASE ~OverBudget(at[w])
        BY <1>14, <3>2, RetireOutside DEF CheckBudget, InTick
      <3> QED
        BY <3>1, <3>2
    <2> QED
      BY <1>14, <2>1 DEF CheckBudget, Shape, Keeps
  <1>15. CASE Exceed(w)
    <2>1. SameHolders
      BY <1>15, RetireOutside DEF Exceed, InTick
    <2> QED
      BY <1>15, <1>p, <2>1 DEF Exceed, Shape, Overwrites, Status
  <1>16. CASE Abort(w)
    <2>1. at[w] \in Agents
      BY <1>16, <1>p DEF Abort
    <2>2. pc'[w] = "flag" /\ at' = at /\ \A v \in Workers : v # w => pc'[v] = pc[v]
      BY <1>16 DEF Abort, Goto, TypeInv, TypeOK
    <2>3. CASE pc[w] = "abort"
      <3>1. SameHolders
        BY <1>16, <1>l, <2>3, GotoSameHolders DEF Abort, InTick
      <3>2. Overwrite({at[w]}, "idle")
        BY <1>16, <2>1, <2>3 DEF Abort, Overwrite, TypeInv, TypeOK
      <3> QED
        BY <1>16, <2>1, <3>1, <3>2 DEF Abort, Shape, Overwrites, Status
    <2>4. CASE pc[w] = "abort.held"
      <3>1. w \in Holders(at[w])
        BY <2>4 DEF Holders, InTick
      <3>2. \A b \in Agents : Holders(b)' =
              IF b = at[w] THEN Holders(b) \ {w} ELSE Holders(b)
        BY <2>1, <2>2 DEF Holders, InTick
      <3>3. lost' = lost
        BY <1>16, <2>4 DEF Abort, TypeInv, TypeOK
      <3> QED
        BY <1>16, <2>1, <3>1, <3>2, <3>3 DEF Abort, Shape, Ends
    <2> QED
      BY <1>16, <2>3, <2>4 DEF Abort
  <1> QED
    BY <1>1, <1>2, <1>3, <1>4, <1>5, <1>6, <1>7, <1>8, <1>9, <1>10, <1>11,
       <1>12, <1>13, <1>14, <1>15, <1>16, <1>17 DEF Step

LEMMA OtherWorkerShape ==
    ASSUME TypeInv, NEW w \in Workers,
           \/ AgentEnds(w) \/ AttemptFailsEarly(w) \/ Raises(w) \/ CliDies(w)
           \/ \E a \in Agents : RunRoute(w, a) \/ CliOpen(w, a)
           \/ \E m \in Messages : MessageRoute(w, m)
    PROVE  Shape
  <1> USE DEF row, letters, worker, server
  <1>l. InTick \cup OnEventLoop \cup {"abort", "cli.build"} \subseteq ProgramCounters
    BY DEF ProgramCounters
  <1>f. ASSUME NEW outcome \in Outcomes, pc[w] \in {"run", "attempt"}, Fail(w, outcome)
        PROVE  Shape
    <2>1. PICK label \in {"attempt", "release"} : Goto(w, label)
      BY <1>f DEF Fail
    <2>2. at' = at
      BY <1>f DEF Fail
    <2>3. SameHolders
      BY <1>f, <1>l, <2>1, <2>2, GotoSameHolders DEF InTick
    <2> QED
      BY <1>f, <2>3 DEF Fail, Shape, Keeps
  <1>1. CASE AgentReturns(w)
    <2>1. SameHolders
      BY <1>1, <1>l, GotoSameHolders DEF AgentReturns, InTick
    <2> QED
      BY <1>1, <2>1 DEF AgentReturns, Shape, Keeps
  <1>2. CASE AgentRaises(w)
    BY <1>2, <1>f DEF AgentRaises
  <1>3. CASE AttemptFailsEarly(w)
    BY <1>3, <1>f DEF AttemptFailsEarly
  <1>4. CASE Raises(w)
    <2>1. CASE w \in HttpThreads
      <3>1. PICK label \in {"abort", "abort.held"} :
               Goto(w, label) /\ (label \in InTick <=> pc[w] \in InTick)
        BY <1>4, <2>1 DEF Raises, InTick
      <3>2. at' = at
        BY <1>4, <2>1 DEF Raises
      <3>3. label \in ProgramCounters
        BY <1>l DEF InTick
      <3>4. SameHolders
        BY <3>1, <3>2, <3>3, GotoSameHolders
      <3> QED
        BY <1>4, <2>1, <3>4 DEF Raises, Shape, Keeps
    <2>2. CASE w \notin HttpThreads
      <3>1. Vanish({w})
        BY <1>4, <2>2, StrandVanishes DEF Raises
      <3> QED
        BY <3>1 DEF Shape
    <2> QED
      BY <2>1, <2>2
  <1>5. CASE CliDies(w)
    <2>1. Vanish({w})
      BY <1>5, StrandVanishes DEF CliDies
    <2> QED
      BY <2>1 DEF Shape
  <1>6. ASSUME NEW a \in Agents, RunRoute(w, a)
        PROVE  Shape
    <2>1. SameHolders
      BY <1>6, <1>l, GotoSameHolders DEF RunRoute, InTick, OnEventLoop
    <2> QED
      BY <1>6, <2>1 DEF RunRoute, Shape, Keeps
  <1>7. ASSUME NEW a \in Agents, CliOpen(w, a)
        PROVE  Shape
    <2>1. SameHolders
      BY <1>7, <1>l, GotoSameHolders DEF CliOpen, InTick
    <2> QED
      BY <1>7, <2>1 DEF CliOpen, Sweep, Shape, Overwrites, Status
  <1>8. ASSUME NEW m \in Messages, MessageRoute(w, m)
        PROVE  Shape
    <2>1. SameHolders
      BY <1>8, <1>l, GotoSameHolders DEF MessageRoute, InTick, OnEventLoop
    <2> QED
      BY <1>8, <2>1 DEF MessageRoute, Shape, Keeps
  <1> QED
    BY <1>1, <1>2, <1>3, <1>4, <1>5, <1>6, <1>7, <1>8 DEF AgentEnds

LEMMA EnvironmentShape ==
    ASSUME TypeInv,
           \/ \E a \in Agents :
                \/ SchedulerCheck(a) \/ TimeoutElapses(a)
                \/ Pause(a) \/ Resume(a) \/ Recover(a) \/ Delete(a)
           \/ \E m \in Messages : QueueMessage(m)
           \/ Stalls \/ CliCommand \/ Crash \/ Restart
    PROVE  Shape
  <1> USE DEF row, letters, worker, server
  <1>s. Scheduler \in Workers /\ ServerWorkers \in SUBSET Workers
    BY DEF Workers, ServerWorkers
  <1>l. {"idle", "claim", "reconcile", "stall.count"} \subseteq ProgramCounters \ InTick
    BY DEF ProgramCounters, InTick
  <1>1. ASSUME NEW a \in Agents, SchedulerCheck(a)
        PROVE  Shape
    <2>1. SameHolders
      BY <1>1, <1>s, <1>l, GotoSameHolders DEF SchedulerCheck
    <2> QED
      BY <1>1, <2>1 DEF SchedulerCheck, Shape, Keeps
  <1>2. ASSUME NEW a \in Agents, TimeoutElapses(a)
        PROVE  Shape
    BY <1>2 DEF TimeoutElapses, Shape, Keeps, SameHolders, Holders
  <1>3. ASSUME NEW a \in Agents, NEW s \in {"paused", "idle", "archived"},
               OperatorWrites(a, s)
        PROVE  Shape
    <2>1. SameHolders
      BY <1>3 DEF OperatorWrites, SameHolders, Holders
    <2> QED
      BY <1>3, <2>1 DEF OperatorWrites, Shape, Overwrites, Status
  <1>4. ASSUME NEW m \in Messages, QueueMessage(m)
        PROVE  Shape
    BY <1>4 DEF QueueMessage, Shape, Keeps, SameHolders, Holders
  <1>5. CASE Reconcile
    <2>1. SameHolders
      BY <1>5, <1>s, <1>l, GotoSameHolders DEF Reconcile
    <2> QED
      BY <1>5, <2>1 DEF Reconcile, Shape, Keeps
  <1>6. CASE StallExhausted
    <2>1. PICK s \in stalled : Overwrite({s[1]}, "error") /\ NextStalled(stalled \ {s})
      BY <1>6 DEF StallExhausted
    <2>2. s[1] \in Agents
      BY DEF TypeInv, TypeOK
    <2>3. PICK label \in {"idle", "reconcile"} : Goto(Scheduler, label)
      BY <2>1 DEF NextStalled
    <2>4. at' = at /\ pc[Scheduler] = "reconcile"
      BY <1>6 DEF StallExhausted
    <2>5. SameHolders
      BY <1>s, <1>l, <2>3, <2>4, GotoSameHolders
    <2> QED
      BY <1>6, <2>1, <2>2, <2>5 DEF StallExhausted, Shape, Overwrites, Status
  <1>7. CASE StallRelease
    <2>1. PICK s \in stalled : /\ Overwrite({s[1]}, "idle")
                               /\ at' = [at EXCEPT ![Scheduler] = s[1]]
      BY <1>7 DEF StallRelease
    <2>2. s[1] \in Agents
      BY DEF TypeInv, TypeOK
    <2>3. SameHolders
      BY <1>7, <1>s, <1>l, <2>1, GotoSameHolders DEF StallRelease
    <2> QED
      BY <1>7, <2>1, <2>2, <2>3 DEF StallRelease, Shape, Overwrites, Status
  <1>8. CASE StallCount
    <2>1. PICK label \in {"idle", "reconcile"} : Goto(Scheduler, label)
      BY <1>8 DEF StallCount, NextStalled
    <2>2. pc[Scheduler] = "stall.count" /\ at' = [at EXCEPT ![Scheduler] = NoAgent]
      BY <1>8 DEF StallCount
    <2>3. SameHolders
      BY <1>s, <1>l, <2>1, <2>2, GotoSameHolders
    <2> QED
      BY <1>8, <2>3 DEF StallCount, Shape, Keeps
  <1>9. CASE CliCommand
    BY <1>9 DEF CliCommand, Sweep, Shape, Overwrites, SameHolders, Holders, Status
  <1>10. CASE Crash
    BY <1>10, <1>s, RetireHolders DEF Crash, Shape, Vanish
  <1>11. CASE Restart
    BY <1>11 DEF Restart, Sweep, Shape, Overwrites, SameHolders, Holders, Status
  <1> QED
    BY <1>1, <1>2, <1>3, <1>4, <1>5, <1>6, <1>7, <1>8, <1>9, <1>10, <1>11
    DEF Stalls, Pause, Resume, Recover, Delete

LEMMA NextShape == TypeInv /\ [Next]_vars => Shape
  <1>1. ASSUME UNCHANGED vars
        PROVE  Shape
    BY <1>1 DEF Shape, Keeps, SameHolders, Holders, vars, row, worker, server
  <1> QED
    BY <1>1, StepShape, OtherWorkerShape, EnvironmentShape DEF Next

-----------------------------------------------------------------------------
(* The guard.                                                              *)

LEMMA GuardStep ==
    ASSUME TypeInv, GuardUnlessOverwritten, Shape
    PROVE  GuardUnlessOverwritten'
  <1> USE DEF GuardUnlessOverwritten
  <1>t. status \in [Agents -> Status] /\ lost \in [Agents -> BOOLEAN]
    BY DEF TypeInv, TypeOK
  <1>1. CASE Keeps
    BY <1>1 DEF Keeps, SameHolders
  <1>2. ASSUME NEW w \in Workers, NEW a \in Agents, Acquires(w, a)
        PROVE  GuardUnlessOverwritten'
    BY <1>2, <1>t DEF Acquires
  <1>3. ASSUME NEW w \in Workers, NEW a \in Agents, Ends(w, a)
        PROVE  GuardUnlessOverwritten'
    BY <1>3, <1>t DEF Ends
  <1>4. ASSUME NEW A \in SUBSET Agents, NEW s \in Status, Overwrites(A, s)
        PROVE  GuardUnlessOverwritten'
    BY <1>4, <1>t DEF Overwrites, Overwrite, SameHolders
  <1>5. ASSUME NEW W \in SUBSET Workers, Vanish(W)
        PROVE  GuardUnlessOverwritten'
    BY <1>5 DEF Vanish
  <1> QED
    BY <1>1, <1>2, <1>3, <1>4, <1>5 DEF Shape

LEMMA InitHolders == Init => \A a \in Agents : Holders(a) = {}
  BY DEF Init, Holders, InTick

\* However many agents, threads and processes there are: as long as nobody has
\* rewritten the row of an agent behind its tick's back, at most one worker is
\* inside a tick of it and the row says so.
THEOREM GuardHolds == Spec => []GuardUnlessOverwritten
  <1>1. Init => GuardUnlessOverwritten
    BY InitHolders DEF GuardUnlessOverwritten
  <1>2. TypeInv /\ GuardUnlessOverwritten /\ [Next]_vars => GuardUnlessOverwritten'
    BY NextShape, GuardStep
  <1> QED
    BY <1>1, <1>2, TypeInvariant, PTL DEF Spec

LEMMA ZombieStep ==
    ASSUME TypeInv, NoZombieGuard, Shape
    PROVE  NoZombieGuard'
  <1> USE DEF NoZombieGuard
  <1>t. status \in [Agents -> Status] /\ up \in BOOLEAN
    BY DEF TypeInv, TypeOK
  <1>1. CASE Keeps
    BY <1>1 DEF Keeps, SameHolders
  <1>2. ASSUME NEW w \in Workers, NEW a \in Agents, Acquires(w, a)
        PROVE  NoZombieGuard'
    BY <1>2, <1>t DEF Acquires
  <1>3. ASSUME NEW w \in Workers, NEW a \in Agents, Ends(w, a)
        PROVE  NoZombieGuard'
    BY <1>3, <1>t DEF Ends
  <1>4. ASSUME NEW A \in SUBSET Agents, NEW s \in Status, Overwrites(A, s)
        PROVE  NoZombieGuard'
    BY <1>4, <1>t DEF Overwrites, Overwrite, SameHolders
  <1>5. ASSUME NEW W \in SUBSET Workers, Vanish(W)
        PROVE  NoZombieGuard'
    BY <1>5 DEF Vanish
  <1> QED
    BY <1>1, <1>2, <1>3, <1>4, <1>5 DEF Shape

\* For any agents, threads and processes: while the server is up, "running" is the
\* leftover of no tick but one that an exception left before its end_tick in the
\* scheduler thread or in a command, or whose process was killed.  The death of the
\* server leaves none, since it sweeps the rows before it is up again.
THEOREM NoZombies == Spec => []NoZombieGuard
  <1>1. Init => NoZombieGuard
    BY DEF Init, NoZombieGuard
  <1>2. TypeInv /\ NoZombieGuard /\ [Next]_vars => NoZombieGuard'
    BY NextShape, ZombieStep
  <1> QED
    BY <1>1, <1>2, TypeInvariant, PTL DEF Spec

-----------------------------------------------------------------------------
(* Refinement of the abstract lock.                                        *)

LEMMA LockStep ==
    ASSUME TypeInv, GuardUnlessOverwritten, Shape
    PROVE  [Lock!Next]_Lock!vars
  <1> DEFINE H == [a \in Agents |-> Holders(a)]
  <1>t. lost \in [Agents -> BOOLEAN]
    BY DEF TypeInv, TypeOK
  <1>1. CASE Keeps
    <2>1. H' = H
      BY <1>1 DEF Keeps, SameHolders
    <2> QED
      BY <1>1, <2>1 DEF Keeps, Lock!vars
  <1>2. ASSUME NEW w \in Workers, NEW a \in Agents, Acquires(w, a)
        PROVE  Lock!Acquire(w, a)
    <2>1. H' = [H EXCEPT ![a] = @ \cup {w}]
      BY <1>2 DEF Acquires
    <2>2. lost[a] \/ H[a] = {}
      BY <1>2 DEF Acquires, GuardUnlessOverwritten
    <2>3. lost' = [lost EXCEPT ![a] = @ /\ H[a] # {}]
      BY <1>2 DEF Acquires
    <2>4. w \notin H[a]
      BY <1>2 DEF Acquires
    <2> QED
      BY <2>1, <2>2, <2>3, <2>4 DEF Lock!Acquire
  <1>3. ASSUME NEW w \in Workers, NEW a \in Agents, Ends(w, a)
        PROVE  Lock!Leave({w})
    <2>1. \A b \in Agents : b # a => w \notin Holders(b)
      BY <1>3 DEF Ends, Holders
    <2>2. H' = [b \in Agents |-> H[b] \ {w}]
      BY <1>3, <2>1 DEF Ends
    <2> QED
      BY <1>3, <2>2 DEF Ends, Lock!Leave
  <1>4. ASSUME NEW A \in SUBSET Agents, NEW s \in Status, Overwrites(A, s)
        PROVE  Lock!Break(A)
    <2>1. H' = H
      BY <1>4 DEF Overwrites, SameHolders
    <2>2. lost' = [a \in Agents |-> lost[a] \/ (a \in A /\ H[a] # {})]
      BY <1>4 DEF Overwrites, Overwrite
    <2> QED
      BY <2>1, <2>2 DEF Lock!Break
  <1>5. ASSUME NEW W \in SUBSET Workers, Vanish(W)
        PROVE  Lock!Leave(W)
    <2>1. H' = [a \in Agents |-> H[a] \ W]
      BY <1>5 DEF Vanish
    <2> QED
      BY <1>5, <2>1 DEF Vanish, Lock!Leave
  <1>6. ASSUME NEW w \in Workers
        PROVE  {w} \in SUBSET Workers
    OBVIOUS
  <1> QED
    BY <1>1, <1>2, <1>3, <1>4, <1>5, <1>6 DEF Shape, Lock!Next

\* The status column, as all these handlers use it, implements the tick lock of
\* TickLock, which promises exclusion until it is broken.
THEOREM TickLockImplemented == Spec => ImplementsTickLock
  <1>1. Init => Lock!Init
    <2>1. ASSUME Init
          PROVE  [a \in Agents |-> Holders(a)] = [a \in Agents |-> {}]
      BY <2>1, InitHolders
    <2> QED
      BY <2>1 DEF Init, Lock!Init
  <1>2. TypeInv /\ GuardUnlessOverwritten /\ [Next]_vars => [Lock!Next]_Lock!vars
    BY NextShape, LockStep
  <1> QED
    BY <1>1, <1>2, TypeInvariant, GuardHolds, PTL
    DEF Spec, ImplementsTickLock, Lock!Spec

-----------------------------------------------------------------------------
(* Messages.                                                               *)

OnRoute == {"msg.unflag", "msg.store"}

\* Why a message is put before the agent once: what was served is delivered;
\* a worker marks exactly what it read, for its own agent; with the guard
\* intact nobody else has served it in between; and a message still on its way
\* into the database is in the hands of one route.
MailInv ==
    /\ \A m \in Messages : served[m] > 0 => mail[m] = "delivered"
    /\ \A w \in Workers : pc[w] = "mark" =>
         /\ \A m \in took[w] : Addressee[m] = at[w] /\ mail[m] # "unsent"
         /\ todo[w] \subseteq took[w]
         /\ \A m \in took[w] \ todo[w] : mail[m] = "delivered"
         /\ ~lost[at[w]] => \A m \in took[w] : served[m] = 0
    /\ \A w \in Workers : pc[w] \in OnRoute =>
         w \in HttpThreads /\ \A m \in todo[w] : mail[m] = "unsent"
    /\ \A v, w \in Workers :
         pc[v] \in OnRoute /\ pc[w] \in OnRoute /\ todo[v] \cap todo[w] # {} => v = w

\* What the steps do that do not handle messages.
MailFrame ==
    /\ mail' = mail /\ served' = served
    /\ \A w \in Workers : pc'[w] = "mark" =>
         pc[w] = "mark" /\ at'[w] = at[w] /\ todo'[w] = todo[w] /\ took'[w] = took[w]
    /\ \A w \in Workers : pc'[w] \in OnRoute => pc[w] \in OnRoute /\ todo'[w] = todo[w]
    /\ \A a \in Agents : ~lost'[a] => ~lost[a] \/ Holders(a) = {}

LEMMA FrameKeepsMail ==
    ASSUME TypeInv, MailInv, MailFrame
    PROVE  MailInv'
  <1>1. \A w \in Workers : pc[w] = "mark" => at[w] \in Agents /\ w \in Holders(at[w])
    BY DEF TypeInv, TypeOK, Holders, InTick
  <1> QED
    BY <1>1 DEF MailInv, MailFrame

\* Retiring workers handle no messages any more.
LEMMA RetireMail ==
    ASSUME TypeInv, NEW W \in SUBSET Workers, Retire(W)
    PROVE  /\ \A w \in Workers : pc'[w] = "mark" =>
                pc[w] = "mark" /\ at'[w] = at[w] /\ todo'[w] = todo[w] /\ took'[w] = took[w]
           /\ \A w \in Workers : pc'[w] \in OnRoute =>
                pc[w] \in OnRoute /\ todo'[w] = todo[w]
  BY DEF Retire, OnRoute

LEMMA StepMail ==
    ASSUME TypeInv, GuardUnlessOverwritten, MailInv, NEW w \in Workers, Step(w)
    PROVE  MailInv'
  <1> USE DEF Goto, row, letters, worker, server
  <1>t. /\ pc \in [Workers -> ProgramCounters] /\ lost \in [Agents -> BOOLEAN]
        /\ todo \in [Workers -> SUBSET Messages] /\ took \in [Workers -> SUBSET Messages]
        /\ at \in [Workers -> Agents \cup {NoAgent}]
        /\ mail \in [Messages -> {"unsent", "pending", "delivered"}]
        /\ served \in [Messages -> 0..2]
    BY DEF TypeInv, TypeOK
  <1>1. CASE Unflag(w)
    BY <1>1, <1>t, FrameKeepsMail DEF Unflag, Overwrite, MailFrame, OnRoute
  <1>2. CASE StoreMessage(w)
    BY <1>2, <1>t DEF StoreMessage, MailInv, OnRoute
  <1>3. CASE CliBuild(w)
    BY <1>3, <1>t, FrameKeepsMail DEF CliBuild, Sweep, Overwrite, MailFrame, OnRoute
  <1>4. CASE StartTick(w)
    BY <1>4, <1>t, FrameKeepsMail DEF StartTick, MailFrame, OnRoute
  <1>5. CASE StartTickRefused(w)
    BY <1>5, <1>t, FrameKeepsMail, RetireMail DEF StartTickRefused, MailFrame
  <1>6. CASE Enter(w)
    BY <1>6, <1>t, FrameKeepsMail DEF Enter, MailFrame, OnRoute
  <1>17. CASE Prepare(w)
    BY <1>17, <1>t, FrameKeepsMail DEF Prepare, MailFrame, OnRoute
  <1>7. CASE TakeMessages(w)
    <2>1. \A m \in Messages : mail[m] = "pending" => served[m] = 0
      BY <1>t DEF MailInv
    <2> QED
      BY <1>7, <1>t, <2>1 DEF TakeMessages, MailInv, OnRoute
  <1>8. CASE MarkDelivered(w)
    BY <1>8, <1>t DEF MarkDelivered, MailInv, OnRoute
  <1>9. CASE CallAgent(w)
    <2>1. \A v \in Workers : pc'[v] = "mark" => v # w /\ pc[v] = "mark"
      BY <1>9, <1>t DEF CallAgent
    <2>2. \A m \in Messages : m \in took[w] => mail[m] = "delivered"
      BY <1>9 DEF CallAgent, MailInv
    <2>3. \A m \in Messages : m \notin took[w] => served'[m] = served[m]
      BY <1>9, <1>t DEF CallAgent
    <2>4. ASSUME NEW v \in Workers, pc'[v] = "mark", ~lost[at[v]],
                 NEW m \in took[v]
          PROVE  served'[m] = 0
      <3>1. v # w /\ pc[v] = "mark" /\ at[v] \in Agents /\ m \in Messages
        BY <2>1, <2>4, <1>t DEF TypeInv, TypeOK
      <3>2. v \in Holders(at[v]) /\ w \in Holders(at[w])
        BY <3>1, <1>9 DEF Holders, CallAgent, InTick
      <3>3. at[v] # at[w]
        BY <2>4, <3>1, <3>2 DEF GuardUnlessOverwritten
      <3>4. m \notin took[w]
        BY <1>9, <3>1, <3>3 DEF CallAgent, MailInv
      <3> QED
        BY <2>3, <2>4, <3>1, <3>4 DEF MailInv
    <2>5. /\ mail' = mail /\ at' = at /\ todo' = todo /\ took' = took /\ lost' = lost
          /\ \A v \in Workers : pc'[v] \in OnRoute => pc[v] \in OnRoute
      BY <1>9, <1>t DEF CallAgent, OnRoute
    <2>6. \A m \in Messages : served'[m] > 0 => mail'[m] = "delivered"
      BY <2>2, <2>3, <2>5 DEF MailInv
    <2> QED
      BY <2>1, <2>4, <2>5, <2>6 DEF MailInv
  <1>10. CASE EndTick(w)
    BY <1>10, <1>t, FrameKeepsMail DEF EndTick, MailFrame, OnRoute
  <1>11. CASE Flag(w)
    BY <1>11, <1>t, FrameKeepsMail, RetireMail DEF Flag, Overwrite, MailFrame
  <1>12. CASE Spend(w)
    BY <1>12, <1>t, FrameKeepsMail DEF Spend, MailFrame, OnRoute
  <1>13. CASE Answer(w)
    BY <1>13, <1>t, FrameKeepsMail DEF Answer, MailFrame, OnRoute
  <1>14. CASE CheckBudget(w)
    <2>1. CASE OverBudget(at[w])
      BY <1>14, <1>t, <2>1, FrameKeepsMail DEF CheckBudget, MailFrame, OnRoute
    <2>2. CASE ~OverBudget(at[w])
      BY <1>14, <1>t, <2>2, FrameKeepsMail, RetireMail DEF CheckBudget, MailFrame
    <2> QED
      BY <2>1, <2>2
  <1>15. CASE Exceed(w)
    BY <1>15, <1>t, FrameKeepsMail, RetireMail DEF Exceed, Overwrite, MailFrame
  <1>16. CASE Abort(w)
    BY <1>16, <1>t, FrameKeepsMail DEF Abort, MailFrame, OnRoute
  <1> QED
    BY <1>1, <1>2, <1>3, <1>4, <1>5, <1>6, <1>7, <1>8, <1>9, <1>10, <1>11,
       <1>12, <1>13, <1>14, <1>15, <1>16, <1>17 DEF Step

LEMMA OtherWorkerMail ==
    ASSUME TypeInv, MailInv, NEW w \in Workers,
           \/ AgentEnds(w) \/ AttemptFailsEarly(w) \/ Raises(w) \/ CliDies(w)
           \/ \E a \in Agents : RunRoute(w, a) \/ CliOpen(w, a)
           \/ \E m \in Messages : MessageRoute(w, m)
    PROVE  MailInv'
  <1> USE DEF Goto, row, letters, worker, server
  <1>t. /\ pc \in [Workers -> ProgramCounters] /\ lost \in [Agents -> BOOLEAN]
        /\ todo \in [Workers -> SUBSET Messages]
        /\ took \in [Workers -> SUBSET Messages]
        /\ at \in [Workers -> Agents \cup {NoAgent}]
    BY DEF TypeInv, TypeOK
  <1>f. ASSUME NEW outcome \in Outcomes, pc[w] \in {"run", "attempt"}, Fail(w, outcome)
        PROVE  MailFrame
    <2>1. PICK label \in {"attempt", "release"} : Goto(w, label)
      BY <1>f DEF Fail
    <2> QED
      BY <1>f, <1>t, <2>1 DEF Fail, MailFrame, OnRoute
  <1>1. CASE AgentReturns(w)
    BY <1>1, <1>t, FrameKeepsMail DEF AgentReturns, MailFrame, OnRoute
  <1>2. CASE AgentRaises(w)
    BY <1>2, <1>f, FrameKeepsMail DEF AgentRaises
  <1>3. CASE AttemptFailsEarly(w)
    BY <1>3, <1>f, FrameKeepsMail DEF AttemptFailsEarly
  <1>4. CASE Raises(w)
    <2>1. CASE w \in HttpThreads
      BY <1>4, <1>t, <2>1, FrameKeepsMail DEF Raises, MailFrame, OnRoute
    <2>2. CASE w \notin HttpThreads
      BY <1>4, <1>t, <2>2, FrameKeepsMail, RetireMail DEF Raises, Strand, MailFrame
    <2> QED
      BY <2>1, <2>2
  <1>5. CASE CliDies(w)
    BY <1>5, <1>t, FrameKeepsMail, RetireMail DEF CliDies, Strand, MailFrame
  <1>6. ASSUME NEW a \in Agents, RunRoute(w, a)
        PROVE  MailInv'
    BY <1>6, <1>t, FrameKeepsMail DEF RunRoute, MailFrame, OnRoute
  <1>7. ASSUME NEW a \in Agents, CliOpen(w, a)
        PROVE  MailInv'
    BY <1>7, <1>t, FrameKeepsMail DEF CliOpen, Sweep, Overwrite, MailFrame, OnRoute
  <1>8. ASSUME NEW m \in Messages, MessageRoute(w, m)
        PROVE  MailInv'
    <2>1. \A v \in Workers : pc[v] \in OnRoute => v \in HttpThreads /\ m \notin todo[v]
      BY <1>8 DEF MessageRoute, MailInv
    <2> QED
      BY <1>8, <1>t, <2>1 DEF MessageRoute, MailInv, OnRoute
  <1> QED
    BY <1>1, <1>2, <1>3, <1>4, <1>5, <1>6, <1>7, <1>8 DEF AgentEnds

LEMMA EnvironmentMail ==
    ASSUME TypeInv, MailInv,
           \/ \E a \in Agents :
                \/ SchedulerCheck(a) \/ TimeoutElapses(a)
                \/ Pause(a) \/ Resume(a) \/ Recover(a) \/ Delete(a)
           \/ \E m \in Messages : QueueMessage(m)
           \/ Stalls \/ CliCommand \/ Crash \/ Restart
    PROVE  MailInv'
  <1> USE DEF Goto, row, letters, worker, server
  <1>s. Scheduler \in Workers /\ ServerWorkers \in SUBSET Workers
    BY DEF Workers, ServerWorkers
  <1>t. /\ pc \in [Workers -> ProgramCounters] /\ lost \in [Agents -> BOOLEAN]
        /\ at \in [Workers -> Agents \cup {NoAgent}]
        /\ mail \in [Messages -> {"unsent", "pending", "delivered"}]
    BY DEF TypeInv, TypeOK
  <1>1. ASSUME NEW a \in Agents, SchedulerCheck(a)
        PROVE  MailInv'
    BY <1>1, <1>s, <1>t, FrameKeepsMail DEF SchedulerCheck, MailFrame, OnRoute
  <1>2. ASSUME NEW a \in Agents, TimeoutElapses(a)
        PROVE  MailInv'
    BY <1>2, FrameKeepsMail DEF TimeoutElapses, MailFrame
  <1>3. ASSUME NEW a \in Agents, NEW s, OperatorWrites(a, s)
        PROVE  MailInv'
    BY <1>3, FrameKeepsMail DEF OperatorWrites, Overwrite, MailFrame
  <1>4. ASSUME NEW m \in Messages, QueueMessage(m)
        PROVE  MailInv'
    BY <1>4, <1>t DEF QueueMessage, MailInv
  <1>5. CASE Reconcile
    BY <1>5, <1>s, <1>t, FrameKeepsMail DEF Reconcile, MailFrame, OnRoute
  <1>6. CASE StallExhausted
    <2>1. PICK s \in stalled : Overwrite({s[1]}, "error") /\ NextStalled(stalled \ {s})
      BY <1>6 DEF StallExhausted
    <2> QED
      BY <1>6, <1>s, <1>t, <2>1, FrameKeepsMail
      DEF StallExhausted, Overwrite, NextStalled, MailFrame, OnRoute
  <1>7. CASE StallRelease
    <2>1. PICK s \in stalled : /\ Overwrite({s[1]}, "idle")
                               /\ at' = [at EXCEPT ![Scheduler] = s[1]]
      BY <1>7 DEF StallRelease
    <2> QED
      BY <1>7, <1>s, <1>t, <2>1, FrameKeepsMail
      DEF StallRelease, Overwrite, MailFrame, OnRoute
  <1>8. CASE StallCount
    <2>1. PICK s \in stalled : NextStalled(stalled \ {s})
      BY <1>8 DEF StallCount
    <2> QED
      BY <1>8, <1>s, <1>t, <2>1, FrameKeepsMail
      DEF StallCount, NextStalled, MailFrame, OnRoute
  <1>9. CASE CliCommand
    BY <1>9, FrameKeepsMail DEF CliCommand, Sweep, Overwrite, MailFrame
  <1>10. CASE Crash
    BY <1>10, <1>s, FrameKeepsMail, RetireMail DEF Crash, MailFrame
  <1>11. CASE Restart
    BY <1>11, FrameKeepsMail DEF Restart, Sweep, Overwrite, MailFrame
  <1> QED
    BY <1>1, <1>2, <1>3, <1>4, <1>5, <1>6, <1>7, <1>8, <1>9, <1>10, <1>11
    DEF Stalls, Pause, Resume, Recover, Delete

LEMMA MailInvariant == Spec => []MailInv
  <1>1. Init => MailInv
    BY DEF Init, MailInv, OnRoute
  <1>2. TypeInv /\ GuardUnlessOverwritten /\ MailInv /\ [Next]_vars => MailInv'
    <2>1. ASSUME TypeInv, MailInv, UNCHANGED vars
          PROVE  MailInv'
      BY <2>1, FrameKeepsMail DEF MailFrame, vars, row, letters, worker
    <2> QED
      BY <2>1, StepMail, OtherWorkerMail, EnvironmentMail DEF Next
  <1> QED
    BY <1>1, <1>2, TypeInvariant, GuardHolds, PTL DEF Spec

\* Only a call of the agent serves messages.
LEMMA ServedBy ==
    ASSUME [Next]_vars, NEW m \in Messages, served'[m] # served[m]
    PROVE  \E w \in Workers : CallAgent(w)
  <1> USE DEF row, letters, worker, server
  <1>1. ASSUME NEW w \in Workers, Step(w)
        PROVE  CallAgent(w)
    BY <1>1 DEF Step, Unflag, StoreMessage, CliBuild, StartTick, StartTickRefused,
       Enter, Prepare, TakeMessages, MarkDelivered, EndTick, Flag, Spend, Answer,
       CheckBudget, Exceed, Abort
  <1>2. ASSUME NEW w \in Workers,
               \/ AgentEnds(w) \/ AttemptFailsEarly(w) \/ Raises(w) \/ CliDies(w)
               \/ \E a \in Agents : RunRoute(w, a) \/ CliOpen(w, a)
               \/ \E n \in Messages : MessageRoute(w, n)
        PROVE  FALSE
    BY <1>2 DEF AgentEnds, AgentReturns, AgentRaises, Fail, AttemptFailsEarly,
       Raises, CliDies, RunRoute, CliOpen, MessageRoute
  <1>3. ASSUME \/ \E a \in Agents :
                    \/ SchedulerCheck(a) \/ TimeoutElapses(a)
                    \/ Pause(a) \/ Resume(a) \/ Recover(a) \/ Delete(a)
               \/ \E n \in Messages : QueueMessage(n)
               \/ Stalls \/ CliCommand \/ Crash \/ Restart
        PROVE  FALSE
    BY <1>3 DEF SchedulerCheck, TimeoutElapses, Pause, Resume, Recover, Delete,
       OperatorWrites, QueueMessage, Stalls, Reconcile, StallExhausted,
       StallRelease, StallCount, CliCommand, Crash, Restart
  <1>4. ~UNCHANGED vars
    BY DEF vars
  <1> QED
    BY <1>1, <1>2, <1>3, <1>4 DEF Next

\* For any number of workers: as long as the guard of its agent is intact, no
\* user message is put before the agent twice.
THEOREM NoRedelivery == Spec => RedeliveryNeedsLostGuard
  <1>1. TypeInv /\ MailInv /\ [Next]_vars =>
          [\A m \in Messages :
             served[m] > 0 /\ served'[m] > served[m] => lost[Addressee[m]]]_vars
    <2> SUFFICES ASSUME TypeInv, MailInv, [Next]_vars, NEW m \in Messages,
                        served[m] > 0, served'[m] > served[m]
                 PROVE  lost[Addressee[m]]
      OBVIOUS
    <2>1. served[m] \in 0..2
      BY DEF TypeInv, TypeOK
    <2>2. PICK w \in Workers : CallAgent(w)
      BY <2>1, ServedBy
    <2>3. m \in took[w] /\ pc[w] = "mark"
      BY <2>1, <2>2 DEF CallAgent
    <2> QED
      BY <2>1, <2>3 DEF MailInv
  <1> QED
    BY <1>1, TypeInvariant, MailInvariant, PTL DEF Spec, RedeliveryNeedsLostGuard

=============================================================================
