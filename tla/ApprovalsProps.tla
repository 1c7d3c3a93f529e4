--------------------------- MODULE ApprovalsProps ---------------------------
(***************************************************************************)
(* What is claimed of Approvals, and statements of the code's comments     *)
(* that the runs in MCApprovals refute.                                    *)
(***************************************************************************)
EXTENDS Approvals

ProgramCounters == {"idle", "route", "queue", "approve", "execute", "mark", "notify"}
Replies == [todo : SUBSET Actions, remember : Actions \cup {NoAction},
            yes : BOOLEAN, how : {"once", "always", "tool"}]

\* The variables stay in their types; an executor has an action at hand
\* exactly where its next call needs one.
TypeOK ==
    /\ status \in [Actions -> Statuses]
    /\ overdue \in [Actions -> BOOLEAN]
    /\ permission \in [Keys -> Decisions]
    /\ pc \in [Executors -> ProgramCounters]
    /\ proposed \in [Executors -> SUBSET Actions]
    /\ rule \in [Executors -> Decisions]
    /\ current \in [Executors -> Actions \cup {NoAction}]
    /\ autos \in [Executors -> SUBSET Actions]
    /\ asked \in [Executors -> SUBSET Actions]
    /\ batch \in [Executors -> SUBSET Actions]
    /\ reply \in Replies
    /\ grants \in [Actions -> Nat]
    /\ consent \in [Actions -> BOOLEAN]
    /\ effects \in [Actions -> Nat]
    /\ \A x \in Executors :
         pc[x] \in {"queue", "approve", "mark"} <=> current[x] \in Actions

\* Nothing is carried out that neither the user nor a rule the user taught nor
\* the trivial tier approved, however runs, callers, replies, expiry and
\* crashes interleave.
EffectNeedsConsent ==
    \A a \in Actions : effects[a] > 0 => consent[a]

\* The runs of the proactive agent never carry out an action twice, even when
\* they overlap or die between carrying it out and marking it: a run executes
\* only what it approved itself, and a later run never takes it up again.
RunsActAtMostOnce ==
    Callers = {} => \A a \in Actions : effects[a] <= 1

\* Without a notification channel, an answer given by the user is only replaced
\* by another answer, by the mark of an execution already under way, or by the
\* auto-approval of a run that has just queued the row.
DecisionKeptUnlessNotified ==
    [][~Notifies =>
         \A a \in Actions :
            /\ status[a] \in {"approved", "denied"}
            /\ status'[a] # status[a]
            => \/ UserActs
               \/ \E x \in Executors :
                    /\ current[x] = a
                    /\ \/ pc[x] = "mark" /\ status'[a] = "executed"
                       \/ pc[x] = "approve" /\ status'[a] = "approved"]_vars

\* get_seen_ids exists "to skip items it has already proposed so they don't
\* resurface on every run": when an item gets a row, the rows it has already
\* were written by the same run.  True of runs that do not overlap, while no
\* other agent queues actions.
ItemsDoNotResurface ==
    [][\A a, b \in Actions :
         /\ status[a] = "none" /\ status'[a] # "none"
         /\ status[b] # "none" /\ ItemOf[b] = ItemOf[a]
         => \E r \in Runs : current[r] = a /\ b \in autos[r] \cup asked[r]]_vars

\* What a run approves itself it also settles: when its execution step is over,
\* an action it approved (and nobody approved once more) is not left approved
\* for a later executor to find, failed or not.
AutoApprovedIsSettled ==
    \A r \in Runs :
        pc[r] = "execute" /\ batch[r] = {} =>
            \A a \in autos[r] : grants[a] = 1 => status[a] # "approved"

-----------------------------------------------------------------------------
(* Refuted statements.                                                     *)

\* "Return approved-but-not-yet-executed actions" (approval_store.py:254): an
\* approval buys one execution.
OneExecutionPerApproval ==
    \A a \in Actions : effects[a] <= grants[a]

\* "Always ask, never auto-remember" (approval_store.py:40).
HighTierAlwaysAsked ==
    \A r \in Runs : pc[r] = "approve" => TierOf[current[r]] # "high"

\* "{action_id} yes - approve one action" (proactive_agent.py:19): the answer
\* stands until the user gives another one or the action is executed.
DecisionKept ==
    [][\A a \in Actions :
         status[a] \in {"approved", "denied"} /\ status'[a] # status[a]
         => UserActs \/ status'[a] = "executed"]_vars

\* "{action_id} no - deny one action" (proactive_agent.py:20).
DeniedIsNotPerformed ==
    [][\A a \in Actions : effects'[a] > effects[a] => status[a] # "denied"]_vars

\* "Execute all approved actions via execute_pending_actions"
\* (proactive_agent.py:15): with runs coming round for ever, what the user
\* approved does not stay approved.
ApprovedGetsExecuted ==
    \A a \in Actions : status[a] = "approved" ~> status[a] # "approved"

=============================================================================
