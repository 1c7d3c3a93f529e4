----------------------------- MODULE Approvals ------------------------------
(***************************************************************************)
(* The approval queue of the proactive agent: the pending_actions and      *)
(* permission_memory tables (tools/approval_store.py), the runs of the     *)
(* proactive agent that propose, auto-approve and execute actions          *)
(* (agents/proactive_agent.py), the tools over the store                   *)
(* (tools/proactive_tools.py) and the user, who decides in the UI          *)
(* (server/approval_routes.py) or by replying to a notification.           *)
(*                                                                         *)
(* Every store method is one SQL statement and a commit, hence atomic; the *)
(* store has no lock and no transaction around two of them.                *)
(***************************************************************************)
EXTENDS Naturals

CONSTANTS
    Actions,    \* ids of rows of pending_actions
    NoAction,
    Items,      \* e-mails, messages and events an action is about
    ItemOf,     \* payload["doc_id"] of each action
    Keys,       \* permission patterns
    KeyOf,      \* permission_key of each action
    TierOf,     \* tier of each action
    Runs,       \* processes that run the proactive agent
    Callers,    \* other agents that have the approval tools
    Notifies,   \* a notification channel is configured
    Crashes,    \* processes may die
    MaxGrants   \* bound: beyond it the user starts no further approval of an action

Tiers == {"trivial", "low", "medium", "high"}

Executors == Runs \cup Callers

ASSUME ApprovalsAssumption ==
    /\ NoAction \notin Actions
    /\ ItemOf \in [Actions -> Items]
    /\ KeyOf \in [Actions -> Keys]
    /\ TierOf \in [Actions -> Tiers]
    /\ Runs \cap Callers = {}
    /\ Notifies \in BOOLEAN /\ Crashes \in BOOLEAN
    /\ MaxGrants \in Nat

VARIABLES
    status,      \* pending_actions.status, "none" while there is no such row
    overdue,     \* expires_at has passed
    permission,  \* permission_memory.decision, "unknown" without a row
    \* each executor
    pc,
    proposed,    \* what the model proposed and the run has still to route
    rule,        \* the permission the run read for the action at hand
    current,     \* the action at hand
    autos,       \* auto_approve_ids
    asked,       \* pending_actions: to be notified
    batch,       \* approved actions still to execute
    \* the channel handler that parses the user's replies
    reply,       \* the actions it still has to decide, the answer, how to remember
    \* history
    grants,      \* how often an action was set to "approved"
    consent,     \* the user approved it, or its tier or a remembered rule did
    effects      \* how often an action was carried out

store == <<status, overdue, permission>>
local == <<pc, proposed, rule, current, autos, asked, batch>>
history == <<grants, consent, effects>>
vars == <<store, local, reply, history>>

Statuses == {"none", "pending", "approved", "denied", "expired", "executed"}
Decisions == {"unknown", "always_approve", "always_deny"}
NoReply == [todo |-> {}, remember |-> NoAction, yes |-> FALSE, how |-> "once"]

Init ==
    /\ status = [a \in Actions |-> "none"]
    /\ overdue = [a \in Actions |-> FALSE]
    /\ permission = [k \in Keys |-> "unknown"]
    /\ pc = [x \in Executors |-> "idle"]
    /\ proposed = [x \in Executors |-> {}]
    /\ rule = [x \in Executors |-> "unknown"]
    /\ current = [x \in Executors |-> NoAction]
    /\ autos = [x \in Executors |-> {}]
    /\ asked = [x \in Executors |-> {}]
    /\ batch = [x \in Executors |-> {}]
    /\ reply = NoReply
    /\ grants = [a \in Actions |-> 0]
    /\ consent = [a \in Actions |-> FALSE]
    /\ effects = [a \in Actions |-> 0]

Goto(x, label) == pc' = [pc EXCEPT ![x] = label]

\* The executor returns (or dies).
Return(x) ==
    /\ Goto(x, "idle")
    /\ proposed' = [proposed EXCEPT ![x] = {}]
    /\ rule' = [rule EXCEPT ![x] = "unknown"]
    /\ current' = [current EXCEPT ![x] = NoAction]
    /\ autos' = [autos EXCEPT ![x] = {}]
    /\ asked' = [asked EXCEPT ![x] = {}]
    /\ batch' = [batch EXCEPT ![x] = {}]

-----------------------------------------------------------------------------
(* The store.                                                              *)

\* Variant: expire_stale without its status condition.
ExpiredNowAny ==
    [a \in Actions |->
        IF status[a] # "none" /\ overdue[a] THEN "expired" ELSE status[a]]

\* expire_stale.
ExpiredNow ==
    [a \in Actions |->
        IF status[a] = "pending" /\ overdue[a] THEN "expired" ELSE status[a]]

\* get_seen_ids: the items of all rows, whatever their status.
SeenItems == {ItemOf[a] : a \in {b \in Actions : status[b] # "none"}}

\* Variant: a run executes everything that is approved.
ToExecuteAll(x) == {a \in Actions : status[a] = "approved"}

\* list_approved, restricted to the given ids when a run calls the tool.
ToExecute(x) ==
    {a \in Actions : status[a] = "approved" /\ (x \in Runs => a \in autos[x])}

Granted(a) ==
    /\ status' = [status EXCEPT ![a] = "approved"]
    /\ grants' = [grants EXCEPT ![a] = @ + 1]

-----------------------------------------------------------------------------
(* A run of the proactive agent.                                           *)

\* Ids that no run is about to use.
Fresh == {a \in Actions :
            status[a] = "none" /\ \A r \in Runs : a \notin proposed[r] \cup {current[r]}}

\* Variant: the digest is collected without the seen ids.
CollectEverything(r) ==
    /\ pc[r] = "idle"
    /\ status' = ExpiredNow
    /\ \E P \in SUBSET Fresh : proposed' = [proposed EXCEPT ![r] = P]
    /\ Goto(r, "route")
    /\ UNCHANGED <<overdue, permission, rule, current, autos, asked, batch,
                   reply, history>>

\* The run expires stale actions, collects the items it has not seen and lets
\* the model propose actions about them.
Collect(r) ==
    /\ pc[r] = "idle"
    /\ status' = ExpiredNow
    /\ \E P \in SUBSET {a \in Fresh : ItemOf[a] \notin SeenItems} :
         proposed' = [proposed EXCEPT ![r] = P]
    /\ Goto(r, "route")
    /\ UNCHANGED <<overdue, permission, rule, current, autos, asked, batch,
                   reply, history>>

\* Variant: always_deny does not skip the item.
RouteDenied(r) ==
    /\ pc[r] = "route"
    /\ \E a \in proposed[r] :
         /\ proposed' = [proposed EXCEPT ![r] = @ \ {a}]
         /\ rule' = [rule EXCEPT ![r] = permission[KeyOf[a]]]
         /\ current' = [current EXCEPT ![r] = a]
         /\ IF permission[KeyOf[a]] = "always_deny" THEN UNCHANGED pc
                                                    ELSE Goto(r, "queue")
    /\ UNCHANGED <<store, autos, asked, batch, reply, history>>

\* The permission of the next proposal is read; always_deny drops it.
Route(r) ==
    /\ pc[r] = "route"
    /\ \E a \in proposed[r] :
         /\ proposed' = [proposed EXCEPT ![r] = @ \ {a}]
         /\ IF permission[KeyOf[a]] = "always_deny"
            THEN UNCHANGED <<pc, rule, current>>
            ELSE /\ rule' = [rule EXCEPT ![r] = permission[KeyOf[a]]]
                 /\ current' = [current EXCEPT ![r] = a]
                 /\ Goto(r, "queue")
    /\ UNCHANGED <<store, autos, asked, batch, reply, history>>

\* Variant: low-tier actions are approved without asking.
QueueLenient(r) ==
    /\ pc[r] = "queue"
    /\ status' = [status EXCEPT ![current[r]] = "pending"]
    /\ IF TierOf[current[r]] \in {"trivial", "low"} \/ rule[r] = "always_approve"
       THEN Goto(r, "approve") /\ UNCHANGED <<current, asked>>
       ELSE /\ Goto(r, "route")
            /\ asked' = [asked EXCEPT ![r] = @ \cup {current[r]}]
            /\ current' = [current EXCEPT ![r] = NoAction]
    /\ UNCHANGED <<overdue, permission, proposed, rule, autos, batch,
                   reply, history>>

\* queue_action; the run keeps the row it wrote, with status "pending".
Queue(r) ==
    /\ pc[r] = "queue"
    /\ status' = [status EXCEPT ![current[r]] = "pending"]
    /\ IF TierOf[current[r]] = "trivial" \/ rule[r] = "always_approve"
       THEN Goto(r, "approve") /\ UNCHANGED <<current, asked>>
       ELSE /\ Goto(r, "route")
            /\ asked' = [asked EXCEPT ![r] = @ \cup {current[r]}]
            /\ current' = [current EXCEPT ![r] = NoAction]
    /\ UNCHANGED <<overdue, permission, proposed, rule, autos, batch,
                   reply, history>>

\* The tier or the remembered rule approves the action.
AutoApprove(r) ==
    /\ pc[r] = "approve"
    /\ Granted(current[r])
    /\ consent' = [consent EXCEPT ![current[r]] =
                     @ \/ TierOf[current[r]] = "trivial" \/ rule[r] = "always_approve"]
    /\ autos' = [autos EXCEPT ![r] = @ \cup {current[r]}]
    /\ current' = [current EXCEPT ![r] = NoAction]
    /\ Goto(r, "route")
    /\ UNCHANGED <<overdue, permission, proposed, rule, asked, batch, reply, effects>>

-----------------------------------------------------------------------------
(* queue_action and execute_pending_actions, as tools.                     *)

\* Another agent queues an action, whatever it is about.
QueueTool(x) ==
    /\ pc[x] = "idle"
    /\ \E a \in Fresh : status' = [status EXCEPT ![a] = "pending"]
    /\ UNCHANGED <<overdue, permission, local, reply, history>>

\* The tool reads what it will execute: the run's auto-approved actions, or
\* everything that is approved when another agent calls it.
ReadApproved(x) ==
    /\ \/ x \in Runs /\ pc[x] = "route" /\ proposed[x] = {}
       \/ x \in Callers /\ pc[x] = "idle" /\ ToExecute(x) # {}
    /\ batch' = [batch EXCEPT ![x] = ToExecute(x)]
    /\ Goto(x, "execute")
    /\ UNCHANGED <<store, proposed, rule, current, autos, asked, reply, history>>

\* _run_action succeeds, or fails (it never raises).
Perform(x) ==
    /\ pc[x] = "execute"
    /\ \E a \in batch[x] :
         /\ batch' = [batch EXCEPT ![x] = @ \ {a}]
         /\ current' = [current EXCEPT ![x] = a]
         /\ \/ effects' = [effects EXCEPT ![a] = @ + 1]
            \/ UNCHANGED effects
    /\ Goto(x, "mark")
    /\ UNCHANGED <<store, proposed, rule, autos, asked, reply, grants, consent>>

\* Variant: the action keeps its status.
MarkNothing(x) ==
    /\ pc[x] = "mark"
    /\ current' = [current EXCEPT ![x] = NoAction]
    /\ Goto(x, "execute")
    /\ UNCHANGED <<store, proposed, rule, autos, asked, batch, reply, history>>

\* Either way the action is marked as executed.
MarkExecuted(x) ==
    /\ pc[x] = "mark"
    /\ status' = [status EXCEPT ![current[x]] = "executed"]
    /\ current' = [current EXCEPT ![x] = NoAction]
    /\ Goto(x, "execute")
    /\ UNCHANGED <<overdue, permission, proposed, rule, autos, asked, batch,
                   reply, history>>

\* The tool returns; a run goes on to notify the user.
Finish(x) ==
    /\ pc[x] = "execute" /\ batch[x] = {}
    /\ IF x \in Runs /\ Notifies /\ asked[x] # {}
       THEN Goto(x, "notify")
            /\ UNCHANGED <<proposed, rule, current, autos, asked, batch>>
       ELSE Return(x)
    /\ UNCHANGED <<store, reply, history>>

\* After the notification the run writes back the status it remembers.
WriteBack(r) ==
    /\ pc[r] = "notify"
    /\ \E a \in asked[r] :
         /\ status' = [status EXCEPT ![a] = "pending"]
         /\ IF asked[r] = {a} THEN Return(r)
            ELSE /\ asked' = [asked EXCEPT ![r] = @ \ {a}]
                 /\ UNCHANGED <<pc, proposed, rule, current, autos, batch>>
    /\ UNCHANGED <<overdue, permission, reply, history>>

Dies(x) ==
    /\ Crashes
    /\ pc[x] # "idle"
    /\ Return(x)
    /\ UNCHANGED <<store, reply, history>>

-----------------------------------------------------------------------------
(* The user.                                                               *)

Exists(a) == status[a] # "none"

\* update_status by somebody who speaks for the user.
Decided(a, yes) ==
    IF yes
    THEN /\ Granted(a)
         /\ consent' = [consent EXCEPT ![a] = TRUE]
    ELSE /\ status' = [status EXCEPT ![a] = "denied"]
         /\ UNCHANGED <<grants, consent>>

\* POST /v1/approvals/{id}/approve and /deny: any action that exists.
Press(a, yes) ==
    /\ Exists(a)
    /\ yes => grants[a] < MaxGrants
    /\ Decided(a, yes)
    /\ UNCHANGED <<overdue, permission, local, reply, effects>>

\* GET /v1/approvals/pending, the get_pending_actions tool.
ListPending ==
    /\ status' = ExpiredNow
    /\ UNCHANGED <<overdue, permission, local, reply, history>>

Answers == { {a} : a \in {b \in Actions : Exists(b)} }
           \cup { {a \in Actions : status[a] = "pending" /\ ~overdue[a]} }

\* A reply names one action or all that are pending; an agent calls
\* record_decision for one ("tool").
Reply ==
    /\ reply = NoReply
    /\ \E A \in Answers, yes \in BOOLEAN, how \in {"once", "always", "tool"} :
         /\ A # {}
         /\ yes => \A a \in A : grants[a] < MaxGrants
         /\ how = "tool" => \E a \in Actions : A = {a}
         /\ reply' = [todo |-> A, remember |-> NoAction, yes |-> yes, how |-> how]
    /\ UNCHANGED <<store, local, history>>

\* A reply with "always" remembers low and medium tiers, the tool every tier.
Remembers(a, how) ==
    \/ how = "always" /\ TierOf[a] \in {"low", "medium"}
    \/ how = "tool"

DecideNext ==
    /\ reply.remember = NoAction
    /\ \E a \in reply.todo :
         /\ Decided(a, reply.yes)
         /\ LET rest == reply.todo \ {a}
            IN  reply' = IF Remembers(a, reply.how)
                         THEN [reply EXCEPT !.todo = rest, !.remember = a]
                         ELSE IF rest = {} THEN NoReply
                         ELSE [reply EXCEPT !.todo = rest]
    /\ UNCHANGED <<overdue, permission, local, effects>>

\* set_permission.
Remember ==
    /\ reply.remember # NoAction
    /\ permission' = [permission EXCEPT ![KeyOf[reply.remember]] =
                        IF reply.yes THEN "always_approve" ELSE "always_deny"]
    /\ reply' = IF reply.todo = {} THEN NoReply
                ELSE [reply EXCEPT !.remember = NoAction]
    /\ UNCHANGED <<status, overdue, local, history>>

\* The 24 hours of an action are over (nobody looks unless it is pending).
TimePasses(a) ==
    /\ status[a] = "pending" /\ ~overdue[a]
    /\ overdue' = [overdue EXCEPT ![a] = TRUE]
    /\ UNCHANGED <<status, permission, local, reply, history>>

-----------------------------------------------------------------------------

Proceed(x) ==
    \/ x \in Runs /\ (Route(x) \/ Queue(x) \/ AutoApprove(x) \/ WriteBack(x))
    \/ x \in Runs /\ ReadApproved(x)
    \/ Perform(x) \/ MarkExecuted(x) \/ Finish(x)

UserActs ==
    \/ \E a \in Actions, yes \in BOOLEAN : Press(a, yes)
    \/ DecideNext

Next ==
    \/ \E r \in Runs : Collect(r)
    \/ \E x \in Callers : ReadApproved(x) \/ QueueTool(x)
    \/ \E x \in Executors : Proceed(x) \/ Dies(x)
    \/ \E a \in Actions : TimePasses(a)
    \/ UserActs \/ Reply \/ Remember \/ ListPending

Spec == Init /\ [][Next]_vars

\* Threads get scheduled, the cron task comes round.  The user need not act and
\* no other agent need call the tool.
Fairness == \A x \in Executors : WF_vars(Proceed(x)) /\ (x \in Runs => WF_vars(Collect(x)))

FairSpec == Spec /\ Fairness

=============================================================================
