------------------------------ MODULE Approvals ------------------------------
(***************************************************************************)
(* The single-step approval engine of apps/api (ApprovalsService) together *)
(* with the four handlers that file a request with it: createLeaveRequest, *)
(* WFH createRequest, createExpense and createRegularization.              *)
(*                                                                         *)
(* Every handler is an asynchronous function: it runs one database         *)
(* statement (or one $transaction) at a time, and any other request may    *)
(* run between two of them.  An action below is one such statement or      *)
(* transaction.  actOnApproval reads and checks the request OUTSIDE its    *)
(* transaction and then updates by primary key, without a condition on the *)
(* status it read; the interleavings this allows are the point of the      *)
(* model.                                                                  *)
(***************************************************************************)
EXTENDS Naturals, FiniteSets

CONSTANTS
    Users,       \* user ids of one tenant
    Teams,       \* team ids
    Targets,     \* leave, WFH, regularization and expense rows that may be filed
    Days,        \* attendance days
    Calls,       \* concurrent executions of actOnApproval
    RoleOf,      \* [Users -> SUBSET Role]: the role codes of a user
    Requester,   \* [Targets -> Users]
    TypeOf,      \* [Targets -> ApprovalTargetType]
    DayOf,       \* [Targets -> Days]: the day a regularization corrects
    Nobody,      \* "no user" (SQL NULL)
    NoTarget     \* "no regularization applied"

Role == {"SUPER_ADMIN", "TEAM_LEAD", "USER"}
ApprovalTargetType ==
    {"ATTENDANCE_REGULARIZATION", "LEAVE_REQUEST", "WFH_REQUEST", "EXPENSE"}

ASSUME ConstantsAssumption ==
    /\ RoleOf \in [Users -> SUBSET Role]
    /\ Requester \in [Targets -> Users]
    /\ TypeOf \in [Targets -> ApprovalTargetType]
    /\ DayOf \in [Targets -> Days]
    /\ Nobody \notin Users
    /\ NoTarget \notin Targets

VARIABLES
    member,      \* TeamMember rows: the teams of each user
    filing,      \* the create handler of each target: its stage and the approver it resolved
    target,      \* status column of the leave/WFH/expense/regularization row
    request,     \* status column of the ApprovalRequest row
    step,        \* the ApprovalStep row: status, approverId, actedById
    costs,       \* number of ProjectCost rows created for an expense
    link,        \* Expense.approvedProjectCostId: 0 is NULL, n the n-th cost row
    day,         \* the regularization whose times an attendance day holds
    corrections, \* number of CORRECTION events of a day
    op,          \* the executions of actOnApproval
    parted       \* history: targets whose requester or approver has left a team
                 \* since the approver was resolved

vars == <<member, parted, filing, target, request, step, costs, link, day, corrections, op>>

Decision == {"APPROVED", "REJECTED"}
ApprovalStatus == {"PENDING"} \cup Decision
RowStatus == {"ABSENT"} \cup ApprovalStatus

Filing == [pc: {"none", "resolving", "saving", "ended"}, approver: Users \cup {Nobody}]
Step == [status: RowStatus, approver: Users \cup {Nobody}, actedBy: Users \cup {Nobody}]
Idle == [pc |-> "idle"]
Act == [pc: {"assigned", "authorised", "inTx"}, target: Targets, actor: Users,
        decision: Decision, seen: Nat]

TypeOK ==
    /\ member \in [Users -> SUBSET Teams]
    /\ filing \in [Targets -> Filing]
    /\ target \in [Targets -> RowStatus]
    /\ request \in [Targets -> RowStatus]
    /\ step \in [Targets -> Step]
    /\ costs \in [Targets -> Nat]
    /\ link \in [Targets -> Nat]
    /\ day \in [Days -> Targets \cup {NoTarget}]
    /\ corrections \in [Days -> Nat]
    /\ op \in [Calls -> Act \cup {Idle}]
    /\ parted \subseteq Targets

-----------------------------------------------------------------------------
\* Roles, teams and the approver of a requester

IsSuperAdmin(u) == "SUPER_ADMIN" \in RoleOf[u]
IsTeamLead(u) == ~IsSuperAdmin(u) /\ "TEAM_LEAD" \in RoleOf[u]
TeamOverlap(u, v) == member[u] \cap member[v] # {}

\* Mutant: leads of any team are taken for teammates.
TeamLeadsAnywhere(u) == {v \in Users \ {u} : "TEAM_LEAD" \in RoleOf[v]}

\* Teammates holding the TEAM_LEAD role, else the super admins, never the
\* requester.  The code takes the one with the oldest role grant; which one
\* that is does not matter to any property, so the model takes any.
TeamLeadsFor(u) ==
    {v \in Users \ {u} : "TEAM_LEAD" \in RoleOf[v] /\ TeamOverlap(u, v)}
EligibleApprovers(u) ==
    IF TeamLeadsFor(u) # {} THEN TeamLeadsFor(u) ELSE {v \in Users \ {u} : IsSuperAdmin(v)}

AddMembers(u, team) ==
    /\ team \notin member[u]
    /\ member' = [member EXCEPT ![u] = @ \cup {team}]
    /\ UNCHANGED <<parted, filing, target, request, step, costs, link, day, corrections, op>>

RemoveMember(u, team) ==
    /\ team \in member[u]
    /\ member' = [member EXCEPT ![u] = @ \ {team}]
    /\ parted' = parted \cup {t \in Targets : filing[t].approver # Nobody
                                          /\ u \in {Requester[t], filing[t].approver}}
    /\ UNCHANGED <<filing, target, request, step, costs, link, day, corrections, op>>

-----------------------------------------------------------------------------
\* Filing a request: the row first, then the approver, then the approval

CreateTarget(t) ==
    /\ filing[t].pc = "none"
    /\ filing' = [filing EXCEPT ![t] = [pc |-> "resolving", approver |-> Nobody]]
    /\ target' = [target EXCEPT ![t] = "PENDING"]
    /\ UNCHANGED <<member, parted, request, step, costs, link, day, corrections, op>>

ResolveApproverId(t) ==
    /\ filing[t].pc = "resolving"
    /\ \E u \in EligibleApprovers(Requester[t]) :
           filing' = [filing EXCEPT ![t] = [pc |-> "saving", approver |-> u]]
    /\ UNCHANGED <<member, parted, target, request, step, costs, link, day, corrections, op>>

\* 'No eligible approver found': the row created before stays, with no approval.
ResolveApproverFails(t) ==
    /\ filing[t].pc = "resolving"
    /\ EligibleApprovers(Requester[t]) = {}
    /\ filing' = [filing EXCEPT ![t].pc = "ended"]
    /\ UNCHANGED <<member, parted, target, request, step, costs, link, day, corrections, op>>

CreateSingleStepApproval(t) ==
    /\ filing[t].pc = "saving"
    /\ request[t] = "ABSENT"
    /\ request' = [request EXCEPT ![t] = "PENDING"]
    /\ step' = [step EXCEPT ![t] = [status |-> "PENDING", approver |-> filing[t].approver,
                                    actedBy |-> Nobody]]
    /\ filing' = [filing EXCEPT ![t].pc = "ended"]
    /\ UNCHANGED <<member, parted, target, costs, link, day, corrections, op>>

\* The process stops, or a statement fails, between two statements of the handler.
FilingLost(t) ==
    /\ filing[t].pc \in {"resolving", "saving"}
    /\ filing' = [filing EXCEPT ![t].pc = "ended"]
    /\ UNCHANGED <<member, parted, target, request, step, costs, link, day, corrections, op>>

-----------------------------------------------------------------------------
\* actOnApproval: read and check, check the team overlap, then the transaction

\* Mutants: the self-approval check, or the completion check, is missing.
MayActOnOwn(u, t) ==
    /\ request[t] = "PENDING" /\ step[t].status = "PENDING"
    /\ IsSuperAdmin(u) \/ (IsTeamLead(u) /\ step[t].approver = u)

MayActOnCompleted(u, t) ==
    /\ request[t] # "ABSENT" /\ Requester[t] # u
    /\ IsSuperAdmin(u) \/ (IsTeamLead(u) /\ step[t].approver = u)

\* The checks made on the rows read outside the transaction.
MayAct(u, t) ==
    /\ request[t] = "PENDING"
    /\ step[t].status = "PENDING"
    /\ Requester[t] # u
    /\ IsSuperAdmin(u) \/ (IsTeamLead(u) /\ step[t].approver = u)

OpenApproval(c, t, u, d) ==
    /\ op[c] = Idle
    /\ MayAct(u, t)
    /\ op' = [op EXCEPT ![c] = [pc |-> IF IsSuperAdmin(u) THEN "authorised" ELSE "assigned",
                                target |-> t, actor |-> u, decision |-> d, seen |-> 0]]
    /\ UNCHANGED <<member, parted, filing, target, request, step, costs, link, day, corrections>>

AssertTeamOverlap(c) ==
    /\ op[c].pc = "assigned"
    /\ op' = [op EXCEPT ![c] = IF TeamOverlap(@.actor, Requester[@.target])
                               THEN [@ EXCEPT !.pc = "authorised"] ELSE Idle]
    /\ UNCHANGED <<member, parted, filing, target, request, step, costs, link, day, corrections>>

\* The transaction opens; the expense it will read is the one of this moment
\* when its REPEATABLE READ view is taken here, and a later one when Begin is
\* immediately followed by Commit: both are behaviours of the model.
BeginDecision(c) ==
    /\ op[c].pc = "authorised"
    /\ op' = [op EXCEPT ![c] = [@ EXCEPT !.pc = "inTx", !.seen = link[op[c].target]]]
    /\ UNCHANGED <<member, parted, filing, target, request, step, costs, link, day, corrections>>

Approves(a, type) == a.decision = "APPROVED" /\ TypeOf[a.target] = type

\* Mutant: the new cost row is created but not linked.
ApplyToExpenseUnlinked(a) ==
    IF Approves(a, "EXPENSE")
    THEN /\ costs' = [costs EXCEPT ![a.target] = IF a.seen = 0 THEN @ + 1 ELSE @]
         /\ link' = [link EXCEPT ![a.target] = a.seen]
    ELSE UNCHANGED <<costs, link>>

\* Approving an expense creates its cost row unless the one read has one.
ApplyToExpense(a) ==
    IF Approves(a, "EXPENSE")
    THEN LET new == a.seen = 0 IN
         /\ costs' = [costs EXCEPT ![a.target] = IF new THEN @ + 1 ELSE @]
         /\ link' = [link EXCEPT ![a.target] = IF new THEN costs[a.target] + 1 ELSE a.seen]
    ELSE UNCHANGED <<costs, link>>

\* Approving a regularization rewrites the day and records a CORRECTION event.
ApplyToAttendance(a) ==
    IF Approves(a, "ATTENDANCE_REGULARIZATION")
    THEN /\ day' = [day EXCEPT ![DayOf[a.target]] = a.target]
         /\ corrections' = [corrections EXCEPT ![DayOf[a.target]] = @ + 1]
    ELSE UNCHANGED <<day, corrections>>

\* Mutant: the target row is updated but the approval request is forgotten.
WriteStatusesForgetsRequest(a) ==
    /\ step' = [step EXCEPT ![a.target] = [@ EXCEPT !.status = a.decision, !.actedBy = a.actor]]
    /\ target' = [target EXCEPT ![a.target] = a.decision]
    /\ UNCHANGED request

\* Step, request and target are updated by id, whatever they hold by now.
WriteStatuses(a) ==
    /\ step' = [step EXCEPT ![a.target] = [@ EXCEPT !.status = a.decision, !.actedBy = a.actor]]
    /\ request' = [request EXCEPT ![a.target] = a.decision]
    /\ target' = [target EXCEPT ![a.target] = a.decision]

\* The transaction commits.
CommitDecision(c) ==
    LET a == op[c] IN
    /\ a.pc = "inTx"
    /\ WriteStatuses(a)
    /\ ApplyToExpense(a)
    /\ ApplyToAttendance(a)
    /\ op' = [op EXCEPT ![c] = Idle]
    /\ UNCHANGED <<member, parted, filing>>

\* The process stops or the transaction rolls back (deadlock, timeout).
AbandonDecision(c) ==
    /\ op[c] # Idle
    /\ op' = [op EXCEPT ![c] = Idle]
    /\ UNCHANGED <<member, parted, filing, target, request, step, costs, link, day, corrections>>

-----------------------------------------------------------------------------
Init ==
    /\ member \in [Users -> SUBSET Teams]
    /\ filing = [t \in Targets |-> [pc |-> "none", approver |-> Nobody]]
    /\ target = [t \in Targets |-> "ABSENT"]
    /\ request = [t \in Targets |-> "ABSENT"]
    /\ step = [t \in Targets |-> [status |-> "ABSENT", approver |-> Nobody, actedBy |-> Nobody]]
    /\ costs = [t \in Targets |-> 0]
    /\ link = [t \in Targets |-> 0]
    /\ day = [d \in Days |-> NoTarget]
    /\ corrections = [d \in Days |-> 0]
    /\ op = [c \in Calls |-> Idle]
    /\ parted = {}

Organise == \E u \in Users, team \in Teams : AddMembers(u, team) \/ RemoveMember(u, team)

File(t) ==
    \/ CreateTarget(t)
    \/ ResolveApproverId(t)
    \/ ResolveApproverFails(t)
    \/ CreateSingleStepApproval(t)
    \/ FilingLost(t)

ActOnApproval(c) ==
    \/ \E t \in Targets, u \in Users, d \in Decision : OpenApproval(c, t, u, d)
    \/ AssertTeamOverlap(c)
    \/ BeginDecision(c)
    \/ CommitDecision(c)
    \/ AbandonDecision(c)

Requests == (\E t \in Targets : File(t)) \/ (\E c \in Calls : ActOnApproval(c))

Next == Organise \/ Requests

Spec == Init /\ [][Next]_vars


-----------------------------------------------------------------------------
\* Properties

\* The step, the request and the target row are three tables written by every
\* decision: in every reachable state they hold the same status, and a row that
\* never got its approval (no approver, crash while filing) is never decided.
RecordsAgree ==
    \A t \in Targets :
        /\ step[t].status = request[t]
        /\ request[t] # "ABSENT" => target[t] = request[t]
        /\ request[t] = "ABSENT" => target[t] \in {"ABSENT", "PENDING"}

\* Nobody decides their own request, and whoever decided it was a super admin
\* or the team lead it was assigned to, whatever raced with the decision.
DecidedByEligible ==
    \A t \in Targets :
        request[t] \in Decision =>
            /\ step[t].actedBy \in Users \ {Requester[t]}
            /\ \/ IsSuperAdmin(step[t].actedBy)
               \/ IsTeamLead(step[t].actedBy) /\ step[t].actedBy = step[t].approver

\* What an approval promises is there: an APPROVED expense names a cost row that
\* exists, the day of an APPROVED regularization holds the times of a decided
\* regularization of that day, with its CORRECTION event; and no such effect
\* exists for a row nobody decided.
EffectsMatchDecision ==
    \A t \in Targets :
        /\ target[t] = "APPROVED" /\ TypeOf[t] = "EXPENSE" => link[t] \in 1..costs[t]
        /\ target[t] = "APPROVED" /\ TypeOf[t] = "ATTENDANCE_REGULARIZATION" =>
               /\ corrections[DayOf[t]] > 0
               /\ day[DayOf[t]] \in {r \in Targets : target[r] \in Decision
                                                     /\ DayOf[r] = DayOf[t]}
        /\ target[t] \notin Decision => costs[t] = 0 /\ day[DayOf[t]] # t

\* A decided request with no execution of actOnApproval still open on it is
\* settled: nothing ever changes its status, its actor, or its costs again.
Settled(t) ==
    /\ request[t] \in Decision
    /\ \A c \in Calls : op[c] = Idle \/ op[c].target # t

SettledIsFinal ==
    [][\A t \in Targets :
         Settled(t) => /\ Settled(t)'
                       /\ UNCHANGED <<target[t], request[t], step[t], costs[t], link[t]>>]_vars

\* resolveApproverId and the checks of actOnApproval agree: every pending request
\* has somebody who may decide it, unless its requester or its approver has left
\* a team since (nobody resolves the approver again).
Decidable ==
    \A t \in Targets \ parted :
        request[t] = "PENDING" =>
            \E u \in Users \ {Requester[t]} :
                MayAct(u, t) /\ (IsSuperAdmin(u) \/ TeamOverlap(u, Requester[t]))

\* 'Approval request already completed': once decided, a request is not decided
\* again.  (Two executions that both read it PENDING refute this.)
CompletedIsFinal ==
    [][\A t \in Targets : request[t] \in Decision => request'[t] = request[t]]_vars

-----------------------------------------------------------------------------
\* The approval engine implements ApprovalRecord: its three tables move as one
\* record, and only an execution that found the record PENDING writes to it.
RecordOf(t) == [status |-> request[t], by |-> step[t].actedBy]
ClaimOf(c) ==
    IF op[c] = Idle THEN Idle
    ELSE [request |-> op[c].target, actor |-> op[c].actor, verdict |-> op[c].decision]

Record == INSTANCE ApprovalRecord
              WITH Requests <- Targets, Claims <- Calls, NoClaim <- Idle,
                   record <- [t \in Targets |-> RecordOf(t)],
                   claim <- [c \in Calls |-> ClaimOf(c)]

ImplementsRecord == Record!RSpec
=============================================================================
