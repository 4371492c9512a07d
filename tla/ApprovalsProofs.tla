--------------------------- MODULE ApprovalsProofs ---------------------------
(***************************************************************************)
(* Proofs about Approvals, for every set of users, teams, targets and      *)
(* concurrent executions.  Inductive is the inductive invariant: the       *)
(* safety properties need to know how far filing has come before an        *)
(* approval exists (FilingOrder), and what an execution in flight still    *)
(* carries from the checks it made before its transaction (InFlight).      *)
(***************************************************************************)
EXTENDS Approvals, Receipts, FiniteSetTheorems, TLAPS

FilingOrder ==
    \A t \in Targets :
        /\ filing[t].pc = "none" => target[t] = "ABSENT"
        /\ filing[t].pc # "none" => target[t] # "ABSENT"
        /\ filing[t].pc \in {"none", "resolving", "saving"} => request[t] = "ABSENT"
        /\ filing[t].pc = "saving" => filing[t].approver # Requester[t]
        /\ request[t] \in {"ABSENT", "PENDING"} => step[t].actedBy = Nobody

MayHaveActed(u, t) ==
    /\ u \in Users \ {Requester[t]}
    /\ IsSuperAdmin(u) \/ (IsTeamLead(u) /\ u = step[t].approver)

InFlight ==
    \A c \in Calls :
        op[c] # Idle => /\ request[op[c].target] # "ABSENT"
                        /\ MayHaveActed(op[c].actor, op[c].target)

Inductive ==
    /\ TypeOK
    /\ RecordsAgree
    /\ DecidedByEligible
    /\ FilingOrder
    /\ InFlight

-----------------------------------------------------------------------------
\* An execution in flight is a record of the declared shape: Idle is not.
LEMMA IdleIsNoAct == ASSUME NEW a \in Act PROVE a # Idle
BY DEF Act, Idle

LEMMA OpShape ==
    ASSUME TypeOK, NEW c \in Calls, op[c] # Idle
    PROVE  op[c] \in Act
BY DEF TypeOK

LEMMA IdlePc ==
    ASSUME TypeOK, NEW c \in Calls, op[c].pc \in {"assigned", "authorised", "inTx"}
    PROVE  op[c] \in Act /\ op[c] # Idle
<1>1. Idle.pc = "idle"
  BY DEF Idle
<1>2. op[c] # Idle
  BY <1>1
<1> QED
  BY <1>2, OpShape

\* Type correctness: every table keeps its columns.
LEMMA TypeStep == ASSUME TypeOK, [Next]_vars PROVE TypeOK'
<1> USE ConstantsAssumption
<1>1. ASSUME NEW u \in Users, NEW team \in Teams, AddMembers(u, team) \/ RemoveMember(u, team)
      PROVE TypeOK'
  BY <1>1 DEF TypeOK, AddMembers, RemoveMember
<1>2. ASSUME NEW t \in Targets, File(t) PROVE TypeOK'
  <2>1. CASE CreateTarget(t)
    BY <2>1 DEF TypeOK, CreateTarget, Filing, RowStatus, ApprovalStatus
  <2>2. CASE ResolveApproverId(t)
    BY <2>2 DEF TypeOK, ResolveApproverId, Filing, EligibleApprovers, TeamLeadsFor
  <2>3. CASE ResolveApproverFails(t)
    BY <2>3 DEF TypeOK, ResolveApproverFails, Filing
  <2>4. CASE CreateSingleStepApproval(t)
    BY <2>4 DEF TypeOK, CreateSingleStepApproval, Filing, Step, RowStatus, ApprovalStatus
  <2>5. CASE FilingLost(t)
    BY <2>5 DEF TypeOK, FilingLost, Filing
  <2> QED
    BY <1>2, <2>1, <2>2, <2>3, <2>4, <2>5 DEF File
<1>3. ASSUME NEW c \in Calls, ActOnApproval(c) PROVE TypeOK'
  <2>1. ASSUME NEW t \in Targets, NEW u \in Users, NEW d \in Decision, OpenApproval(c, t, u, d)
        PROVE TypeOK'
    BY <2>1 DEF TypeOK, OpenApproval, Act
  <2>2. CASE AssertTeamOverlap(c)
    BY <2>2, IdlePc DEF TypeOK, AssertTeamOverlap, Act
  <2>3. CASE BeginDecision(c)
    BY <2>3, IdlePc DEF TypeOK, BeginDecision, Act
  <2>4. CASE CommitDecision(c)
    <3>1. op[c] \in Act
      BY <2>4, IdlePc DEF CommitDecision
    <3>2. op[c].target \in Targets /\ op[c].actor \in Users /\ op[c].decision \in Decision
          /\ op[c].seen \in Nat /\ DayOf[op[c].target] \in Days
      BY <3>1 DEF Act
    <3>3. costs' \in [Targets -> Nat] /\ link' \in [Targets -> Nat]
      BY <2>4, <3>2 DEF CommitDecision, ApplyToExpense, TypeOK
    <3>4. day' \in [Days -> Targets \cup {NoTarget}] /\ corrections' \in [Days -> Nat]
      <4>1. CASE Approves(op[c], "ATTENDANCE_REGULARIZATION")
        BY <2>4, <3>2, <4>1 DEF CommitDecision, ApplyToAttendance, TypeOK
      <4>2. CASE ~Approves(op[c], "ATTENDANCE_REGULARIZATION")
        BY <2>4, <4>2 DEF CommitDecision, ApplyToAttendance, TypeOK
      <4> QED
        BY <4>1, <4>2
    <3>5. step' \in [Targets -> Step]
      <4>0. PICK k \in Step : k = step[op[c].target]
        BY <3>2 DEF TypeOK
      <4>1. PICK s : s = [k EXCEPT !.status = op[c].decision, !.actedBy = op[c].actor]
        OBVIOUS
      <4>2. step' = [step EXCEPT ![op[c].target] = s]
        BY <2>4, <4>0, <4>1 DEF CommitDecision, WriteStatuses
      <4>3. op[c].decision \in RowStatus
        BY <3>2 DEF RowStatus, ApprovalStatus
      <4>4. s \in Step
        BY ONLY <3>2, <4>0, <4>1, <4>3 DEF Step
      <4> QED
        BY <3>2, <4>2, <4>4 DEF TypeOK
    <3>6. request' \in [Targets -> RowStatus] /\ target' \in [Targets -> RowStatus]
      BY <2>4, <3>2 DEF CommitDecision, WriteStatuses, TypeOK, RowStatus, ApprovalStatus
    <3>7. op' \in [Calls -> Act \cup {Idle}]
      BY <2>4 DEF CommitDecision, WriteStatuses, TypeOK
    <3> QED
      BY <2>4, <3>3, <3>4, <3>5, <3>6, <3>7 DEF CommitDecision, WriteStatuses, TypeOK
  <2>5. CASE AbandonDecision(c)
    BY <2>5 DEF TypeOK, AbandonDecision
  <2> QED
    BY <1>3, <2>1, <2>2, <2>3, <2>4, <2>5 DEF ActOnApproval
<1>4. CASE UNCHANGED vars
  BY <1>4 DEF TypeOK, vars
<1> QED
  BY <1>1, <1>2, <1>3, <1>4 DEF Next, Organise, Requests

LEMMA InductiveInit == Init => Inductive
<1> SUFFICES ASSUME Init PROVE Inductive
  OBVIOUS
<1> USE ConstantsAssumption
<1>1. TypeOK
  BY DEF Init, TypeOK, Filing, Step, RowStatus, ApprovalStatus, Decision
<1>2. RecordsAgree /\ DecidedByEligible /\ FilingOrder
  BY DEF Init, RecordsAgree, DecidedByEligible, FilingOrder, Decision
<1>3. InFlight
  BY DEF Init, InFlight
<1> QED
  BY <1>1, <1>2, <1>3 DEF Inductive

LEMMA FilingStep ==
    ASSUME Inductive, TypeOK', NEW t \in Targets, File(t)
    PROVE  Inductive'
<1> USE ConstantsAssumption DEF Inductive
<1>1. CASE CreateTarget(t)
  <2> USE <1>1 DEF CreateTarget, TypeOK, Filing
  <2>1. RecordsAgree'
    BY DEF RecordsAgree, FilingOrder
  <2>2. DecidedByEligible' /\ InFlight'
    BY DEF DecidedByEligible, InFlight, MayHaveActed
  <2>3. FilingOrder'
    BY DEF FilingOrder
  <2> QED
    BY <2>1, <2>2, <2>3
<1>2. CASE ResolveApproverId(t)
  <2> USE <1>2 DEF ResolveApproverId, TypeOK, Filing
  <2>1. FilingOrder'
    BY DEF FilingOrder, EligibleApprovers, TeamLeadsFor
  <2> QED
    BY <2>1 DEF RecordsAgree, DecidedByEligible, InFlight, MayHaveActed
<1>3. CASE ResolveApproverFails(t) \/ FilingLost(t)
  <2> USE <1>3 DEF ResolveApproverFails, FilingLost, TypeOK, Filing
  <2>1. filing' = [filing EXCEPT ![t].pc = "ended"] /\ filing[t].pc # "none"
    OBVIOUS
  <2>2. FilingOrder'
    BY <2>1 DEF FilingOrder
  <2>3. RecordsAgree' /\ DecidedByEligible' /\ InFlight'
    BY DEF RecordsAgree, DecidedByEligible, InFlight, MayHaveActed
  <2> QED
    BY <2>2, <2>3
<1>4. CASE CreateSingleStepApproval(t)
  <2> USE <1>4 DEF CreateSingleStepApproval, TypeOK, Filing, Step
  <2>1. RecordsAgree'
    BY DEF RecordsAgree, FilingOrder
  <2>2. DecidedByEligible'
    BY DEF DecidedByEligible, Decision
  <2>3. FilingOrder'
    BY DEF FilingOrder
  <2>4. InFlight'
    <3> SUFFICES ASSUME NEW c \in Calls, op[c] # Idle
                 PROVE  /\ request'[op[c].target] # "ABSENT"
                        /\ MayHaveActed(op[c].actor, op[c].target)'
      BY DEF InFlight
    <3>1. op[c].target \in Targets /\ op[c].target # t
      BY OpShape DEF Act, InFlight
    <3> QED
      BY <3>1 DEF InFlight, MayHaveActed
  <2> QED
    BY <2>1, <2>2, <2>3, <2>4
<1> QED
  BY <1>1, <1>2, <1>3, <1>4 DEF File

LEMMA OpenStep ==
    ASSUME Inductive, TypeOK', NEW c \in Calls, NEW t \in Targets, NEW u \in Users,
           NEW d \in Decision, OpenApproval(c, t, u, d)
    PROVE  Inductive'
<1> USE ConstantsAssumption DEF Inductive, OpenApproval
<1>1. RecordsAgree' /\ DecidedByEligible' /\ FilingOrder'
  BY DEF RecordsAgree, DecidedByEligible, FilingOrder
<1>2. InFlight'
  BY DEF InFlight, MayHaveActed, MayAct, TypeOK
<1> QED
  BY <1>1, <1>2

\* The steps that only move an execution in flight along, or drop it.
LEMMA MoveStep ==
    ASSUME Inductive, TypeOK', NEW c \in Calls,
           AssertTeamOverlap(c) \/ BeginDecision(c) \/ AbandonDecision(c)
    PROVE  Inductive'
<1> USE ConstantsAssumption DEF Inductive, AssertTeamOverlap, BeginDecision, AbandonDecision
<1>1. RecordsAgree' /\ DecidedByEligible' /\ FilingOrder'
  BY DEF RecordsAgree, DecidedByEligible, FilingOrder
<1>2. op[c] \in Act /\ op[c] # Idle
  BY IdlePc, OpShape
<1>3. \/ op'[c] = Idle
      \/ op'[c].target = op[c].target /\ op'[c].actor = op[c].actor
  <2>1. CASE AssertTeamOverlap(c)
    BY <1>2, <2>1 DEF TypeOK, Act
  <2>2. CASE BeginDecision(c)
    BY <1>2, <2>2 DEF TypeOK, Act
  <2>3. CASE AbandonDecision(c)
    BY <2>3 DEF TypeOK
  <2> QED
    BY <2>1, <2>2, <2>3
<1>4. \A b \in Calls \ {c} : op'[b] = op[b]
  BY DEF TypeOK
<1>5. InFlight'
  BY <1>2, <1>3, <1>4 DEF InFlight, MayHaveActed
<1> QED
  BY <1>1, <1>5

LEMMA CommitStep ==
    ASSUME Inductive, TypeOK', NEW c \in Calls, CommitDecision(c)
    PROVE  Inductive'
<1> USE ConstantsAssumption DEF Inductive
<1> DEFINE a == op[c]
           r == op[c].target
<1>1. a \in Act /\ a # Idle
  BY IdlePc DEF CommitDecision
<1>2. r \in Targets /\ a.actor \in Users /\ a.decision \in Decision
  BY <1>1 DEF Act
<1>3. request[r] # "ABSENT" /\ MayHaveActed(a.actor, r)
  BY <1>1 DEF InFlight
<1>4. /\ step'[r].status = a.decision /\ step'[r].actedBy = a.actor
      /\ step'[r].approver = step[r].approver
      /\ request'[r] = a.decision /\ target'[r] = a.decision
  BY <1>2 DEF CommitDecision, WriteStatuses, TypeOK, Step
<1>5. \A t \in Targets \ {r} :
          step'[t] = step[t] /\ request'[t] = request[t] /\ target'[t] = target[t]
  BY <1>2 DEF CommitDecision, WriteStatuses, TypeOK
<1>6. filing' = filing /\ op' = [op EXCEPT ![c] = Idle]
  BY DEF CommitDecision
<1>7. RecordsAgree'
  BY <1>2, <1>4, <1>5 DEF RecordsAgree, Decision
<1>8. DecidedByEligible'
  BY <1>2, <1>3, <1>4, <1>5 DEF DecidedByEligible, MayHaveActed
<1>9. FilingOrder'
  BY <1>2, <1>3, <1>4, <1>5, <1>6 DEF FilingOrder, RecordsAgree, Decision
<1>10. InFlight'
  <2> SUFFICES ASSUME NEW b \in Calls, op'[b] # Idle
               PROVE  /\ request'[op'[b].target] # "ABSENT"
                      /\ MayHaveActed(op[b].actor, op[b].target)'
    BY DEF InFlight
  <2>1. op'[b] = op[b] /\ op[b] # Idle
    BY <1>6 DEF TypeOK
  <2>2. op[b].target \in Targets
    BY <2>1, OpShape DEF Act
  <2> QED
    BY <2>1, <2>2, <1>2, <1>4, <1>5 DEF InFlight, MayHaveActed, Decision
<1> QED
  BY <1>7, <1>8, <1>9, <1>10

LEMMA InductiveNext == Inductive /\ [Next]_vars => Inductive'
<1> SUFFICES ASSUME Inductive, [Next]_vars PROVE Inductive'
  OBVIOUS
<1>0. TypeOK'
  BY TypeStep DEF Inductive
<1>1. CASE Organise
  BY <1>0, <1>1 DEF Organise, AddMembers, RemoveMember, Inductive, RecordsAgree,
                    DecidedByEligible, FilingOrder, InFlight, MayHaveActed
<1>2. ASSUME NEW t \in Targets, File(t) PROVE Inductive'
  BY <1>0, <1>2, FilingStep
<1>3. ASSUME NEW c \in Calls, ActOnApproval(c) PROVE Inductive'
  BY <1>0, <1>3, OpenStep, MoveStep, CommitStep DEF ActOnApproval
<1>4. CASE UNCHANGED vars
  BY <1>0, <1>4 DEF vars, Inductive, RecordsAgree, DecidedByEligible, FilingOrder,
                    InFlight, MayHaveActed
<1> QED
  BY <1>1, <1>2, <1>3, <1>4 DEF Next, Requests

LEMMA InductiveAlways == Spec => []Inductive
BY InductiveInit, InductiveNext, PTL DEF Spec

-----------------------------------------------------------------------------
\* Every reachable state is well typed.
THEOREM TypeCorrect == Spec => []TypeOK
<1>1. Inductive => TypeOK
  BY DEF Inductive
<1> QED
  BY <1>1, InductiveAlways, PTL

\* The step, request and target rows of a filed request hold one status.
THEOREM RecordsAlwaysAgree == Spec => []RecordsAgree
<1>1. Inductive => RecordsAgree
  BY DEF Inductive
<1> QED
  BY <1>1, InductiveAlways, PTL

\* No request is decided by its requester, nor by anybody the checks exclude.
THEOREM AlwaysDecidedByEligible == Spec => []DecidedByEligible
<1>1. Inductive => DecidedByEligible
  BY DEF Inductive
<1> QED
  BY <1>1, InductiveAlways, PTL

\* A decided request on which no execution is open never changes again, nor do
\* its actor and its costs.
THEOREM SettledForever == Spec => SettledIsFinal
<1>1. Inductive /\ [Next]_vars =>
        \A t \in Targets :
            Settled(t) => /\ Settled(t)'
                          /\ UNCHANGED <<target[t], request[t], step[t], costs[t], link[t]>>
  <2> SUFFICES ASSUME Inductive, [Next]_vars, NEW t \in Targets, Settled(t)
               PROVE  /\ Settled(t)'
                      /\ UNCHANGED <<target[t], request[t], step[t], costs[t], link[t]>>
    OBVIOUS
  <2> USE ConstantsAssumption DEF Inductive
  <2>0. request[t] \in Decision /\ filing[t].pc = "ended"
    BY DEF Settled, FilingOrder, TypeOK, Filing, Decision
  <2>1. CASE Organise
    BY <2>1 DEF Organise, AddMembers, RemoveMember, Settled
  <2>2. ASSUME NEW s \in Targets, File(s)
        PROVE  /\ Settled(t)'
               /\ UNCHANGED <<target[t], request[t], step[t], costs[t], link[t]>>
    <3>1. s # t
      BY <2>0, <2>2 DEF File, CreateTarget, ResolveApproverId, ResolveApproverFails,
                        CreateSingleStepApproval, FilingLost
    <3> QED
      BY <2>2, <3>1 DEF File, CreateTarget, ResolveApproverId, ResolveApproverFails,
                        CreateSingleStepApproval, FilingLost, Settled, TypeOK
  <2>3. ASSUME NEW c \in Calls, ActOnApproval(c)
        PROVE  /\ Settled(t)'
               /\ UNCHANGED <<target[t], request[t], step[t], costs[t], link[t]>>
    <3>1. ASSUME NEW s \in Targets, NEW u \in Users, NEW d \in Decision, OpenApproval(c, s, u, d)
          PROVE  /\ Settled(t)'
                 /\ UNCHANGED <<target[t], request[t], step[t], costs[t], link[t]>>
      <4>1. s # t
        BY <2>0, <3>1 DEF OpenApproval, MayAct, Decision
      <4> QED
        BY <3>1, <4>1 DEF OpenApproval, Settled, TypeOK
    <3>2. CASE AssertTeamOverlap(c)
      BY <3>2, IdlePc DEF AssertTeamOverlap, Settled, TypeOK, Act
    <3>3. CASE BeginDecision(c)
      BY <3>3, IdlePc DEF BeginDecision, Settled, TypeOK, Act
    <3>4. CASE AbandonDecision(c)
      BY <3>4 DEF AbandonDecision, Settled, TypeOK
    <3>5. CASE CommitDecision(c)
      <4>1. op[c] # Idle /\ op[c].target \in Targets /\ op[c].target # t
        BY <3>5, IdlePc DEF CommitDecision, Settled, Act
      <4>2. op' = [op EXCEPT ![c] = Idle]
        BY <3>5 DEF CommitDecision
      <4>3. UNCHANGED <<target[t], request[t], step[t]>>
        BY <3>5, <4>1 DEF CommitDecision, WriteStatuses, TypeOK
      <4>4. UNCHANGED <<costs[t], link[t]>>
        BY <3>5, <4>1 DEF CommitDecision, ApplyToExpense, TypeOK
      <4>5. Settled(t)'
        BY <4>2, <4>3 DEF Settled, TypeOK
      <4> QED
        BY <4>3, <4>4, <4>5
    <3> QED
      BY <2>3, <3>1, <3>2, <3>3, <3>4, <3>5 DEF ActOnApproval
  <2>4. CASE UNCHANGED vars
    BY <2>4 DEF vars, Settled
  <2> QED
    BY <2>1, <2>2, <2>3, <2>4 DEF Next, Requests
<1> QED
  BY <1>1, InductiveAlways, PTL DEF Spec, SettledIsFinal

-----------------------------------------------------------------------------
\* What the side effects of an approval rest on: an execution in flight has
\* read a cost number that exists, and links only ever name existing costs.
EffectsOfTarget(t) ==
    /\ link[t] <= costs[t]
    /\ target[t] \notin Decision => costs[t] = 0
    /\ target[t] = "APPROVED" /\ TypeOf[t] = "EXPENSE" => link[t] # 0
    /\ target[t] = "APPROVED" /\ TypeOf[t] = "ATTENDANCE_REGULARIZATION" =>
           corrections[DayOf[t]] # 0 /\ day[DayOf[t]] # NoTarget

EffectsOfDay(d) == day[d] # NoTarget => target[day[d]] \in Decision /\ DayOf[day[d]] = d

SeenExists(c) == op[c] # Idle => op[c].seen <= costs[op[c].target]

Effects ==
    /\ \A t \in Targets : EffectsOfTarget(t)
    /\ \A d \in Days : EffectsOfDay(d)
    /\ \A c \in Calls : SeenExists(c)

LEMMA EffectsCommit ==
    ASSUME Inductive, Inductive', Effects, NEW c \in Calls, CommitDecision(c)
    PROVE  Effects'
<1> USE ConstantsAssumption DEF Inductive
<1>1. op[c] \in Act /\ op[c] # Idle
  BY IdlePc DEF CommitDecision
<1>2. PICK r \in Targets : r = op[c].target
  BY <1>1 DEF Act
<1>3. PICK d \in Decision : d = op[c].decision
  BY <1>1 DEF Act
<1>4. /\ \A t \in Targets \ {r} : target'[t] = target[t]
      /\ target'[r] = d /\ op' = [op EXCEPT ![c] = Idle]
  BY <1>2, <1>3 DEF CommitDecision, WriteStatuses, TypeOK
<1>5. op[c].seen \in Nat /\ op[c].seen <= costs[r]
  BY <1>1, <1>2 DEF Act, Effects, SeenExists
<1>6. /\ \A t \in Targets \ {r} : costs'[t] = costs[t] /\ link'[t] = link[t]
      /\ costs'[r] >= costs[r] /\ link'[r] <= costs'[r]
      /\ d = "APPROVED" /\ TypeOf[r] = "EXPENSE" => link'[r] # 0
  <2>1. CASE Approves(op[c], "EXPENSE")
    BY <1>2, <1>5, <2>1 DEF CommitDecision, ApplyToExpense, TypeOK
  <2>2. CASE ~Approves(op[c], "EXPENSE")
    <3>1. costs' = costs /\ link' = link /\ ~(d = "APPROVED" /\ TypeOf[r] = "EXPENSE")
      BY <1>2, <1>3, <2>2 DEF CommitDecision, ApplyToExpense, Approves
    <3> QED
      BY <3>1, <1>2 DEF Effects, EffectsOfTarget, TypeOK
  <2> QED
    BY <2>1, <2>2
<1>7. \/ /\ d = "APPROVED" /\ TypeOf[r] = "ATTENDANCE_REGULARIZATION"
         /\ day' = [day EXCEPT ![DayOf[r]] = r]
         /\ corrections' = [corrections EXCEPT ![DayOf[r]] = @ + 1]
      \/ /\ ~(d = "APPROVED" /\ TypeOf[r] = "ATTENDANCE_REGULARIZATION")
         /\ UNCHANGED <<day, corrections>>
  BY <1>2, <1>3 DEF CommitDecision, ApplyToAttendance, Approves
<1>8. ASSUME NEW e \in Days PROVE EffectsOfDay(e)'
  <2>1. day'[e] # NoTarget => day'[e] \in Targets
    BY DEF TypeOK
  <2> QED
    BY <2>1, <1>2, <1>3, <1>4, <1>7 DEF Effects, EffectsOfDay, TypeOK
<1>9. ASSUME NEW t \in Targets PROVE EffectsOfTarget(t)'
  <2>1. DayOf[t] \in Days /\ DayOf[r] \in Days /\ r # NoTarget
    BY <1>2
  <2>2. corrections[DayOf[t]] # 0 => corrections'[DayOf[t]] # 0
    BY <2>1, <1>7 DEF TypeOK
  <2>3. day[DayOf[t]] # NoTarget => day'[DayOf[t]] # NoTarget
    BY <2>1, <1>7 DEF TypeOK
  <2>4. CASE t = r
    <3>1. TypeOf[r] = "ATTENDANCE_REGULARIZATION" /\ d = "APPROVED" =>
            corrections'[DayOf[r]] # 0 /\ day'[DayOf[r]] # NoTarget
      BY <2>1, <1>7 DEF TypeOK
    <3> QED
      BY <2>4, <3>1, <1>4, <1>6 DEF EffectsOfTarget
  <2>5. CASE t # r
    BY <2>2, <2>3, <2>5, <1>4, <1>6 DEF Effects, EffectsOfTarget
  <2> QED
    BY <2>4, <2>5
<1>10. ASSUME NEW b \in Calls PROVE SeenExists(b)'
  <2>1. CASE op'[b] = Idle
    BY <2>1 DEF SeenExists
  <2>2. CASE op'[b] # Idle
    <3>1. op'[b] = op[b] /\ op[b] \in Act
      BY <2>2, <1>4, OpShape DEF TypeOK
    <3>2. PICK s \in Targets : s = op[b].target
      BY <3>1 DEF Act
    <3>3. op[b].seen \in Nat /\ op[b].seen <= costs[s] /\ costs[s] <= costs'[s]
      BY <2>2, <3>1, <3>2, <1>6 DEF Act, Effects, SeenExists, TypeOK
    <3> QED
      BY <3>1, <3>2, <3>3 DEF SeenExists, TypeOK
  <2> QED
    BY <2>1, <2>2
<1> QED
  BY <1>8, <1>9, <1>10 DEF Effects

LEMMA EffectsNext == Inductive /\ Effects /\ [Next]_vars => Effects'
<1> SUFFICES ASSUME Inductive, Effects, [Next]_vars PROVE Effects'
  OBVIOUS
<1> USE ConstantsAssumption DEF Inductive
<1>0. Inductive'
  BY InductiveNext
<1>1. CASE Organise \/ UNCHANGED vars
  BY <1>1 DEF Organise, AddMembers, RemoveMember, vars, Effects, EffectsOfTarget,
              EffectsOfDay, SeenExists
<1>2. ASSUME NEW s \in Targets, File(s) PROVE Effects'
  <2>1. UNCHANGED <<costs, link, day, corrections, op>>
    BY <1>2 DEF File, CreateTarget, ResolveApproverId, ResolveApproverFails,
                CreateSingleStepApproval, FilingLost
  <2>2. /\ \A t \in Targets \ {s} : target'[t] = target[t]
        /\ \/ target'[s] = target[s]
           \/ target[s] = "ABSENT" /\ target'[s] = "PENDING"
    <3>1. CASE CreateTarget(s)
      <4>1. target[s] = "ABSENT"
        BY <3>1 DEF CreateTarget, FilingOrder
      <4>2. target' = [target EXCEPT ![s] = "PENDING"] /\ target \in [Targets -> RowStatus]
        BY <3>1 DEF CreateTarget, TypeOK
      <4> QED
        BY <4>1, <4>2
    <3>2. CASE ~CreateTarget(s)
      <4>1. target' = target
        BY <1>2, <3>2 DEF File, ResolveApproverId, ResolveApproverFails,
                          CreateSingleStepApproval, FilingLost
      <4> QED
        BY <4>1
    <3> QED
      BY <3>1, <3>2
  <2>3. ASSUME NEW t \in Targets PROVE EffectsOfTarget(t)'
    BY <2>1, <2>2 DEF Effects, EffectsOfTarget, Decision
  <2>4. ASSUME NEW d \in Days PROVE EffectsOfDay(d)'
    BY <2>1, <2>2 DEF Effects, EffectsOfDay, Decision, TypeOK
  <2>5. ASSUME NEW c \in Calls PROVE SeenExists(c)'
    BY <2>1 DEF Effects, SeenExists
  <2> QED
    BY <2>3, <2>4, <2>5 DEF Effects
<1>3. ASSUME NEW c \in Calls, ActOnApproval(c), ~CommitDecision(c) PROVE Effects'
  <2>1. UNCHANGED <<target, costs, link, day, corrections>>
    BY <1>3 DEF ActOnApproval, OpenApproval, AssertTeamOverlap, BeginDecision, AbandonDecision
  <2>2. \A b \in Calls \ {c} : op'[b] = op[b]
    BY <1>3 DEF ActOnApproval, OpenApproval, AssertTeamOverlap, BeginDecision,
                AbandonDecision, TypeOK
  <2>3. SeenExists(c)'
    <3>1. ASSUME NEW t \in Targets, NEW u \in Users, NEW d \in Decision, OpenApproval(c, t, u, d)
          PROVE  SeenExists(c)'
      BY <3>1 DEF OpenApproval, SeenExists, TypeOK
    <3>2. CASE AssertTeamOverlap(c)
      BY <3>2, IdlePc DEF AssertTeamOverlap, Effects, SeenExists, TypeOK, Act
    <3>3. CASE BeginDecision(c)
      BY <3>3, IdlePc DEF BeginDecision, Effects, SeenExists, EffectsOfTarget, TypeOK, Act
    <3>4. CASE AbandonDecision(c)
      BY <3>4 DEF AbandonDecision, SeenExists, TypeOK
    <3> QED
      BY <1>3, <3>1, <3>2, <3>3, <3>4 DEF ActOnApproval
  <2>4. \A b \in Calls : SeenExists(b)'
    BY <2>1, <2>2, <2>3 DEF Effects, SeenExists
  <2> QED
    BY <2>1, <2>4 DEF Effects, EffectsOfTarget, EffectsOfDay
<1>4. ASSUME NEW c \in Calls, CommitDecision(c) PROVE Effects'
  BY <1>0, <1>4, EffectsCommit
<1> QED
  BY <1>1, <1>2, <1>3, <1>4 DEF Next, Requests

\* What an approval promises has been done, and nothing is done for a request
\* that nobody decided.
THEOREM EffectsAlwaysMatch == Spec => []EffectsMatchDecision
<1>1. Init => Effects
  BY ConstantsAssumption DEF Init, Effects, EffectsOfTarget, EffectsOfDay, SeenExists, Decision
<1>2. Inductive /\ Effects => EffectsMatchDecision
  <2> SUFFICES ASSUME Inductive, Effects PROVE EffectsMatchDecision
    OBVIOUS
  <2> USE ConstantsAssumption DEF Inductive, TypeOK
  <2>1. ASSUME NEW t \in Targets PROVE EffectsOfTarget(t) /\ EffectsOfDay(DayOf[t])
    BY DEF Effects
  <2> QED
    BY <2>1 DEF EffectsMatchDecision, EffectsOfTarget, EffectsOfDay
<1> QED
  BY <1>1, <1>2, EffectsNext, InductiveAlways, PTL DEF Spec

-----------------------------------------------------------------------------
\* Who has been resolved for a request, and may still decide it unless he or the
\* requester has left a team: a super admin, or a lead with a team in common.
Assigned ==
    \A t \in Targets :
        filing[t].pc = "saving" \/ request[t] = "PENDING" =>
            /\ filing[t].approver \in Users \ {Requester[t]}
            /\ \/ IsSuperAdmin(filing[t].approver)
               \/ /\ "TEAM_LEAD" \in RoleOf[filing[t].approver]
                  /\ t \in parted \/ TeamOverlap(filing[t].approver, Requester[t])
            /\ request[t] = "PENDING" => step[t].approver = filing[t].approver

LEMMA AssignedNext == Inductive /\ Assigned /\ [Next]_vars => Assigned'
<1> SUFFICES ASSUME Inductive, Assigned, [Next]_vars PROVE Assigned'
  OBVIOUS
<1> USE ConstantsAssumption DEF Inductive
<1>0. TypeOK'
  BY InductiveNext
<1>1. ASSUME NEW u \in Users, NEW team \in Teams, AddMembers(u, team) PROVE Assigned'
  <2>1. \A v \in Users : member[v] \subseteq member'[v]
    BY <1>1 DEF AddMembers, TypeOK
  <2> QED
    BY <1>1, <2>1 DEF AddMembers, Assigned, TeamOverlap
<1>2. ASSUME NEW u \in Users, NEW team \in Teams, RemoveMember(u, team) PROVE Assigned'
  <2>1. UNCHANGED <<filing, request, step>> /\ \A v \in Users \ {u} : member'[v] = member[v]
    BY <1>2 DEF RemoveMember, TypeOK
  <2>2. ASSUME NEW t \in Targets, filing[t].approver # Nobody
        PROVE  \/ t \in parted'
               \/ t \notin parted /\ u \notin {Requester[t], filing[t].approver}
    BY <1>2, <2>2 DEF RemoveMember
  <2>3. parted \subseteq parted'
    BY <1>2 DEF RemoveMember
  <2> QED
    BY <2>1, <2>2, <2>3 DEF Assigned, TeamOverlap
<1>3. ASSUME NEW s \in Targets, File(s) PROVE Assigned'
  <2>0. UNCHANGED <<member, parted>> /\ \A t \in Targets \ {s} :
           filing'[t] = filing[t] /\ request'[t] = request[t] /\ step'[t] = step[t]
    BY <1>3 DEF File, CreateTarget, ResolveApproverId, ResolveApproverFails,
                CreateSingleStepApproval, FilingLost, TypeOK
  <2>1. CASE CreateTarget(s)
    <3>1. filing'[s].pc = "resolving" /\ request'[s] = "ABSENT"
      BY <2>1 DEF CreateTarget, TypeOK, FilingOrder
    <3> QED
      BY <2>0, <3>1 DEF Assigned, TeamOverlap
  <2>2. CASE ResolveApproverId(s)
    <3>1. /\ filing'[s].approver \in EligibleApprovers(Requester[s]) /\ request'[s] = "ABSENT"
      BY <2>2 DEF ResolveApproverId, TypeOK, FilingOrder
    <3>2. \/ IsSuperAdmin(filing'[s].approver)
          \/ /\ "TEAM_LEAD" \in RoleOf[filing'[s].approver]
             /\ TeamOverlap(filing'[s].approver, Requester[s])
      BY <3>1 DEF EligibleApprovers, TeamLeadsFor, TeamOverlap
    <3>3. filing'[s].approver \in Users \ {Requester[s]}
      BY <3>1 DEF EligibleApprovers, TeamLeadsFor
    <3> QED
      BY <2>0, <3>1, <3>2, <3>3 DEF Assigned, TeamOverlap
  <2>3. CASE ResolveApproverFails(s) \/ FilingLost(s)
    <3>1. filing'[s].pc = "ended" /\ filing'[s].approver = filing[s].approver
          /\ request'[s] = request[s] /\ step'[s] = step[s]
      BY <2>3 DEF ResolveApproverFails, FilingLost, TypeOK, Filing
    <3> QED
      BY <2>0, <3>1 DEF Assigned, TeamOverlap
  <2>4. CASE CreateSingleStepApproval(s)
    <3>1. filing[s].pc = "saving" /\ filing'[s].approver = filing[s].approver
          /\ step'[s].approver = filing[s].approver
      BY <2>4 DEF CreateSingleStepApproval, TypeOK, Filing, Step
    <3> QED
      BY <2>0, <3>1 DEF Assigned, TeamOverlap
  <2> QED
    BY <1>3, <2>1, <2>2, <2>3, <2>4 DEF File
<1>4. ASSUME NEW c \in Calls, ActOnApproval(c) PROVE Assigned'
  <2>1. CASE CommitDecision(c)
    <3>1. op[c].target \in Targets /\ op[c].decision \in Decision
      BY <2>1, IdlePc DEF CommitDecision, Act
    <3>2. UNCHANGED <<member, parted, filing>>
          /\ request' = [request EXCEPT ![op[c].target] = op[c].decision]
          /\ \A t \in Targets : step'[t].approver = step[t].approver
      BY <2>1, <3>1 DEF CommitDecision, WriteStatuses, TypeOK, Step
    <3>3. \A t \in Targets : request'[t] = "PENDING" => request[t] = "PENDING"
      BY <3>1, <3>2 DEF Decision, TypeOK
    <3> QED
      BY <3>2, <3>3 DEF Assigned, TeamOverlap
  <2>2. CASE ~CommitDecision(c)
    <3>1. UNCHANGED <<member, parted, filing, request, step>>
      BY <1>4, <2>2 DEF ActOnApproval, OpenApproval, AssertTeamOverlap, BeginDecision,
                        AbandonDecision
    <3> QED
      BY <3>1 DEF Assigned, TeamOverlap
  <2> QED
    BY <2>1, <2>2
<1>5. CASE UNCHANGED vars
  BY <1>5 DEF vars, Assigned, TeamOverlap
<1> QED
  BY <1>1, <1>2, <1>3, <1>4, <1>5 DEF Next, Organise, Requests

\* resolveApproverId resolves nobody whom actOnApproval would turn away: every
\* pending request can be decided, unless somebody has left a team since.
THEOREM AlwaysDecidable == Spec => []Decidable
<1>1. Init => Assigned
  BY DEF Init, Assigned
<1>2. Inductive /\ Assigned => Decidable
  <2> SUFFICES ASSUME Inductive, Assigned, NEW t \in Targets \ parted, request[t] = "PENDING"
               PROVE  \E u \in Users \ {Requester[t]} :
                          MayAct(u, t) /\ (IsSuperAdmin(u) \/ TeamOverlap(u, Requester[t]))
    BY DEF Decidable
  <2> DEFINE a == filing[t].approver
  <2>1. a \in Users \ {Requester[t]} /\ step[t].approver = a
    BY DEF Assigned
  <2>2. step[t].status = "PENDING"
    BY DEF Inductive, RecordsAgree
  <2>3. IsSuperAdmin(a) \/ (IsTeamLead(a) /\ TeamOverlap(a, Requester[t]))
    BY DEF Assigned, IsTeamLead
  <2>4. MayAct(a, t)
    BY <2>1, <2>2, <2>3 DEF MayAct
  <2> QED
    BY <2>1, <2>3, <2>4
<1> QED
  BY <1>1, <1>2, AssignedNext, InductiveAlways, PTL DEF Spec

-----------------------------------------------------------------------------
\* The approval engine implements ApprovalRecord.
THEOREM ApprovalsImplementRecord == Spec => ImplementsRecord
<1> USE ConstantsAssumption
<1>1. Init => Record!RInit
  BY DEF Init, Record!RInit, RecordOf, ClaimOf
<1>2. Inductive /\ [Next]_vars =>
        [Record!RNext]_<<[t \in Targets |-> RecordOf(t)], [c \in Calls |-> ClaimOf(c)]>>
  <2> DEFINE rec == [t \in Targets |-> RecordOf(t)]
             clm == [c \in Calls |-> ClaimOf(c)]
  <2> SUFFICES ASSUME Inductive, [Next]_vars
               PROVE  Record!RNext \/ (rec' = rec /\ clm' = clm)
    OBVIOUS
  <2> USE DEF Inductive
  <2>1. CASE UNCHANGED vars \/ Organise
    BY <2>1 DEF vars, Organise, AddMembers, RemoveMember, RecordOf, ClaimOf
  <2>2. ASSUME NEW s \in Targets, File(s)
        PROVE  Record!RNext \/ (rec' = rec /\ clm' = clm)
    <3>1. CASE CreateSingleStepApproval(s)
      <4>1. clm' = clm
        BY <3>1 DEF CreateSingleStepApproval, ClaimOf
      <4>2. rec[s].status = "ABSENT"
        BY <3>1 DEF CreateSingleStepApproval, RecordOf
      <4>3. rec' = [rec EXCEPT ![s] = [status |-> "PENDING", by |-> Nobody]]
        BY <3>1 DEF CreateSingleStepApproval, RecordOf, TypeOK, Step
      <4> QED
        BY <4>1, <4>2, <4>3 DEF Record!RNext, Record!Submit
    <3>2. CASE ~CreateSingleStepApproval(s)
      BY <2>2, <3>2 DEF File, CreateTarget, ResolveApproverId, ResolveApproverFails,
                        FilingLost, RecordOf, ClaimOf
    <3> QED
      BY <3>1, <3>2
  <2>3. ASSUME NEW c \in Calls, ActOnApproval(c)
        PROVE  Record!RNext \/ (rec' = rec /\ clm' = clm)
    <3>1. ASSUME NEW s \in Targets, NEW u \in Users, NEW d \in Decision, OpenApproval(c, s, u, d)
          PROVE  Record!RNext
      <4>1. /\ clm[c] = Idle /\ rec[s].status = "PENDING" /\ u # Requester[s] /\ rec' = rec
        BY <3>1 DEF OpenApproval, MayAct, RecordOf, ClaimOf
      <4>2. clm' = [clm EXCEPT ![c] = [request |-> s, actor |-> u, verdict |-> d]]
        BY <3>1 DEF OpenApproval, ClaimOf, TypeOK, Idle
      <4> QED
        BY <4>1, <4>2 DEF Record!RNext, Record!Stake, Record!Verdict, Decision
    <3>2. CASE AbandonDecision(c)
      <4>1. clm[c] # Idle
        BY <3>2 DEF AbandonDecision, ClaimOf, Idle
      <4>2. rec' = rec /\ clm' = [clm EXCEPT ![c] = Idle]
        BY <3>2 DEF AbandonDecision, ClaimOf, RecordOf, TypeOK
      <4> QED
        BY <4>1, <4>2 DEF Record!RNext, Record!Drop
    <3>3. CASE AssertTeamOverlap(c) \/ BeginDecision(c)
      <4>1. op[c] \in Act /\ op[c] # Idle
        BY <3>3, IdlePc DEF AssertTeamOverlap, BeginDecision
      <4>2. rec' = rec
        BY <3>3 DEF AssertTeamOverlap, BeginDecision, RecordOf
      <4>3. CASE op'[c] = Idle
        <5>1. clm[c] # Idle
          BY <4>1 DEF ClaimOf, Idle
        <5>2. clm' = [clm EXCEPT ![c] = Idle]
          BY <3>3, <4>3 DEF AssertTeamOverlap, BeginDecision, ClaimOf, TypeOK
        <5> QED
          BY <4>2, <5>1, <5>2 DEF Record!RNext, Record!Drop
      <4>4. CASE op'[c] # Idle
        <5>1. clm' = clm
          <6>1. /\ op'[c].target = op[c].target /\ op'[c].actor = op[c].actor
                /\ op'[c].decision = op[c].decision
            <7>1. CASE AssertTeamOverlap(c)
              BY <7>1, <4>1, <4>4 DEF AssertTeamOverlap, TypeOK, Act
            <7>2. CASE BeginDecision(c)
              BY <7>2, <4>1 DEF BeginDecision, TypeOK, Act
            <7> QED
              BY <3>3, <7>1, <7>2
          <6>2. \A b \in Calls \ {c} : op'[b] = op[b]
            BY <3>3 DEF AssertTeamOverlap, BeginDecision, TypeOK
          <6> QED
            BY <4>1, <4>4, <6>1, <6>2 DEF ClaimOf
        <5> QED
          BY <4>2, <5>1
      <4> QED
        BY <4>3, <4>4
    <3>4. CASE CommitDecision(c)
      <4>1. op[c] \in Act /\ op[c] # Idle
        BY <3>4, IdlePc DEF CommitDecision
      <4>2. clm[c] = [request |-> op[c].target, actor |-> op[c].actor,
                      verdict |-> op[c].decision]
        BY <4>1 DEF ClaimOf
      <4>3. clm[c] # Idle
        BY <4>2 DEF Idle
      <4>4. clm' = [clm EXCEPT ![c] = Idle]
        BY <3>4 DEF CommitDecision, ClaimOf, TypeOK
      <4>5. op[c].target \in Targets
        BY <4>1 DEF Act
      <4>6. rec' = [rec EXCEPT ![clm[c].request] =
                        [status |-> clm[c].verdict, by |-> clm[c].actor]]
        <5>1. PICK r \in Targets : r = op[c].target
          BY <4>5
        <5>2. request'[r] = op[c].decision /\ step'[r].actedBy = op[c].actor
          BY <3>4, <5>1 DEF CommitDecision, WriteStatuses, TypeOK, Step
        <5>3. \A t \in Targets \ {r} : request'[t] = request[t] /\ step'[t] = step[t]
          BY <3>4, <5>1 DEF CommitDecision, WriteStatuses, TypeOK
        <5>4. RecordOf(r)' = [status |-> op[c].decision, by |-> op[c].actor]
          BY <5>2 DEF RecordOf
        <5>5. \A t \in Targets \ {r} : RecordOf(t)' = RecordOf(t)
          BY <5>3 DEF RecordOf
        <5>6. /\ clm[c].request = r /\ clm[c].verdict = op[c].decision
              /\ clm[c].actor = op[c].actor
          BY <4>2, <5>1
        <5> HIDE DEF clm
        <5> QED
          BY <5>4, <5>5, <5>6
      <4> QED
        BY <4>3, <4>4, <4>6 DEF Record!RNext, Record!Resolve
    <3> QED
      BY <2>3, <3>1, <3>2, <3>3, <3>4 DEF ActOnApproval
  <2> QED
    BY <2>1, <2>2, <2>3 DEF Next, Requests
<1> QED
  BY <1>1, <1>2, InductiveAlways, PTL DEF Spec, ImplementsRecord, Record!RSpec
-----------------------------------------------------------------------------
(***************************************************************************)
(* Receipts.  Whoever holds an object, an attachment or a confirmation in  *)
(* flight was granted its address (Owned); the receipt of an expense, and  *)
(* of a request about to insert one, is an attachment of its owner that    *)
(* was uploaded for an expense, and a link in flight knows the expense it  *)
(* is for (Named); a request has met a cap, of those it could read, that   *)
(* its amount is within (Capped).                                          *)
(***************************************************************************)
Owned ==
    /\ \A k \in Key : object[k] # None => [by |-> object[k], key |-> k] \in granted
    /\ \A c \in Call : call[c].pc = "confirm" =>
          [by |-> call[c].by, key |-> call[c].key] \in granted /\ object[call[c].key] # None
    /\ \A a \in Attachment : attachment[a].exists =>
          /\ [by |-> attachment[a].uploader, key |-> attachment[a].key] \in granted
          /\ object[attachment[a].key] # None

Named ==
    /\ \A e \in Filed : expense[e].receipt # None => ReceiptOf(expense[e].owner, expense[e].receipt)
    /\ \A c \in Call : call[c].pc = "insert" /\ call[c].receipt # None =>
                          ReceiptOf(call[c].by, call[c].receipt)
    /\ \A c \in Call : call[c].pc = "link" => call[c].expense \in FiledWith(call[c].receipt)
    /\ linked \subseteq Filed

Capped ==
    /\ \A c \in Call : call[c].pc = "reads" =>
          /\ policy \in call[c].had
          /\ "policy" \notin call[c].todo => call[c].cap \in call[c].had
          /\ "category" \notin call[c].todo => category.exists
    /\ \A c \in Call : call[c].pc = "insert" =>
          category.exists /\ \E cap \in call[c].had : Within(call[c].amount, cap)
    /\ Filed # {} => category.exists

ReceiptsInv ==
    ReceiptsTypeOK /\ Owned /\ Named /\ Capped /\ LinkTellsExpense /\ FiledWithinCap

LEMMA CallShape ==
    ASSUME NEW x \in CallRecord
    PROVE  /\ x.pc \in {"none", "reads", "insert", "link", "confirm"}
           /\ x.pc = "none" => x = NoCall
           /\ x.pc \in {"reads", "insert"} => x \in Spending
           /\ x.pc = "link" => x \in Linking
           /\ x.pc = "confirm" => x \in Confirming
BY DEF CallRecord, NoCall, Spending, Linking, Confirming

LEMMA RowShape ==
    /\ \A x \in AttachmentRow : x.exists =>
          x \in [exists: {TRUE}, uploader: User, key: Key, entity: Expense \cup {None}]
    /\ \A x \in ExpenseRow : x.exists =>
          x \in [exists: {TRUE}, owner: User, amount: Amount, receipt: Attachment \cup {None},
                 had: SUBSET (Cap \cup {None})]
<1>1. ~NoAttachment.exists /\ ~NoExpense.exists
  BY DEF NoAttachment, NoExpense
<1> QED
  BY <1>1 DEF AttachmentRow, ExpenseRow

LEMMA ExpenseShape ==
    ASSUME ReceiptsTypeOK, NEW e \in Filed
    PROVE  /\ expense[e].owner \in User
           /\ expense[e].receipt # None => expense[e].receipt \in Attachment
<1>1. expense[e] \in ExpenseRow /\ expense[e].exists
  BY DEF ReceiptsTypeOK, Filed
<1>2. expense[e] \in [exists: {TRUE}, owner: User, amount: Amount, receipt: Attachment \cup {None},
                      had: SUBSET (Cap \cup {None})]
  BY <1>1, RowShape
<1> QED
  BY <1>2

\* One request moves on and the others stay where they are.
LEMMA CallMoves ==
    ASSUME ReceiptsTypeOK, NEW c \in Call, NEW x, call' = [call EXCEPT ![c] = x]
    PROVE  /\ call'[c] = x
           /\ \A d \in Call \ {c} : call'[d] = call[d]
           /\ x \in CallRecord => call' \in [Call -> CallRecord]
BY DEF ReceiptsTypeOK

\* The row an insertion takes was free.
LEMMA NewRowIsFree ==
    ASSUME NEW rows, \E r \in DOMAIN rows : ~rows[r].exists
    PROVE  NewRow(rows) \in DOMAIN rows /\ ~rows[NewRow(rows)].exists
BY DEF NewRow

LEMMA OwnedFrame ==
    ASSUME ReceiptsTypeOK, ReceiptsTypeOK', Owned, UNCHANGED <<object, attachment>>, granted \subseteq granted',
           \A d \in Call : call'[d].pc = "confirm" => call'[d] = call[d]
    PROVE  Owned'
BY DEF Owned

LEMMA NamedFrame ==
    ASSUME Named, UNCHANGED <<attachment, expense, linked>>,
           \A d \in Call : call'[d].pc \in {"insert", "link"} => call'[d] = call[d]
    PROVE  Named'
BY DEF Named, Filed, FiledWith, ReceiptOf

LEMMA CappedFrame ==
    ASSUME Capped, UNCHANGED <<category, policy, expense>>,
           \A d \in Call : call'[d].pc \in {"reads", "insert"} => call'[d] = call[d]
    PROVE  Capped'
BY DEF Capped, Filed, Within

LEMMA LinkFrame ==
    ASSUME LinkTellsExpense, UNCHANGED <<attachment, expense, linked, stopped>>,
           \A d \in Call : call[d].pc = "link" => call'[d] = call[d]
    PROVE  LinkTellsExpense'
BY DEF LinkTellsExpense, Filed, FiledWith

LEMMA WithinFrame ==
    ASSUME FiledWithinCap, UNCHANGED expense, Filed = {} \/ UNCHANGED category
    PROVE  FiledWithinCap'
BY DEF FiledWithinCap, Filed, Within

-----------------------------------------------------------------------------
LEMMA OrganiseReceipts == ReceiptsInv /\ OrganiseExpenses => ReceiptsInv'
<1> SUFFICES ASSUME ReceiptsInv, OrganiseExpenses PROVE ReceiptsInv'
  OBVIOUS
<1> USE DEF ReceiptsInv
<1>1. CASE DeleteProject \/ Tick
  <2>1. ReceiptsTypeOK'
    BY <1>1 DEF ReceiptsTypeOK, DeleteProject, Tick, store, history
  <2>2. UNCHANGED <<category, policy, store, attachment, expense, call, history>>
    BY <1>1 DEF DeleteProject, Tick
  <2> QED
    BY <2>1, <2>2, OwnedFrame, NamedFrame, CappedFrame, LinkFrame, WithinFrame DEF store, history
<1>2. ASSUME NEW u \in User, NEW x \in Team, ChangeTeam(u, x) PROVE ReceiptsInv'
  <2>1. ReceiptsTypeOK'
    BY <1>2 DEF ReceiptsTypeOK, ChangeTeam, store, history
  <2>2. UNCHANGED <<category, policy, store, attachment, expense, call, history>>
    BY <1>2 DEF ChangeTeam
  <2> QED
    BY <2>1, <2>2, OwnedFrame, NamedFrame, CappedFrame, LinkFrame, WithinFrame DEF store, history
<1>3. ASSUME NEW u \in User, NEW cap \in Cap \cup {None}, CreateCategory(u, cap) PROVE ReceiptsInv'
  <2>1. UNCHANGED <<policy, object, granted, attachment, expense, call, linked, stopped>>
    BY <1>3 DEF CreateCategory, store, history
  <2>2. ~category.exists /\ category' = [exists |-> TRUE, cap |-> cap]
    BY <1>3 DEF CreateCategory
  <2>3. ReceiptsTypeOK'
    BY <1>3, <2>1, <2>2 DEF ReceiptsTypeOK, CreateCategory
  <2>4. Filed = {} /\ \A c \in Call : call[c].pc # "insert"
    BY <2>2 DEF Capped
  <2>5. Capped'
    BY <2>1, <2>2, <2>4 DEF Capped
  <2> QED
    BY <2>1, <2>3, <2>4, <2>5, OwnedFrame, NamedFrame, LinkFrame, WithinFrame
<1>4. ASSUME NEW u \in User, NEW cap \in Cap \cup {None}, CreatePolicy(u, cap) PROVE ReceiptsInv'
  <2>1. UNCHANGED <<open, teams, now, category, object, granted, attachment, expense, linked, stopped>>
    BY <1>4 DEF CreatePolicy, store, history
  <2>2. policy' = cap
    BY <1>4 DEF CreatePolicy
  <2>3. ASSUME NEW c \in Call
        PROVE  /\ call[c].pc # "reads" => call'[c] = call[c]
               /\ call[c].pc = "reads" => /\ call[c] \in Spending /\ call'[c] \in Spending
                                          /\ call'[c] = [call[c] EXCEPT !.had = call[c].had \cup {cap}]
                                          /\ call'[c].pc = "reads" /\ call'[c].had = call[c].had \cup {cap}
                                          /\ call'[c].todo = call[c].todo /\ call'[c].cap = call[c].cap
    <3>1. call[c] \in CallRecord
      BY DEF ReceiptsTypeOK
    <3>2. call'[c] = IF call[c].pc = "reads" THEN [call[c] EXCEPT !.had = @ \cup {cap}] ELSE call[c]
      BY <1>4 DEF CreatePolicy
    <3> QED
      BY <3>1, <3>2, CallShape DEF Spending
  <2>4. ReceiptsTypeOK'
    <3>1. call' \in [Call -> CallRecord]
      BY <1>4, <2>3 DEF CreatePolicy, ReceiptsTypeOK, CallRecord
    <3> QED
      BY <2>1, <2>2, <3>1 DEF ReceiptsTypeOK
  <2>5. \A c \in Call : call'[c].pc = call[c].pc
    BY <2>3
  <2>6. Capped'
    <3>1. ASSUME NEW c \in Call, call'[c].pc = "reads"
          PROVE  /\ policy' \in call'[c].had
                 /\ "policy" \notin call'[c].todo => call'[c].cap \in call'[c].had
                 /\ "category" \notin call'[c].todo => category'.exists
      BY <2>1, <2>2, <2>3, <2>5, <3>1 DEF Capped
    <3>2. ASSUME NEW c \in Call, call'[c].pc = "insert"
          PROVE  category'.exists /\ (\E q \in call[c].had : Within(call[c].amount, q))'
      BY <2>1, <2>3, <2>5, <3>2 DEF Capped, Within
    <3>3. (Filed # {} => category.exists)'
      BY <2>1 DEF Capped, Filed
    <3> QED
      BY <3>1, <3>2, <3>3 DEF Capped
  <2>7. \A c \in Call : (call[c].pc \in {"insert", "link", "confirm"} \/ call'[c].pc \in {"insert", "link", "confirm"})
                           => call'[c] = call[c]
    BY <2>3
  <2> QED
    BY <2>1, <2>4, <2>6, <2>7, OwnedFrame, NamedFrame, LinkFrame, WithinFrame
<1> QED
  BY <1>1, <1>2, <1>3, <1>4 DEF OrganiseExpenses

LEMMA UploadReceipts == ReceiptsInv /\ Upload => ReceiptsInv'
<1> SUFFICES ASSUME ReceiptsInv, Upload PROVE ReceiptsInv'
  OBVIOUS
<1> USE DEF ReceiptsInv
<1>1. ASSUME NEW u \in User, NEW kind \in {"TASK", "EXPENSE"}, NEW e \in Expense \cup {None}, Presign(u, kind, e)
      PROVE  ReceiptsInv'
  <2>1. UNCHANGED <<org, object, attachment, expense, call, history>>
    BY <1>1 DEF Presign
  <2>2. ReceiptsTypeOK'
    <3>1. [by |-> u, key |-> [kind |-> kind, entity |-> e, at |-> now]] \in [by: User, key: Key]
      BY DEF ReceiptsTypeOK, Key
    <3>2. granted' = granted \cup {[by |-> u, key |-> [kind |-> kind, entity |-> e, at |-> now]]}
      BY <1>1 DEF Presign
    <3>3. IsFiniteSet(granted')
      BY <3>2, FS_AddElement DEF ReceiptsTypeOK
    <3> QED
      BY <2>1, <3>1, <3>2, <3>3 DEF ReceiptsTypeOK, org, history
  <2>3. granted \subseteq granted'
    BY <1>1 DEF Presign
  <2> QED
    BY <2>1, <2>2, <2>3, OwnedFrame, NamedFrame, CappedFrame, LinkFrame, WithinFrame DEF org, history
<1>2. ASSUME NEW g \in granted, Put(g) PROVE ReceiptsInv'
  <2>1. UNCHANGED <<org, granted, attachment, expense, call, history>>
    BY <1>2 DEF Put
  <2>2. g \in [by: User, key: Key] /\ g = [by |-> g.by, key |-> g.key] /\ g.by # None
    BY ReceiptsAssumption DEF ReceiptsTypeOK
  <2>3. object' = [object EXCEPT ![g.key] = g.by]
    BY <1>2 DEF Put
  <2>4. ReceiptsTypeOK'
    BY <2>1, <2>2, <2>3 DEF ReceiptsTypeOK, org, history
  <2>5. /\ \A k \in Key : object'[k] # None => [by |-> object'[k], key |-> k] \in granted
        /\ \A k \in Key : object[k] # None => object'[k] # None
    BY <2>2, <2>3 DEF ReceiptsTypeOK, Owned
  <2>6. Owned'
    <3>1. \A c \in Call : call[c].pc = "confirm" => call[c].key \in Key
      BY CallShape DEF ReceiptsTypeOK, Confirming
    <3>2. \A a \in Attachment : attachment[a].exists => attachment[a].key \in Key
      <4>1. ASSUME NEW a \in Attachment, attachment[a].exists PROVE attachment[a].key \in Key
        <5>1. attachment[a] \in AttachmentRow
          BY DEF ReceiptsTypeOK
        <5>2. attachment[a] \in [exists: {TRUE}, uploader: User, key: Key, entity: Expense \cup {None}]
          BY <4>1, <5>1, RowShape
        <5> QED
          BY <5>2
      <4> QED
        BY <4>1
    <3> QED
      BY <2>1, <2>5, <3>1, <3>2 DEF Owned
  <2> QED
    BY <2>1, <2>4, <2>6, NamedFrame, CappedFrame, LinkFrame, WithinFrame DEF org, history
<1>3. ASSUME NEW g \in granted, NEW c \in Call, BeginConfirm(c, g) PROVE ReceiptsInv'
  <2> DEFINE r == [pc |-> "confirm", by |-> g.by, key |-> g.key]
  <2>1. UNCHANGED <<org, store, attachment, expense, history>>
    BY <1>3 DEF BeginConfirm
  <2>2. g \in [by: User, key: Key] /\ g = [by |-> g.by, key |-> g.key]
    BY DEF ReceiptsTypeOK
  <2>3. r \in CallRecord /\ r.pc = "confirm" /\ r.by = g.by /\ r.key = g.key
    BY <2>2 DEF CallRecord, Confirming
  <2>4. call' = [call EXCEPT ![c] = r] /\ call[c].pc = "none" /\ object[g.key] # None
    BY <1>3 DEF BeginConfirm
  <2> HIDE DEF r
  <2>5. call'[c] = r /\ (\A d \in Call \ {c} : call'[d] = call[d]) /\ call' \in [Call -> CallRecord]
    BY <2>3, <2>4, CallMoves
  <2>6. ReceiptsTypeOK'
    BY <2>1, <2>5 DEF ReceiptsTypeOK, org, store, history
  <2>7. Owned'
    BY <2>1, <2>2, <2>3, <2>4, <2>5 DEF Owned, store
  <2> QED
    BY <2>1, <2>3, <2>4, <2>5, <2>6, <2>7, NamedFrame, CappedFrame, LinkFrame, WithinFrame DEF org, history
<1>4. ASSUME NEW c \in Call, InsertAttachment(c) PROVE ReceiptsInv'
  <2>1. UNCHANGED <<org, store, expense, history>>
    BY <1>4 DEF InsertAttachment
  <2>2. call[c].pc = "confirm" /\ call[c] \in Confirming /\ call[c].key \in Key /\ call[c].by \in User
    BY <1>4, CallShape DEF InsertAttachment, ReceiptsTypeOK, Confirming
  <2>3. call' = [call EXCEPT ![c] = NoCall] /\ NoCall \in CallRecord
    BY <1>4 DEF InsertAttachment, CallRecord
  <2>4. call'[c] = NoCall /\ (\A d \in Call \ {c} : call'[d] = call[d]) /\ call' \in [Call -> CallRecord]
    BY <2>3, CallMoves
  <2>5. \A d \in Call : /\ call'[d].pc # "none" => call'[d] = call[d]
                        /\ call[d].pc # "confirm" => call'[d] = call[d]
    BY <2>2, <2>4 DEF NoCall
  <2>6. Capped' /\ FiledWithinCap'
    BY <2>1, <2>5, CappedFrame, WithinFrame DEF org
  <2>7. CASE UNCHANGED attachment
    <3>1. ReceiptsTypeOK'
      BY <2>1, <2>4, <2>7 DEF ReceiptsTypeOK, org, store, history
    <3> QED
      BY <2>1, <2>5, <2>6, <2>7, <3>1, OwnedFrame, NamedFrame, LinkFrame DEF store, history
  <2>8. CASE ~UNCHANGED attachment
    <3> DEFINE row == [exists |-> TRUE, uploader |-> call[c].by, key |-> call[c].key, entity |-> call[c].key.entity]
    <3>1. PICK b \in Attachment : ~attachment[b].exists /\ attachment' = [attachment EXCEPT ![b] = row]
      <4>1. \E r \in DOMAIN attachment : ~attachment[r].exists
        BY <1>4, <2>8 DEF InsertAttachment, ReceiptsTypeOK
      <4>2. attachment' = [attachment EXCEPT ![NewRow(attachment)] = row]
        BY <1>4, <2>8 DEF InsertAttachment
      <4> HIDE DEF row
      <4> QED
        BY <4>1, <4>2, NewRowIsFree DEF ReceiptsTypeOK
    <3>2. /\ row \in AttachmentRow /\ row.exists /\ row.uploader = call[c].by /\ row.key = call[c].key
      BY <2>2 DEF AttachmentRow, Key
    <3> HIDE DEF row
    <3>3. attachment'[b] = row /\ (\A a \in Attachment \ {b} : attachment'[a] = attachment[a])
      BY <3>1 DEF ReceiptsTypeOK
    <3>4. ReceiptsTypeOK'
      BY <2>1, <2>4, <3>1, <3>2 DEF ReceiptsTypeOK, org, store, history
    <3>5. Owned'
      BY <2>1, <2>2, <2>5, <3>2, <3>3 DEF Owned, store, NoCall
    <3>6. \A u \in User, a \in Attachment : ReceiptOf(u, a) => a # b /\ ReceiptOf(u, a)'
      BY <3>1, <3>3 DEF ReceiptOf
    <3>7. Named'
      <4>1. \A e \in Filed : expense[e].receipt # None =>
               expense[e].receipt \in Attachment /\ expense[e].owner \in User
        BY ExpenseShape
      <4>2. \A d \in Call : call[d].pc = "insert" /\ call[d].receipt # None =>
               call[d].receipt \in Attachment /\ call[d].by \in User
        BY CallShape DEF ReceiptsTypeOK, Spending
      <4> QED
        BY <2>1, <2>5, <3>6, <4>1, <4>2 DEF Named, Filed, FiledWith, history
    <3>8. FiledWith(b) = {}
      <4>1. \A e \in Filed : expense[e].receipt = b => ReceiptOf(expense[e].owner, b)
        BY ReceiptsAssumption DEF Named
      <4> QED
        BY <3>1, <4>1 DEF FiledWith, ReceiptOf
    <3>9. LinkTellsExpense'
      BY <2>1, <2>5, <3>3, <3>8 DEF LinkTellsExpense, FiledWith, Filed, history
    <3> QED
      BY <2>6, <3>4, <3>5, <3>7, <3>9
  <2> QED
    BY <2>7, <2>8
<1> QED
  BY <1>1, <1>2, <1>3, <1>4 DEF Upload

-----------------------------------------------------------------------------
\* A request of createExpense moves on before its insertion.
LEMMA RequestMoves ==
    ASSUME ReceiptsInv, NEW c \in Call, NEW x \in CallRecord,
           call' = [call EXCEPT ![c] = x],
           UNCHANGED <<org, store, attachment, expense, history>>,
           call[c].pc \in {"none", "reads", "insert"}, x.pc \in {"none", "reads", "insert"},
           x.pc = "reads" => /\ policy \in x.had
                             /\ "policy" \notin x.todo => x.cap \in x.had
                             /\ "category" \notin x.todo => category.exists,
           x.pc = "insert" => /\ x.receipt # None => ReceiptOf(x.by, x.receipt)
                              /\ category.exists /\ \E cap \in x.had : Within(x.amount, cap)
    PROVE  ReceiptsInv'
<1> USE DEF ReceiptsInv
<1>1. call'[c] = x /\ (\A d \in Call \ {c} : call'[d] = call[d]) /\ call' \in [Call -> CallRecord]
  BY CallMoves
<1>2. ReceiptsTypeOK'
  BY <1>1 DEF ReceiptsTypeOK, org, store, history
<1>3. Owned'
  BY <1>1, <1>2, OwnedFrame DEF store
<1>4. Named'
  BY <1>1 DEF Named, Filed, FiledWith, ReceiptOf, history
<1>5. Capped'
  <2>1. /\ x.pc = "reads" => (/\ policy \in x.had
                              /\ "policy" \notin x.todo => x.cap \in x.had
                              /\ "category" \notin x.todo => category.exists)'
        /\ x.pc = "insert" => (category.exists /\ \E cap \in x.had : Within(x.amount, cap))'
    BY DEF Within, org
  <2>2. \A d \in Call \ {c} : call'[d].pc = "insert" =>
          (category.exists /\ \E cap \in call[d].had : Within(call[d].amount, cap))'
    BY <1>1 DEF Capped, Within, org
  <2>3. \A d \in Call \ {c} : call'[d].pc = "reads" =>
           (/\ policy \in call[d].had
            /\ "policy" \notin call[d].todo => call[d].cap \in call[d].had
            /\ "category" \notin call[d].todo => category.exists)'
    BY <1>1 DEF Capped, org
  <2>4. (Filed # {} => category.exists)'
    BY DEF Capped, Filed, org
  <2> QED
    BY <1>1, <2>1, <2>2, <2>3, <2>4 DEF Capped
<1>6. LinkTellsExpense' /\ FiledWithinCap'
  BY <1>1, LinkFrame, WithinFrame DEF org, history
<1> QED
  BY <1>2, <1>3, <1>4, <1>5, <1>6

LEMMA BeforeInsertion ==
    ASSUME ReceiptsInv, NEW c \in Call,
           \/ \E u \in User, amount \in Amount, receipt \in Attachment \cup {None} : BeginExpense(c, u, amount, receipt)
           \/ ReadProject(c) \/ ReadCategory(c) \/ ReadPolicy(c) \/ Check(c)
    PROVE  ReceiptsInv'
<1>0. NoCall \in CallRecord /\ NoCall.pc = "none"
  BY DEF CallRecord, NoCall
<1>1. CASE \E u \in User, amount \in Amount, receipt \in Attachment \cup {None} : BeginExpense(c, u, amount, receipt)
  <2>1. PICK u \in User, amount \in Amount, receipt \in Attachment \cup {None} : BeginExpense(c, u, amount, receipt)
    BY <1>1
  <2> DEFINE x == [pc |-> "reads", by |-> u, amount |-> amount, receipt |-> receipt,
                   todo |-> {"project", "category", "policy"}, cap |-> None, had |-> {policy}]
  <2>2. x \in CallRecord
    BY DEF CallRecord, Spending, ReceiptsInv, ReceiptsTypeOK
  <2>3. x.pc = "reads" /\ policy \in x.had /\ "policy" \in x.todo /\ "category" \in x.todo
    OBVIOUS
  <2>4. /\ call' = [call EXCEPT ![c] = x] /\ call[c].pc = "none"
        /\ UNCHANGED <<org, store, attachment, expense, history>>
    BY <2>1 DEF BeginExpense
  <2> HIDE DEF x
  <2> QED
    BY <2>2, <2>3, <2>4, RequestMoves
<1>2. ASSUME call[c].pc = "reads" PROVE call[c] \in Spending
  BY <1>2, CallShape DEF ReceiptsInv, ReceiptsTypeOK
<1>3. ASSUME call[c].pc = "reads", Refused(c), UNCHANGED <<org, store, attachment, expense, history>>
      PROVE  ReceiptsInv'
  BY <1>0, <1>3, RequestMoves DEF Refused
<1>4. CASE ReadProject(c) \/ ReadCategory(c) \/ ReadPolicy(c)
  <2>1. call[c].pc = "reads" /\ UNCHANGED <<org, store, attachment, expense, history>>
    BY <1>4 DEF ReadProject, ReadCategory, ReadPolicy
  <2>2. CASE Refused(c)
    BY <1>3, <2>1, <2>2
  <2>3. CASE ~Refused(c)
    <3>1. PICK part \in {"project", "category", "policy"}, cap \in {call[c].cap, policy} :
             /\ call' = [call EXCEPT ![c] = [call[c] EXCEPT !.todo = @ \ {part}, !.cap = cap]]
             /\ part = "category" => category.exists
             /\ part = "policy" => cap = policy
             /\ part # "policy" => cap = call[c].cap
      <4>1. call[c] = [call[c] EXCEPT !.cap = call[c].cap]
        BY <1>2, <2>1 DEF Spending
      <4>2. call \in [Call -> CallRecord]
        BY DEF ReceiptsInv, ReceiptsTypeOK
      <4>3. CASE ReadPolicy(c)
        BY <4>2, <4>3 DEF ReadPolicy
      <4>4. CASE ReadProject(c)
        <5>1. call' = [call EXCEPT ![c].todo = @ \ {"project"}]
          BY <2>3, <4>4 DEF ReadProject
        <5>2. call' = [call EXCEPT ![c] = [call[c] EXCEPT !.todo = @ \ {"project"}, !.cap = call[c].cap]]
          BY <5>1, <1>2, <2>1, <4>2 DEF Spending
        <5> QED
          BY <5>2
      <4>5. CASE ReadCategory(c)
        <5>1. call' = [call EXCEPT ![c].todo = @ \ {"category"}] /\ category.exists
          BY <2>3, <4>5 DEF ReadCategory
        <5>2. call' = [call EXCEPT ![c] = [call[c] EXCEPT !.todo = @ \ {"category"}, !.cap = call[c].cap]]
          BY <5>1, <1>2, <2>1, <4>2 DEF Spending
        <5> QED
          BY <5>1, <5>2
      <4> QED
        BY <1>4, <4>3, <4>4, <4>5
    <3> DEFINE x == [call[c] EXCEPT !.todo = @ \ {part}, !.cap = cap]
    <3>2. /\ x \in Spending /\ x.pc = "reads" /\ x.had = call[c].had
          /\ x.todo = call[c].todo \ {part} /\ x.cap = cap
      BY <1>2, <2>1 DEF Spending, ReceiptsInv, ReceiptsTypeOK
    <3>3. call' = [call EXCEPT ![c] = x]
      BY <3>1
    <3>4. /\ policy \in call[c].had
          /\ "policy" \notin call[c].todo => call[c].cap \in call[c].had
          /\ "category" \notin call[c].todo => category.exists
      BY <2>1 DEF ReceiptsInv, Capped
    <3> HIDE DEF x
    <3>5. x \in CallRecord
      BY <3>2 DEF CallRecord
    <3>6. /\ policy \in x.had
          /\ "policy" \notin x.todo => x.cap \in x.had
          /\ "category" \notin x.todo => category.exists
      BY <3>1, <3>2, <3>4
    <3> QED
      BY <2>1, <3>2, <3>3, <3>5, <3>6, RequestMoves
  <2> QED
    BY <2>2, <2>3
<1>5. CASE Check(c)
  <2>1. call[c].pc = "reads" /\ call[c].todo = {} /\ UNCHANGED <<org, store, attachment, expense, history>>
    BY <1>5 DEF Check
  <2>2. CASE Refused(c)
    BY <1>3, <2>1, <2>2
  <2>3. CASE ~Refused(c)
    <3> DEFINE x == [call[c] EXCEPT !.pc = "insert"]
    <3>1. /\ x \in Spending /\ x.pc = "insert" /\ x.had = call[c].had
          /\ x.by = call[c].by /\ x.amount = call[c].amount /\ x.receipt = call[c].receipt
      BY <1>2, <2>1 DEF Spending
    <3>2. /\ call' = [call EXCEPT ![c] = x] /\ Within(call[c].amount, call[c].cap)
          /\ call[c].receipt # None => ReceiptOf(call[c].by, call[c].receipt)
      BY <1>5, <2>3 DEF Check
    <3>3. call[c].cap \in call[c].had /\ category.exists
      BY <2>1 DEF ReceiptsInv, Capped
    <3> HIDE DEF x
    <3>4. x \in CallRecord
      BY <3>1 DEF CallRecord
    <3> QED
      BY <2>1, <3>1, <3>2, <3>3, <3>4, RequestMoves
  <2> QED
    BY <2>2, <2>3
<1> QED
  BY <1>1, <1>4, <1>5

LEMMA InsertionHolds == ASSUME ReceiptsInv, NEW c \in Call, InsertExpense(c) PROVE ReceiptsInv'
<1> USE DEF ReceiptsInv
<1>1. /\ call[c].pc = "insert" /\ UNCHANGED <<org, store, attachment, history>>
      /\ call[c] \in Spending
  BY CallShape DEF InsertExpense, ReceiptsTypeOK
<1> DEFINE row == [exists |-> TRUE, owner |-> call[c].by, amount |-> call[c].amount,
                   receipt |-> call[c].receipt, had |-> call[c].had]
<1>2. PICK f \in Expense :
         /\ ~expense[f].exists /\ expense' = [expense EXCEPT ![f] = row]
         /\ call' = [call EXCEPT ![c] = IF call[c].receipt = None THEN NoCall
                                        ELSE [pc |-> "link", expense |-> f, receipt |-> call[c].receipt]]
  <2>1. \E r \in DOMAIN expense : ~expense[r].exists
    BY DEF InsertExpense, ReceiptsTypeOK
  <2>2. NewRow(expense) \in Expense /\ ~expense[NewRow(expense)].exists
    BY <2>1, NewRowIsFree DEF ReceiptsTypeOK
  <2>3. /\ expense' = [expense EXCEPT ![NewRow(expense)] = row]
        /\ call' = [call EXCEPT ![c] = IF call[c].receipt = None THEN NoCall
                      ELSE [pc |-> "link", expense |-> NewRow(expense), receipt |-> call[c].receipt]]
    BY <1>1 DEF InsertExpense, ReceiptsTypeOK
  <2> HIDE DEF row
  <2> QED
    BY <2>2, <2>3
<1>3. /\ row \in ExpenseRow /\ row.exists /\ row.owner = call[c].by /\ row.receipt = call[c].receipt
      /\ row.amount = call[c].amount /\ row.had = call[c].had
  BY <1>1 DEF ExpenseRow, Spending
<1> HIDE DEF row
<1> DEFINE x == IF call[c].receipt = None THEN NoCall
                ELSE [pc |-> "link", expense |-> f, receipt |-> call[c].receipt]
<1>4. /\ x \in CallRecord /\ (call[c].receipt = None => x.pc = "none")
      /\ call[c].receipt # None => x.pc = "link" /\ x.expense = f /\ x.receipt = call[c].receipt
  BY <1>1 DEF CallRecord, Linking, NoCall, Spending
<1>5. call' = [call EXCEPT ![c] = x]
  BY <1>2
<1> HIDE DEF x
<1>6. call'[c] = x /\ (\A d \in Call \ {c} : call'[d] = call[d]) /\ call' \in [Call -> CallRecord]
  BY <1>4, <1>5, CallMoves
<1>7. expense'[f] = row /\ (\A e \in Expense \ {f} : expense'[e] = expense[e])
  BY <1>2 DEF ReceiptsTypeOK
<1>8. Filed' = Filed \cup {f} /\ f \notin Filed
  BY <1>2, <1>3, <1>7 DEF Filed
<1>9. \A a \in Attachment : FiledWith(a)' = FiledWith(a) \cup (IF call[c].receipt = a THEN {f} ELSE {})
  BY <1>3, <1>7, <1>8 DEF FiledWith, Filed
<1>10. ReceiptsTypeOK'
  BY <1>1, <1>2, <1>3, <1>6 DEF ReceiptsTypeOK, org, store, history
<1>11. Owned'
  <2>1. \A d \in Call : call'[d].pc = "confirm" => call'[d] = call[d]
    BY <1>4, <1>6
  <2> QED
    BY <1>1, <1>10, <2>1, OwnedFrame DEF store
<1>12. Named'
  <2>1. \A u, a : ReceiptOf(u, a)' <=> ReceiptOf(u, a)
    BY <1>1 DEF ReceiptOf
  <2>2. \A e \in Filed' : expense'[e].receipt # None => ReceiptOf(expense'[e].owner, expense'[e].receipt)
    BY <1>1, <1>3, <1>7, <1>8 DEF Named, Filed
  <2>3. \A d \in Call : call'[d].pc = "insert" /\ call'[d].receipt # None => ReceiptOf(call'[d].by, call'[d].receipt)
    BY <1>4, <1>6 DEF Named
  <2>4. \A d \in Call : call'[d].pc = "link" =>
           call'[d].expense \in Filed' /\ expense'[call'[d].expense].receipt = call'[d].receipt
    <3>1. \A d \in Call \ {c} : call[d].pc = "link" =>
             /\ call[d].expense \in Filed /\ call[d].expense # f
             /\ expense[call[d].expense].receipt = call[d].receipt
      BY <1>8 DEF Named, FiledWith
    <3> QED
      BY <1>3, <1>4, <1>6, <1>7, <1>8, <3>1 DEF Filed
  <2>5. linked' \subseteq Filed'
    BY <1>1, <1>8 DEF Named, history
  <2> QED
    BY <2>1, <2>2, <2>3, <2>4, <2>5 DEF Named, FiledWith
<1>13. Capped' /\ FiledWithinCap'
  <2>1. \A n, cap : Within(n, cap)' <=> Within(n, cap)
    BY <1>1 DEF Within, org
  <2>2. category.exists /\ \E cap \in call[c].had : Within(call[c].amount, cap)
    BY <1>1 DEF Capped
  <2>3. \A d \in Call : call'[d].pc \in {"reads", "insert"} => call'[d] = call[d]
    BY <1>4, <1>6
  <2>4. \A d \in Call : call'[d].pc = "insert" => \E cap \in call'[d].had : Within(call'[d].amount, cap)
    BY <2>3 DEF Capped
  <2>5. \A d \in Call : call'[d].pc = "reads" =>
           /\ policy \in call'[d].had
           /\ "policy" \notin call'[d].todo => call'[d].cap \in call'[d].had
    BY <2>3 DEF Capped
  <2>6. Capped'
    BY <1>1, <2>1, <2>2, <2>4, <2>5 DEF Capped, org
  <2>7. \A e \in Filed' : \E cap \in expense'[e].had : Within(expense'[e].amount, cap)
    BY <1>3, <1>7, <1>8, <2>2 DEF FiledWithinCap, Filed
  <2> QED
    BY <2>1, <2>6, <2>7 DEF FiledWithinCap
<1>14. LinkTellsExpense'
  <2>1. f \notin linked
    BY <1>8 DEF Named
  <2>2. ASSUME NEW a \in Attachment, FiledWith(a)' \cap linked' # {} PROVE attachment'[a].entity \in FiledWith(a)'
    BY <1>1, <1>9, <2>1, <2>2 DEF LinkTellsExpense, history
  <2>3. ASSUME NEW a \in Attachment, NEW e \in FiledWith(a)' \ (linked' \cup stopped')
        PROVE  \E d \in Call : call'[d].pc = "link" /\ call'[d].expense = e
    <3>1. CASE e = f /\ call[c].receipt = a
      BY <1>4, <1>6, <3>1, ReceiptsAssumption
    <3>2. CASE e \in FiledWith(a)
      <4>1. PICK d \in Call : call[d].pc = "link" /\ call[d].expense = e
        BY <1>1, <2>3, <3>2 DEF LinkTellsExpense, history
      <4> QED
        BY <1>1, <1>6, <4>1
    <3> QED
      BY <1>9, <2>3, <3>1, <3>2
  <2> QED
    BY <2>2, <2>3 DEF LinkTellsExpense
<1> QED
  BY <1>10, <1>11, <1>12, <1>13, <1>14

LEMMA LinkingHolds == ASSUME ReceiptsInv, NEW c \in Call, LinkReceipt(c) \/ LoseCall(c) PROVE ReceiptsInv'
<1> USE DEF ReceiptsInv
<1>0. NoCall \in CallRecord /\ NoCall.pc = "none"
  BY DEF CallRecord, NoCall
<1>1. call' = [call EXCEPT ![c] = NoCall] /\ UNCHANGED <<org, store, expense>>
  BY DEF LinkReceipt, LoseCall, Refused
<1>2. call'[c] = NoCall /\ (\A d \in Call \ {c} : call'[d] = call[d]) /\ call' \in [Call -> CallRecord]
  BY <1>0, <1>1, CallMoves
<1>3. \A d \in Call : call'[d].pc # "none" => call'[d] = call[d]
  BY <1>0, <1>2
<1>4. Capped' /\ FiledWithinCap'
  BY <1>1, <1>3, CappedFrame, WithinFrame DEF org
<1>5. Filed' = Filed /\ \A a : FiledWith(a)' = FiledWith(a)
  BY <1>1 DEF Filed, FiledWith
<1>6. call[c].pc = "link" => call[c] \in Linking /\ call[c].expense \in FiledWith(call[c].receipt)
  BY CallShape DEF Named, ReceiptsTypeOK
<1>7. CASE LoseCall(c)
  <2>1. UNCHANGED <<attachment, linked>>
    BY <1>7 DEF LoseCall
  <2>2. /\ call[c].pc = "link" => stopped' = stopped \cup {call[c].expense}
        /\ call[c].pc # "link" => stopped' = stopped
    BY <1>7 DEF LoseCall
  <2>3. ReceiptsTypeOK'
    BY <1>1, <1>2, <1>6, <2>1, <2>2 DEF ReceiptsTypeOK, org, store, Linking
  <2>4. Owned' /\ Named'
    BY <1>1, <1>3, <2>1, <2>3, OwnedFrame, NamedFrame DEF store
  <2>5. LinkTellsExpense'
    BY <1>1, <1>2, <1>5, <2>1, <2>2 DEF LinkTellsExpense
  <2> QED
    BY <1>4, <2>3, <2>4, <2>5
<1>8. CASE LinkReceipt(c)
  <2> DEFINE b == call[c].receipt
  <2>1. /\ call[c].pc = "link" /\ stopped' = stopped /\ linked' = linked \cup {call[c].expense}
        /\ attachment' = [attachment EXCEPT ![b].entity = call[c].expense]
    BY <1>8 DEF LinkReceipt
  <2>2. b \in Attachment /\ call[c].expense \in FiledWith(b) /\ call[c].expense \in Expense
    BY <1>6, <2>1 DEF Linking
  <2>3. attachment[b] \in AttachmentRow /\ attachment[b].exists
    BY <2>2, ReceiptsAssumption DEF ReceiptsTypeOK, Named, FiledWith, ReceiptOf
  <2>4. attachment[b] \in [exists: {TRUE}, uploader: User, key: Key, entity: Expense \cup {None}]
    BY <2>3, RowShape
  <2>5. attachment'[b] = [attachment[b] EXCEPT !.entity = call[c].expense]
    BY <2>1, <2>2 DEF ReceiptsTypeOK
  <2>6. /\ attachment'[b] \in AttachmentRow
        /\ attachment'[b].entity = call[c].expense
        /\ attachment'[b].key = attachment[b].key /\ attachment'[b].uploader = attachment[b].uploader
    BY <2>2, <2>4, <2>5 DEF AttachmentRow
  <2>7. attachment'[b].exists = TRUE
    BY <2>4, <2>5
  <2>8. (\A a \in Attachment \ {b} : attachment'[a] = attachment[a]) /\ attachment' \in [Attachment -> AttachmentRow]
    BY <2>1, <2>6 DEF ReceiptsTypeOK
  <2>9. \A u : \A a \in Attachment : ReceiptOf(u, a) =>
           attachment'[a].exists /\ attachment'[a].uploader = u /\ attachment'[a].key.kind = "EXPENSE"
    BY <2>6, <2>7, <2>8 DEF ReceiptOf
  <2>10. ReceiptsTypeOK'
    BY <1>1, <1>2, <2>1, <2>2, <2>8 DEF ReceiptsTypeOK, org, store
  <2>11. Owned'
    BY <1>1, <1>3, <2>3, <2>6, <2>8 DEF Owned, store
  <2>12. Named'
    <3>1. \A e \in Filed : expense[e].receipt # None =>
             LET a == expense[e].receipt IN
             attachment'[a].exists /\ attachment'[a].uploader = expense[e].owner /\ attachment'[a].key.kind = "EXPENSE"
      BY <2>9, ExpenseShape DEF Named
    <3>2. \A d \in Call : call'[d].pc = "insert" /\ call'[d].receipt # None =>
             LET a == call'[d].receipt IN
             attachment'[a].exists /\ attachment'[a].uploader = call'[d].by /\ attachment'[a].key.kind = "EXPENSE"
      <4>1. \A d \in Call : call[d].pc = "insert" /\ call[d].receipt # None => call[d].receipt \in Attachment
        BY CallShape DEF ReceiptsTypeOK, Spending
      <4> QED
        BY <1>3, <2>9, <4>1 DEF Named
    <3>3. \A d \in Call : call'[d].pc = "link" => call'[d].expense \in FiledWith(call'[d].receipt)
      BY <1>3 DEF Named
    <3>4. linked' \subseteq Filed'
      BY <1>5, <2>1, <2>2 DEF Named, FiledWith
    <3> QED
      BY <1>1, <1>5, <3>1, <3>2, <3>3, <3>4 DEF Named, FiledWith, ReceiptOf
  <2>13. LinkTellsExpense'
    <3>1. \A a \in Attachment : FiledWith(a) \cap linked' # {} => attachment'[a].entity \in FiledWith(a)
      <4>1. \A a \in Attachment \ {b} : call[c].expense \notin FiledWith(a)
        BY <2>2 DEF FiledWith
      <4> QED
        BY <2>1, <2>2, <2>6, <2>8, <4>1 DEF LinkTellsExpense
    <3>2. \A a \in Attachment : \A e \in FiledWith(a) \ (linked' \cup stopped') :
             \E d \in Call : call'[d].pc = "link" /\ call'[d].expense = e
      BY <1>2, <2>1 DEF LinkTellsExpense
    <3> QED
      BY <1>5, <3>1, <3>2 DEF LinkTellsExpense
  <2> QED
    BY <1>4, <2>10, <2>11, <2>12, <2>13
<1> QED
  BY <1>7, <1>8

LEMMA ReceiptsInvInit == ReceiptsInit => ReceiptsInv
<1> SUFFICES ASSUME ReceiptsInit PROVE ReceiptsInv
  OBVIOUS
<1>1. \A c \in Call : call[c] = NoCall /\ call[c].pc = "none"
  BY DEF ReceiptsInit, NoCall
<1>2. Filed = {} /\ \A a \in Attachment : ~attachment[a].exists
  BY DEF ReceiptsInit, Filed, NoExpense, NoAttachment
<1>3. ReceiptsTypeOK
  BY FS_EmptySet DEF ReceiptsInit, ReceiptsTypeOK, CallRecord, AttachmentRow, ExpenseRow
<1>4. Owned /\ Named /\ Capped /\ FiledWithinCap
  BY <1>1, <1>2 DEF ReceiptsInit, Owned, Named, Capped, FiledWithinCap
<1>5. LinkTellsExpense
  BY <1>2 DEF LinkTellsExpense, FiledWith
<1> QED
  BY <1>3, <1>4, <1>5 DEF ReceiptsInv

LEMMA ReceiptsInvNext == ReceiptsInv /\ [ReceiptsNext]_receiptVars => ReceiptsInv'
<1> SUFFICES ASSUME ReceiptsInv, [ReceiptsNext]_receiptVars PROVE ReceiptsInv'
  OBVIOUS
<1>1. CASE OrganiseExpenses
  BY <1>1, OrganiseReceipts
<1>2. CASE Upload
  BY <1>2, UploadReceipts
<1>3. ASSUME NEW c \in Call, CreateExpense(c) PROVE ReceiptsInv'
  BY <1>3, BeforeInsertion, InsertionHolds, LinkingHolds DEF CreateExpense
<1>4. CASE UNCHANGED receiptVars
  <2>1. ReceiptsTypeOK'
    BY <1>4 DEF receiptVars, ReceiptsInv, ReceiptsTypeOK
  <2> QED
    BY <1>4, <2>1, OwnedFrame, NamedFrame, CappedFrame, LinkFrame, WithinFrame DEF receiptVars, ReceiptsInv
<1> QED
  BY <1>1, <1>2, <1>3, <1>4 DEF ReceiptsNext

\* Two users were given the address of an object that is not its uploader's.
LEMMA ObjectIsGranted == ReceiptsInv => ObjectOfUploader
<1> SUFFICES ASSUME ReceiptsInv, NEW a \in Attachment,
                    attachment[a].exists, object[attachment[a].key] # attachment[a].uploader
             PROVE  Cardinality({g \in granted : g.key = attachment[a].key}) > 1
  BY DEF ObjectOfUploader
<1> DEFINE k == attachment[a].key
           G == {g \in granted : g.key = k}
           p == [by |-> attachment[a].uploader, key |-> k]
           q == [by |-> object[k], key |-> k]
<1>1. k \in Key
  <2>1. attachment[a] \in AttachmentRow
    BY DEF ReceiptsInv, ReceiptsTypeOK
  <2>2. attachment[a] \in [exists: {TRUE}, uploader: User, key: Key, entity: Expense \cup {None}]
    BY <2>1, RowShape
  <2> QED
    BY <2>2
<1>2. p \in G /\ q \in G
  BY <1>1 DEF ReceiptsInv, Owned
<1>3. p # q
  OBVIOUS
<1> HIDE DEF p, q
<1>4. IsFiniteSet(G) /\ Cardinality(G) \in Nat
  BY FS_Subset, FS_CardinalityType DEF ReceiptsInv, ReceiptsTypeOK
<1>5. Cardinality({p}) = 1 /\ IsFiniteSet({p})
  BY FS_Singleton
<1>6. Cardinality({p, q}) = 2 /\ IsFiniteSet({p, q})
  <2>1. {p, q} = {p} \cup {q} /\ q \notin {p}
    BY <1>3
  <2>2. Cardinality({p} \cup {q}) = Cardinality({p}) + 1 /\ IsFiniteSet({p} \cup {q})
    BY <1>5, <2>1, FS_AddElement
  <2> QED
    BY <1>5, <2>1, <2>2
<1>7. Cardinality({p, q}) <= Cardinality(G)
  BY <1>2, <1>4, FS_Subset
<1> QED
  BY <1>4, <1>6, <1>7

\* An expense, its receipt, the attachment and the object that was uploaded
\* agree, and the amount is within a cap (createExpense, getExpenseById,
\* getAttachment, confirmUpload), however many requests run at once.
THEOREM ReceiptsAlwaysAgree == ReceiptsSpec => []ReceiptsAgree
<1>1. ReceiptsInv => ReceiptsAgree
  <2> SUFFICES ASSUME ReceiptsInv PROVE ReceiptsAgree
    OBVIOUS
  <2>1. ReceiptOpensWithExpense
    <3> SUFFICES ASSUME NEW u \in User, NEW e \in Filed, MayOpenExpense(u, e), expense[e].receipt # None
                 PROVE  MayOpen(u, expense[e].receipt)
      BY DEF ReceiptOpensWithExpense
    <3>1. ReceiptOf(expense[e].owner, expense[e].receipt)
      BY DEF ReceiptsInv, Named
    <3>2. attachment[expense[e].receipt].uploader = expense[e].owner /\ attachment[expense[e].receipt].key.kind = "EXPENSE"
      BY <3>1 DEF ReceiptOf
    <3> QED
      BY <3>2 DEF MayOpen, MayOpenExpense
  <2>2. ExpensesListed
    <3> SUFFICES ASSUME NEW u \in User, NEW of \in User \cup {None}, NEW e \in Expense
                 PROVE  e \in ListedExpenses(u, of) <=>
                          /\ e \in Filed /\ MayOpenExpense(u, e)
                          /\ MainRole[u] = "USER" \/ of \in {None, expense[e].owner}
      BY DEF ExpensesListed, ListedExpenses, Filed
    <3>1. MainRole[u] \in {"SUPER_ADMIN", "TEAM_LEAD", "USER"}
      BY ReceiptsAssumption
    <3> QED
      BY <3>1 DEF ListedExpenses, Filed, MayOpenExpense, IsAdmin, IsLead
  <2> QED
    BY <2>1, <2>2, ObjectIsGranted DEF ReceiptsInv, ReceiptsAgree
<1> QED
  BY <1>1, ReceiptsInvInit, ReceiptsInvNext, PTL DEF ReceiptsSpec
=============================================================================
