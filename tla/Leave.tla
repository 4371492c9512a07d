-------------------------------- MODULE Leave --------------------------------
(***************************************************************************)
(* Leave of one user and one leave type in one year: the accrual ledger,   *)
(* which every balance query brings up to date (getBalance,                *)
(* ensureAccrualLedgerForYear), leave requests checked against the balance *)
(* (createLeaveRequest), and policy changes (createLeavePolicy).           *)
(*                                                                         *)
(* Deciding a request is the approval engine's business: its abstract      *)
(* specification, ApprovalRecord, is extended, and its actions are the     *)
(* decisions here.  A request is named by its code.                        *)
(***************************************************************************)
EXTENDS ApprovalRecord, Integers, FiniteSets

CONSTANTS
    Months,      \* months of the year that may come to pass
    JoinMonth,   \* the month the user joined, 1 when earlier than this year
    Prorated,    \* what a monthly accrual amounts to in the joining month
    Accruals,    \* monthly accruals a policy may set
    LeaveDays,   \* lengths of requests
    Calls,       \* concurrent executions of getBalance and createLeaveRequest
    MaxPolicies  \* bound on policy changes

ASSUME ConstantsAssumption ==
    /\ Months \in Nat \ {0} /\ JoinMonth \in 1..Months
    /\ Accruals \subseteq Nat \ {0} /\ LeaveDays \subseteq Nat \ {0}
    /\ Prorated \in [Accruals -> Nat] /\ MaxPolicies \in Nat
    /\ Requests \subseteq Nat \ {0} /\ IsFiniteSet(Requests)

VARIABLES
    policy,   \* monthlyAccrual of the policy
    changes,  \* how often it was changed
    month,    \* the current month
    ledger,   \* amounts of the LeaveAccrualLedger rows, 0 where there is none
    exact,    \* months for which a query has settled the ledger (history)
    days,     \* totalDays of the LeaveRequest rows, 0 where there is none
    call      \* the executions

vars == <<record, claim, policy, changes, month, ledger, exact, days, call>>

CallRecord ==
    [pc: {"idle", "ensure", "accrued", "approved", "code", "insert", "file"},
     wants: LeaveDays \cup {0},  \* days asked for, 0 for a balance query
     again: BOOLEAN,             \* the ledger is ensured once more
     accrual: Accruals,          \* monthly accrual read from the policy
     upTo: 0..Months, next: 1..(Months + 1),  \* the loop over the months
     old: BOOLEAN,               \* the policy changed since it was read (history)
     alone: BOOLEAN,             \* no loop under another policy overlaps (history)
     accrued: [1..Months -> Nat],  \* the ledger rows summed up
     code: Nat]

TypeOK ==
    /\ policy \in Accruals /\ changes \in 0..MaxPolicies
    /\ month \in 1..Months /\ exact \in 0..Months
    /\ ledger \in [1..Months -> Nat]
    /\ days \in [Requests -> LeaveDays \cup {0}]
    /\ call \in [Calls -> CallRecord]
    /\ record \in [Requests -> [status: {"ABSENT", "PENDING"} \cup Verdict,
                                by: Users \cup {Nobody}]]
    /\ claim \in [Claims -> {NoClaim} \cup
                     [request: Requests, actor: Users, verdict: Verdict]]

NoRows == [m \in 1..Months |-> 0]
IdleAt(a) == [pc |-> "idle", wants |-> 0, again |-> FALSE, accrual |-> a, upTo |-> 0,
              next |-> 1, old |-> FALSE, alone |-> FALSE, accrued |-> NoRows, code |-> 0]

Init ==
    /\ RInit
    /\ policy \in Accruals /\ changes = 0
    /\ month = 1 /\ exact = 0
    /\ ledger = NoRows
    /\ days = [r \in Requests |-> 0]
    /\ call = [c \in Calls |-> IdleAt(policy)]

-----------------------------------------------------------------------------
\* ensureAccrualLedgerForYear

Return(c) == call' = [call EXCEPT ![c] = IdleAt(call[c].accrual)]
Goto(c, pc) == call' = [call EXCEPT ![c].pc = pc]

\* What a monthly accrual of a gives for month m.
AccrualOf(a, m) ==
    IF m < JoinMonth THEN 0 ELSE IF m = JoinMonth THEN Prorated[a] ELSE a

\* A loop begun under a policy that has changed since.
OldLoop == \E c \in Calls : call[c].pc = "ensure" /\ call[c].old

\* The loop of a call, with the policy and the month as they are now.
BeginLoop(rec) ==
    [rec EXCEPT !.pc = "ensure", !.accrual = policy, !.upTo = month, !.next = 1,
                !.old = FALSE, !.alone = ~OldLoop]

\* getBalance on its own (n = 0), or createLeaveRequest for n days, which
\* ensures the ledger and then calls getBalance, which ensures it again.
BeginCall(c, n) ==
    /\ call[c].pc = "idle"
    /\ call' = [call EXCEPT ![c] = BeginLoop([@ EXCEPT !.wants = n, !.again = (n # 0)])]
    /\ UNCHANGED <<record, claim, policy, changes, month, ledger, exact, days>>

\* Mutant: rows that exist are left as they are.
UpsertedCreateOnly(c, m) ==
    IF ledger[m] # 0 THEN ledger[m] ELSE AccrualOf(call[c].accrual, m)

\* The row is created, or overwritten with the amount computed now.
Upserted(c, m) == AccrualOf(call[c].accrual, m)

EnsureMonth(c) ==
    /\ call[c].pc = "ensure" /\ call[c].next <= call[c].upTo
    /\ ledger' = [ledger EXCEPT ![call[c].next] = Upserted(c, call[c].next)]
    /\ call' = [call EXCEPT ![c].next = @ + 1]
    /\ UNCHANGED <<record, claim, policy, changes, month, exact, days>>

\* The history variable notes the months a loop settled that overlapped no loop
\* under another policy.
EndLoop(c) ==
    /\ call[c].pc = "ensure" /\ call[c].next > call[c].upTo
    /\ exact' = IF call[c].alone /\ call[c].upTo > exact THEN call[c].upTo ELSE exact
    /\ call' = [call EXCEPT ![c] =
                   IF @.again THEN BeginLoop([@ EXCEPT !.again = FALSE])
                   ELSE [@ EXCEPT !.pc = "accrued"]]
    /\ UNCHANGED <<record, claim, policy, changes, month, ledger, days>>

-----------------------------------------------------------------------------
\* getBalance, and the rest of createLeaveRequest

\* The sum of f over S, counted unit by unit.
Units(f, S) == UNION {{x} \X (1..f[x]) : x \in S}
Total(f, S) == Cardinality(Units(f, S))
Approved == {r \in Requests : record[r].status = "APPROVED"}

ReadAccrued(c) ==
    /\ call[c].pc = "accrued"
    /\ call' = [call EXCEPT ![c].pc = "approved", ![c].accrued = ledger]
    /\ UNCHANGED <<record, claim, policy, changes, month, ledger, exact, days>>

Sufficient(n, available) == n <= available

\* Approved days count against the balance, pending ones are only reported.
ReadApproved(c) ==
    /\ call[c].pc = "approved"
    /\ LET available == Total(call[c].accrued, 1..Months) - Total(days, Approved) IN
       \/ call[c].wants = 0 /\ Return(c)
       \/ ~Sufficient(call[c].wants, available) /\ Return(c)
       \/ /\ call[c].wants # 0 /\ Sufficient(call[c].wants, available)
          /\ Goto(c, "code")
    /\ UNCHANGED <<record, claim, policy, changes, month, ledger, exact, days>>

Rows == {r \in Requests : days[r] # 0}

\* RequestCodeService.next: one more than the largest code.
ReadCode(c) ==
    /\ call[c].pc = "code"
    /\ \E n \in {1} \cup {r + 1 : r \in Rows} :
          /\ \A r \in Rows : r < n
          /\ call' = [call EXCEPT ![c].pc = "insert", ![c].code = n]
    /\ UNCHANGED <<record, claim, policy, changes, month, ledger, exact, days>>

\* The unique key refuses a code that another request took meanwhile.
InsertRequest(c) ==
    /\ call[c].pc = "insert"
    /\ call[c].code \in Requests
    /\ \/ /\ days[call[c].code] = 0
          /\ days' = [days EXCEPT ![call[c].code] = call[c].wants]
          /\ Goto(c, "file")
       \/ /\ days[call[c].code] # 0
          /\ Return(c)
          /\ UNCHANGED days
    /\ UNCHANGED <<record, claim, policy, changes, month, ledger, exact>>

\* createSingleStepApproval, which may find nobody to decide.
FileApproval(c) ==
    /\ call[c].pc = "file"
    /\ Submit(call[c].code) \/ UNCHANGED <<record, claim>>
    /\ Return(c)
    /\ UNCHANGED <<policy, changes, month, ledger, exact, days>>

-----------------------------------------------------------------------------
\* What happens around the calls

\* The approval engine decides requests.
Decide ==
    /\ \/ \E k \in Claims, r \in Requests, u \in Users, v \in Verdict : Stake(k, r, u, v)
       \/ \E k \in Claims : Resolve(k) \/ Drop(k)
    /\ UNCHANGED <<policy, changes, month, ledger, exact, days, call>>

\* createLeavePolicy; every loop in progress works with the old policy now.
ChangePolicy ==
    /\ changes < MaxPolicies /\ changes' = changes + 1
    /\ policy' \in Accruals \ {policy}
    /\ exact' = 0
    /\ call' = [c \in Calls |-> [call[c] EXCEPT !.old = TRUE, !.alone = FALSE]]
    /\ UNCHANGED <<record, claim, month, ledger, days>>

NextMonth ==
    /\ month < Months /\ month' = month + 1
    /\ UNCHANGED <<record, claim, policy, changes, ledger, exact, days, call>>

CallStep(c) ==
    \/ \E n \in LeaveDays \cup {0} : BeginCall(c, n)
    \/ EnsureMonth(c) \/ EndLoop(c)
    \/ ReadAccrued(c) \/ ReadApproved(c) \/ ReadCode(c) \/ InsertRequest(c)
    \/ FileApproval(c)

Next ==
    \/ \E c \in Calls : CallStep(c)
    \/ Decide \/ ChangePolicy \/ NextMonth

Spec == Init /\ [][Next]_vars

-----------------------------------------------------------------------------
\* Properties

\* A balance query that overlaps no query begun under an earlier policy leaves
\* exactly what the policy in force grants, however many queries write the same
\* rows at once, and it stays so until the policy changes.
LedgerFollowsPolicy == \A m \in 1..exact : ledger[m] = AccrualOf(policy, m)

\* While the policy stays, no request is for more days than were accrued.
NoRequestBeyondAccrual ==
    changes = 0 => \A r \in Rows : days[r] <= Total(ledger, 1..Months)

\* createLeaveRequest refuses days beyond the balance, so that (the policy
\* staying) approved leave never exceeds what was accrued.
NeverOverdrawn == changes = 0 => Total(days, Approved) <= Total(ledger, 1..Months)
=============================================================================
