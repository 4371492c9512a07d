----------------------------- MODULE LeaveProofs -----------------------------
(***************************************************************************)
(* Theorems about the time off of one user, for any number of concurrent   *)
(* calls, handlers and punches, any year, any policies and quotas, and any *)
(* width of an address.                                                    *)
(*                                                                         *)
(* LedgerFollowsPolicy is not inductive: a loop in progress may overwrite  *)
(* what another settled.  Settling says which loops can be there: one that *)
(* is not old writes what the policy grants, and as long as an old one     *)
(* runs nothing counts as settled.  WithinGrants needs what has been       *)
(* counted but not stored yet (Granting, DInv), DayAgrees what a punch has *)
(* established by the time it writes (AInv).                               *)
(***************************************************************************)
EXTENDS TimeOff, FiniteSetTheorems, TLAPS

\* A loop that is not old works with the policy in force, and one that runs
\* alone has settled every month it has passed.
Settling ==
    /\ \A c \in Calls : call[c].pc = "ensure" =>
          /\ ~call[c].old => call[c].accrual = policy
          /\ call[c].alone =>
                /\ ~OldLoop
                /\ \A m \in 1..Months : m < call[c].next => ledger[m] = AccrualOf(policy, m)
    /\ exact > 0 => ~OldLoop

-----------------------------------------------------------------------------
LEMMA BeginLoopTyped ==
  ASSUME TypeOK, NEW rec \in CallRecord
  PROVE  BeginLoop(rec) \in CallRecord
<1>1. month \in 0..Months /\ 1 \in 1..(Months + 1) /\ policy \in Accruals
  BY ConstantsAssumption DEF TypeOK
<1>2. ASSUME NEW b \in BOOLEAN
      PROVE  [rec EXCEPT !.pc = "ensure", !.accrual = policy, !.upTo = month, !.next = 1,
                         !.old = FALSE, !.alone = b] \in CallRecord
  BY <1>1 DEF CallRecord
<1>3. (~OldLoop) \in BOOLEAN
  BY Zenon
<1> QED BY <1>2, <1>3, Zenon DEF BeginLoop

LEMMA IdleTyped ==
  ASSUME NEW a \in Accruals
  PROVE  IdleAt(a) \in CallRecord
<1>1. 0 \in 0..Months /\ 1 \in 1..(Months + 1) /\ NoRows \in [1..Months -> Nat]
  BY ConstantsAssumption DEF NoRows
<1> QED BY <1>1 DEF IdleAt, CallRecord

LEMMA ReturnTyped ==
  ASSUME TypeOK, NEW c \in Calls, Return(c)
  PROVE  call' \in [Calls -> CallRecord]
<1>1. call[c].accrual \in Accruals
  BY DEF TypeOK, CallRecord
<1> QED BY <1>1, IdleTyped DEF Return, TypeOK

LEMMA GotoTyped ==
  ASSUME TypeOK, NEW c \in Calls, Goto(c, "code") \/ Goto(c, "file")
  PROVE  call' \in [Calls -> CallRecord]
<1>1. call[c] \in CallRecord
  BY DEF TypeOK
<1>2. /\ [call[c] EXCEPT !.pc = "code"] \in CallRecord
      /\ [call[c] EXCEPT !.pc = "file"] \in CallRecord
  BY <1>1 DEF CallRecord
<1>3. call' = [call EXCEPT ![c] = [call[c] EXCEPT !.pc = "code"]]
      \/ call' = [call EXCEPT ![c] = [call[c] EXCEPT !.pc = "file"]]
  BY DEF Goto
<1> QED BY <1>2, <1>3 DEF TypeOK

LEMMA InitTypeOK == Init => TypeOK
<1> SUFFICES ASSUME Init PROVE TypeOK
  OBVIOUS
<1>1. call \in [Calls -> CallRecord]
  BY IdleTyped DEF Init
<1>2. ledger \in [1..Months -> Nat] /\ month \in 1..Months /\ exact \in 0..Months
  BY ConstantsAssumption DEF Init, NoRows
<1>3. changes \in 0..MaxPolicies
  BY ConstantsAssumption DEF Init
<1> QED BY <1>1, <1>2, <1>3 DEF Init, RInit, TypeOK

\* The rows of the ledger are amounts.
LEMMA AccrualTyped ==
  ASSUME NEW a \in Accruals, NEW m \in 1..Months
  PROVE  AccrualOf(a, m) \in Nat
  BY ConstantsAssumption DEF AccrualOf

LEMMA CallTypeOK ==
  ASSUME TypeOK, NEW c \in Calls, CallStep(c)
  PROVE  TypeOK'
<1>0. call[c] \in CallRecord
  BY DEF TypeOK
<1>1. ASSUME NEW n \in LeaveDays \cup {0}, BeginCall(c, n) PROVE TypeOK'
  <2>1. [call[c] EXCEPT !.wants = n, !.again = (n # 0)] \in CallRecord
    BY <1>0 DEF CallRecord
  <2>2. call' \in [Calls -> CallRecord]
    BY <1>1, <2>1, BeginLoopTyped DEF BeginCall, TypeOK
  <2> QED BY <1>1, <2>2 DEF BeginCall, TypeOK
<1>2. CASE EnsureMonth(c)
  <2>1. call[c].next \in 1..Months /\ call[c].next + 1 \in 1..(Months + 1)
    BY <1>0, <1>2, ConstantsAssumption DEF EnsureMonth, CallRecord
  <2>2. Upserted(c, call[c].next) \in Nat
    BY <1>0, <2>1, AccrualTyped DEF Upserted, CallRecord
  <2>3. call' \in [Calls -> CallRecord]
    BY <1>0, <1>2, <2>1 DEF EnsureMonth, TypeOK, CallRecord
  <2> QED BY <1>2, <2>1, <2>2, <2>3 DEF EnsureMonth, TypeOK
<1>3. CASE EndLoop(c)
  <2>1. [call[c] EXCEPT !.again = FALSE] \in CallRecord
    BY <1>0 DEF CallRecord
  <2>2. [call[c] EXCEPT !.pc = "accrued"] \in CallRecord
    BY <1>0 DEF CallRecord
  <2>3. call' \in [Calls -> CallRecord]
    BY <1>3, <2>1, <2>2, BeginLoopTyped DEF EndLoop, TypeOK
  <2>4. exact' \in 0..Months
    BY <1>0, <1>3 DEF EndLoop, TypeOK, CallRecord
  <2> QED BY <1>3, <2>3, <2>4 DEF EndLoop, TypeOK
<1>4. CASE ReadAccrued(c)
  <2>1. call' \in [Calls -> CallRecord]
    BY <1>0, <1>4 DEF ReadAccrued, TypeOK, CallRecord
  <2> QED BY <1>4, <2>1 DEF ReadAccrued, TypeOK
<1>5. CASE ReadApproved(c)
  <2>1. call' \in [Calls -> CallRecord]
    BY <1>5, ReturnTyped, GotoTyped DEF ReadApproved
  <2> QED BY <1>5, <2>1 DEF ReadApproved, TypeOK
<1>6. CASE ReadCode(c)
  <2>1. PICK n \in {1} \cup {r + 1 : r \in Rows} :
           call' = [call EXCEPT ![c].pc = "insert", ![c].code = n]
    BY <1>6 DEF ReadCode
  <2>2. n \in Nat
    BY <2>1, ConstantsAssumption DEF Rows
  <2>3. call' \in [Calls -> CallRecord]
    BY <1>0, <2>1, <2>2 DEF TypeOK, CallRecord
  <2> QED BY <1>6, <2>3 DEF ReadCode, TypeOK
<1>7. CASE InsertRequest(c)
  <2>1. call' \in [Calls -> CallRecord]
    BY <1>7, ReturnTyped, GotoTyped DEF InsertRequest
  <2>2. days' \in [Requests -> LeaveDays \cup {0}]
    BY <1>0, <1>7 DEF InsertRequest, TypeOK, CallRecord
  <2> QED BY <1>7, <2>1, <2>2 DEF InsertRequest, TypeOK
<1>8. CASE FileApproval(c)
  <2>1. call' \in [Calls -> CallRecord]
    BY <1>8, ReturnTyped DEF FileApproval
  <2> QED BY <1>8, <2>1 DEF FileApproval, Submit, TypeOK
<1> QED BY <1>1, <1>2, <1>3, <1>4, <1>5, <1>6, <1>7, <1>8 DEF CallStep

LEMMA NextTypeOK == TypeOK /\ [Next]_vars => TypeOK'
<1> SUFFICES ASSUME TypeOK, [Next]_vars PROVE TypeOK'
  OBVIOUS
<1>1. CASE Decide
  <2>1. ASSUME NEW k \in Claims, NEW r \in Requests, NEW u \in Users, NEW v \in Verdict,
               Stake(k, r, u, v)
        PROVE  TypeOK'
    <3>1. [request |-> r, actor |-> u, verdict |-> v]
             \in [request: Requests, actor: Users, verdict: Verdict]
      OBVIOUS
    <3>2. claim' = [claim EXCEPT ![k] = [request |-> r, actor |-> u, verdict |-> v]]
      BY <2>1 DEF Stake
    <3>3. claim' \in [Claims -> {NoClaim} \cup
                               [request: Requests, actor: Users, verdict: Verdict]]
      BY <3>1, <3>2 DEF TypeOK
    <3>4. UNCHANGED <<record, policy, changes, month, ledger, exact, days, call>>
      BY <1>1, <2>1 DEF Decide, Stake
    <3> QED BY <3>3, <3>4 DEF TypeOK
  <2>2. ASSUME NEW k \in Claims, Resolve(k) \/ Drop(k)
        PROVE  TypeOK'
    <3>1. claim[k] \in [request: Requests, actor: Users, verdict: Verdict]
      BY <2>2 DEF Resolve, Drop, TypeOK
    <3>2. record' \in [Requests -> [status: {"ABSENT", "PENDING"} \cup Verdict,
                                    by: Users \cup {Nobody}]]
      <4>1. [status |-> claim[k].verdict, by |-> claim[k].actor]
               \in [status: {"ABSENT", "PENDING"} \cup Verdict, by: Users \cup {Nobody}]
        BY <3>1
      <4> QED BY <2>2, <4>1 DEF Resolve, Drop, TypeOK
    <3>3. claim' \in [Claims -> {NoClaim} \cup
                               [request: Requests, actor: Users, verdict: Verdict]]
      BY <2>2 DEF Resolve, Drop, TypeOK
    <3>4. UNCHANGED <<policy, changes, month, ledger, exact, days, call>>
      BY <1>1 DEF Decide
    <3> QED BY <3>2, <3>3, <3>4 DEF TypeOK
  <2> QED BY <1>1, <2>1, <2>2 DEF Decide
<1>2. CASE ChangePolicy
  <2>1. call' \in [Calls -> CallRecord]
    <3>1. ASSUME NEW c \in Calls
          PROVE  [call[c] EXCEPT !.old = TRUE, !.alone = FALSE] \in CallRecord
      <4>1. call[c] \in CallRecord
        BY DEF TypeOK
      <4> QED BY <4>1 DEF CallRecord
    <3>2. call' = [c \in Calls |-> [call[c] EXCEPT !.old = TRUE, !.alone = FALSE]]
      BY <1>2 DEF ChangePolicy
    <3> QED BY <3>1, <3>2
  <2>2. changes' \in 0..MaxPolicies /\ exact' \in 0..Months
    <3>1. changes < MaxPolicies /\ changes' = changes + 1 /\ exact' = 0
      BY <1>2 DEF ChangePolicy
    <3> QED BY <3>1, ConstantsAssumption DEF TypeOK
  <2> QED BY <1>2, <2>1, <2>2 DEF ChangePolicy, TypeOK
<1>3. CASE NextMonth
  BY <1>3, ConstantsAssumption DEF NextMonth, TypeOK
<1>4. CASE UNCHANGED vars
  BY <1>4 DEF vars, TypeOK
<1> QED BY <1>1, <1>2, <1>3, <1>4, CallTypeOK DEF Next

\* The ledger, the requests, their approval records and the calls in flight stay
\* well typed: no loop goes past the last month.
THEOREM TypeCorrect == Spec => []TypeOK
  BY InitTypeOK, NextTypeOK, PTL DEF Spec

-----------------------------------------------------------------------------
\* What LedgerFollowsPolicy needs to be inductive.
SInv == TypeOK /\ Settling /\ LedgerFollowsPolicy

\* A step of one call that touches neither ledger nor policy and leaves that
\* call outside its loop, or at the start of one, disturbs nothing.
LEMMA SettlingFrame ==
  ASSUME SInv, UNCHANGED <<ledger, policy>>, NEW c \in Calls,
         \A d \in Calls \ {c} : call'[d] = call[d],
         call'[c].pc = "ensure" =>
            /\ call'[c].next = 1 /\ call'[c].accrual = policy
            /\ call'[c].alone => ~OldLoop,
         ~call'[c].old \/ call'[c].pc # "ensure",
         exact' > 0 => ~OldLoop
  PROVE  Settling'
<1>1. OldLoop' => OldLoop
  BY DEF OldLoop
<1>2. \A m \in 1..Months : AccrualOf(policy, m)' = AccrualOf(policy, m)
  BY DEF AccrualOf
<1>3. ASSUME NEW d \in Calls, call'[d].pc = "ensure"
      PROVE  /\ ~call'[d].old => call'[d].accrual = policy'
             /\ call'[d].alone =>
                   /\ ~OldLoop'
                   /\ \A m \in 1..Months : m < call'[d].next =>
                         ledger'[m] = AccrualOf(policy', m)
  <2>1. CASE d = c
    BY <1>1, <1>3, <2>1
  <2>2. CASE d # c
    BY <1>1, <1>3, <2>2 DEF SInv, Settling
  <2> QED BY <2>1, <2>2
<1> QED BY <1>1, <1>3 DEF Settling

\* A month is written with what the policy grants, unless the loop is old and
\* so nothing counts as settled.
LEMMA EnsureMonthSettles ==
  ASSUME SInv, NEW c \in Calls, EnsureMonth(c)
  PROVE  Settling' /\ LedgerFollowsPolicy'
<1>0. call[c] \in CallRecord /\ call[c].next \in 1..Months
  <2>1. call[c] \in CallRecord
    BY DEF SInv, TypeOK
  <2>2. call[c].next \in 1..(Months + 1) /\ call[c].upTo \in 0..Months
    BY <2>1 DEF CallRecord
  <2> QED BY <2>1, <2>2, ConstantsAssumption DEF EnsureMonth
<1>1. /\ \A d \in Calls \ {c} : call'[d] = call[d]
      /\ call'[c].pc = "ensure" /\ call'[c].next = call[c].next + 1
      /\ call'[c].old = call[c].old /\ call'[c].alone = call[c].alone
      /\ call'[c].accrual = call[c].accrual
      /\ call[c].pc = "ensure"
      /\ UNCHANGED <<policy, exact>>
  BY <1>0 DEF SInv, TypeOK, EnsureMonth, CallRecord
<1>2. /\ ledger'[call[c].next] = AccrualOf(call[c].accrual, call[c].next)
      /\ \A m \in 1..Months : m # call[c].next => ledger'[m] = ledger[m]
  BY <1>0 DEF SInv, TypeOK, EnsureMonth, Upserted
<1>3. OldLoop' <=> OldLoop
  BY <1>1 DEF OldLoop
<1>4. CASE call[c].old
  <2>1. OldLoop
    BY <1>1, <1>4 DEF OldLoop
  <2>2. exact = 0
    BY <2>1 DEF SInv, Settling, TypeOK
  <2>3. LedgerFollowsPolicy'
    BY <1>1, <2>2 DEF LedgerFollowsPolicy
  <2>4. \A d \in Calls : call[d].pc = "ensure" => ~call[d].alone
    BY <2>1 DEF SInv, Settling
  <2>5. \A d \in Calls : call'[d].pc = "ensure" =>
           ~call'[d].alone /\ (~call'[d].old => call'[d].accrual = policy')
    BY <1>1, <1>4, <2>4 DEF SInv, Settling
  <2> QED BY <1>1, <2>2, <2>3, <2>5 DEF Settling
<1>5. CASE ~call[c].old
  <2>1. call[c].accrual = policy
    BY <1>1, <1>5 DEF SInv, Settling
  <2>2. \A m \in 1..Months :
           ledger[m] = AccrualOf(policy, m) \/ m = call[c].next
              => ledger'[m] = AccrualOf(policy', m)
    BY <1>1, <1>2, <2>1
  <2>3. LedgerFollowsPolicy'
    BY <1>1, <2>2, ConstantsAssumption DEF SInv, TypeOK, LedgerFollowsPolicy
  <2>4. ASSUME NEW d \in Calls, call'[d].pc = "ensure"
        PROVE  /\ ~call'[d].old => call'[d].accrual = policy'
               /\ call'[d].alone =>
                     /\ ~OldLoop'
                     /\ \A m \in 1..Months : m < call'[d].next =>
                           ledger'[m] = AccrualOf(policy', m)
    <3>1. CASE d # c
      BY <1>1, <1>3, <2>2, <2>4, <3>1 DEF SInv, Settling
    <3>2. CASE d = c
      <4>1. \A m \in 1..Months : m < call[c].next + 1 => m < call[c].next \/ m = call[c].next
        BY <1>0
      <4> QED BY <1>1, <1>3, <2>1, <2>2, <3>2, <4>1 DEF SInv, Settling
    <3> QED BY <3>1, <3>2
  <2> QED BY <1>1, <1>3, <2>3, <2>4 DEF SInv, Settling
<1> QED BY <1>4, <1>5

LEMMA EndLoopSettles ==
  ASSUME SInv, NEW c \in Calls, EndLoop(c)
  PROVE  Settling' /\ LedgerFollowsPolicy'
<1>0. call[c] \in CallRecord
  BY DEF SInv, TypeOK
<1>1. /\ \A d \in Calls \ {c} : call'[d] = call[d]
      /\ call'[c].pc = "ensure" =>
            /\ call'[c].next = 1 /\ call'[c].accrual = policy
            /\ call'[c].alone => ~OldLoop
      /\ ~call'[c].old \/ call'[c].pc # "ensure"
      /\ UNCHANGED <<ledger, policy>>
  BY <1>0 DEF EndLoop, BeginLoop, SInv, TypeOK, CallRecord
<1>2. exact' # exact => call[c].alone /\ exact' = call[c].upTo
  BY DEF EndLoop
<1>3. call[c].alone => ~OldLoop
  BY DEF EndLoop, SInv, Settling
<1>4. exact' > 0 => ~OldLoop
  BY <1>2, <1>3 DEF SInv, Settling
<1>5. LedgerFollowsPolicy'
  <2>1. CASE exact' = exact
    BY <1>1, <2>1 DEF SInv, LedgerFollowsPolicy, AccrualOf
  <2>2. CASE exact' # exact
    <3>1. call[c].upTo \in 0..Months /\ call[c].upTo < call[c].next /\ call[c].next \in Nat
      BY <1>0, ConstantsAssumption DEF EndLoop, CallRecord
    <3>2. \A m \in 1..call[c].upTo : m \in 1..Months /\ m < call[c].next
      BY <3>1, ConstantsAssumption
    <3>3. \A m \in 1..call[c].upTo : ledger[m] = AccrualOf(policy, m)
      BY <1>2, <2>2, <3>2 DEF EndLoop, SInv, Settling
    <3> QED BY <1>1, <1>2, <2>2, <3>3 DEF LedgerFollowsPolicy, AccrualOf
  <2> QED BY <2>1, <2>2
<1> QED BY <1>1, <1>4, <1>5, SettlingFrame

LEMMA CallSettles ==
  ASSUME SInv, NEW c \in Calls, CallStep(c)
  PROVE  Settling' /\ LedgerFollowsPolicy'
<1>0. call[c] \in CallRecord
  BY DEF SInv, TypeOK
<1>1. CASE \E n \in LeaveDays \cup {0} : BeginCall(c, n)
  <2>1. /\ \A d \in Calls \ {c} : call'[d] = call[d]
        /\ call'[c].next = 1 /\ call'[c].accrual = policy
        /\ ~call'[c].old /\ (call'[c].alone => ~OldLoop)
        /\ UNCHANGED <<ledger, policy, exact>>
    <3>1. PICK n \in LeaveDays \cup {0} : BeginCall(c, n)
      BY <1>1
    <3>2. PICK rec \in CallRecord : call' = [call EXCEPT ![c] = BeginLoop(rec)]
      <4>1. [call[c] EXCEPT !.wants = n, !.again = (n # 0)] \in CallRecord
        BY <1>0 DEF CallRecord
      <4> QED BY <3>1, <4>1 DEF BeginCall
    <3>3. /\ BeginLoop(rec).next = 1 /\ BeginLoop(rec).accrual = policy
          /\ ~BeginLoop(rec).old /\ (BeginLoop(rec).alone => ~OldLoop)
      BY DEF BeginLoop, CallRecord
    <3> QED BY <3>1, <3>2, <3>3 DEF BeginCall, SInv, TypeOK
  <2>2. LedgerFollowsPolicy'
    BY <2>1 DEF SInv, LedgerFollowsPolicy, AccrualOf
  <2>3. exact' > 0 => ~OldLoop
    BY <2>1 DEF SInv, Settling
  <2> QED BY <2>1, <2>2, <2>3, SettlingFrame
<1>2. CASE \/ ReadAccrued(c) \/ ReadApproved(c) \/ ReadCode(c)
           \/ InsertRequest(c) \/ FileApproval(c)
  <2>1. UNCHANGED <<ledger, policy, exact>>
    BY <1>2 DEF ReadAccrued, ReadApproved, ReadCode, InsertRequest, FileApproval
  <2>2. /\ \A d \in Calls \ {c} : call'[d] = call[d]
        /\ call'[c].pc # "ensure"
    <3>1. call \in [Calls -> CallRecord]
      BY DEF SInv, TypeOK
    <3>2. CASE Return(c)
      BY <3>1, <3>2 DEF Return, IdleAt
    <3>3. CASE Goto(c, "code") \/ Goto(c, "file")
      BY <1>0, <3>1, <3>3 DEF Goto, CallRecord
    <3>4. CASE ReadAccrued(c) \/ ReadCode(c)
      BY <1>0, <3>1, <3>4 DEF ReadAccrued, ReadCode, CallRecord
    <3> QED BY <1>2, <3>2, <3>3, <3>4 DEF ReadApproved, InsertRequest, FileApproval
  <2>3. LedgerFollowsPolicy'
    BY <2>1 DEF SInv, LedgerFollowsPolicy, AccrualOf
  <2>4. exact' > 0 => ~OldLoop
    BY <2>1 DEF SInv, Settling
  <2> QED BY <2>1, <2>2, <2>3, <2>4, SettlingFrame
<1> QED BY <1>1, <1>2, EnsureMonthSettles, EndLoopSettles DEF CallStep

LEMMA NextSettles == SInv /\ [Next]_vars => SInv'
<1> SUFFICES ASSUME SInv, [Next]_vars PROVE Settling' /\ LedgerFollowsPolicy'
  BY NextTypeOK DEF SInv
<1>1. CASE ChangePolicy
  <2>1. exact' = 0 /\ \A c \in Calls : ~call'[c].alone /\ call'[c].old
    <3>1. ASSUME NEW c \in Calls
          PROVE  ~call'[c].alone /\ call'[c].old
      <4>1. call[c] \in CallRecord
        BY DEF SInv, TypeOK
      <4>2. call'[c] = [call[c] EXCEPT !.old = TRUE, !.alone = FALSE]
        BY <1>1 DEF ChangePolicy
      <4> QED BY <4>1, <4>2 DEF CallRecord
    <3>2. exact' = 0
      BY <1>1 DEF ChangePolicy
    <3> QED BY <3>1, <3>2
  <2> QED BY <2>1 DEF Settling, LedgerFollowsPolicy
<1>2. CASE UNCHANGED <<ledger, policy, exact, call>>
  BY <1>2 DEF SInv, Settling, LedgerFollowsPolicy, OldLoop, AccrualOf
<1> QED BY <1>1, <1>2, CallSettles DEF Next, Decide, NextMonth, vars

\* However many balance queries write the ledger at once, what one of them
\* settles is what the policy in force grants, and it stays so until the policy
\* changes.
THEOREM LedgerSettled == Spec => []LedgerFollowsPolicy
<1>1. Init => SInv
  <2>1. Init => Settling /\ LedgerFollowsPolicy
    BY DEF Init, IdleAt, Settling, LedgerFollowsPolicy
  <2> QED BY <2>1, InitTypeOK DEF SInv
<1>2. SInv => LedgerFollowsPolicy
  BY DEF SInv
<1> QED BY <1>1, <1>2, NextSettles, PTL DEF Spec

-----------------------------------------------------------------------------
(* What was granted                                                          *)

LEMMA UnitsFinite ==
  ASSUME NEW S, IsFiniteSet(S), NEW f, \A x \in S : f[x] \in Nat
  PROVE  IsFiniteSet(Units(f, S)) /\ Total(f, S) \in Nat
<1> DEFINE Part == [x \in S |-> {x} \X (1..f[x])]
           Parts == {{x} \X (1..f[x]) : x \in S}
<1>1. IsFiniteSet(Parts)
  <2>1. Part \in Surjection(S, Parts)
    BY DEF Surjection
  <2> QED BY <2>1, FS_Surjection
<1>2. ASSUME NEW T \in Parts PROVE IsFiniteSet(T)
  <2>1. PICK x \in S : T = {x} \X (1..f[x])
    OBVIOUS
  <2>2. f[x] \in Int
    OBVIOUS
  <2>3. IsFiniteSet(1..f[x])
    BY <2>2, FS_Interval
  <2>4. IsFiniteSet({x})
    BY FS_Singleton
  <2> QED BY <2>1, <2>3, <2>4, FS_Product
<1>3. IsFiniteSet(UNION Parts)
  <2> HIDE DEF Parts
  <2> QED BY <1>1, <1>2, FS_UNION
<1> QED BY <1>3, FS_CardinalityType DEF Units, Total

LEMMA LengthsTyped == LeaveDays \cup {0} \subseteq Nat
  BY ConstantsAssumption

\* A sum grows with its terms.
LEMMA TotalGrows ==
  ASSUME NEW S, IsFiniteSet(S), NEW f, NEW g,
         \A x \in S : f[x] \in Nat /\ g[x] \in Nat /\ f[x] <= g[x]
  PROVE  Total(f, S) <= Total(g, S)
<1>1. Units(f, S) \subseteq Units(g, S)
  BY DEF Units
<1> QED BY <1>1, UnitsFinite, FS_Subset DEF Total

\* As long as the policy is the first one, every call works with it, a row is
\* what it grants or has not been written yet, and what a call has found granted
\* is still there.
Granting ==
    changes = 0 =>
        /\ \A m \in 1..Months : ledger[m] \in {0, AccrualOf(policy, m)}
        /\ \A c \in Calls :
              /\ call[c].accrual = policy
              /\ call[c].pc = "approved" =>
                    \A m \in 1..Months : call[c].accrued[m] <= ledger[m]
              /\ call[c].pc \in {"code", "insert", "file"} =>
                    call[c].wants <= Total(ledger, 1..Months)

GInv == TypeOK /\ Granting /\ NoRequestBeyondAccrual

\* A step that takes nothing from the ledger and changes one call.
LEMMA GrantingFrame ==
  ASSUME GInv, TypeOK', UNCHANGED <<policy, changes>>, NEW c \in Calls,
         \A d \in Calls \ {c} : call'[d] = call[d],
         changes = 0 =>
            /\ \A m \in 1..Months : ledger'[m] \in {ledger[m], AccrualOf(policy, m)}
            /\ call'[c].accrual = policy
            /\ call'[c].pc = "approved" => \A m \in 1..Months : call'[c].accrued[m] <= ledger'[m]
            /\ call'[c].pc \in {"code", "insert", "file"} =>
                  call'[c].wants <= Total(ledger, 1..Months)
            /\ \A r \in Requests : days'[r] \in {days[r]} \cup
                  (IF call[c].pc = "insert" THEN {call[c].wants} ELSE {})
  PROVE  GInv'
<1> SUFFICES ASSUME changes = 0 PROVE Granting' /\ NoRequestBeyondAccrual'
  BY DEF GInv, Granting, NoRequestBeyondAccrual
<1>1. \A m \in 1..Months : AccrualOf(policy, m)' = AccrualOf(policy, m)
  BY DEF AccrualOf
<1>2. \A m \in 1..Months : ledger[m] \in Nat /\ ledger'[m] \in Nat /\ AccrualOf(policy, m) \in Nat
  BY AccrualTyped DEF GInv, TypeOK
<1>3. \A m \in 1..Months : ledger[m] <= ledger'[m]
  BY <1>2 DEF GInv, Granting
<1>4. IsFiniteSet(1..Months)
  BY ConstantsAssumption, FS_Interval
<1>5. /\ Total(ledger, 1..Months) \in Nat /\ Total(ledger', 1..Months) \in Nat
      /\ Total(ledger, 1..Months) <= Total(ledger', 1..Months)
  BY <1>2, <1>3, <1>4, UnitsFinite, TotalGrows
<1>6. \A d \in Calls : /\ call[d] \in CallRecord /\ call'[d] \in CallRecord
                       /\ call[d].wants \in Nat /\ call'[d].wants \in Nat
  BY LengthsTyped DEF GInv, TypeOK, CallRecord
<1>7. \A r \in Requests : days[r] \in Nat /\ days'[r] \in Nat
  BY LengthsTyped DEF GInv, TypeOK
<1>8. ASSUME NEW d \in Calls
      PROVE  /\ call'[d].accrual = policy'
             /\ call'[d].pc = "approved" =>
                   \A m \in 1..Months : call'[d].accrued[m] <= ledger'[m]
             /\ call'[d].pc \in {"code", "insert", "file"} =>
                   call'[d].wants <= Total(ledger', 1..Months)
  <2>1. CASE d = c
    BY <1>5, <1>6, <2>1
  <2>2. CASE d # c
    <3>1. call'[d] = call[d]
      BY <2>2
    <3>2. \A m \in 1..Months : call[d].accrued[m] \in Nat
      BY <1>6 DEF CallRecord
    <3>3. call[d].pc = "approved" => \A m \in 1..Months : call[d].accrued[m] <= ledger[m]
      BY DEF GInv, Granting
    <3>4. call[d].pc = "approved" => \A m \in 1..Months : call[d].accrued[m] <= ledger'[m]
      BY <1>2, <1>3, <3>2, <3>3
    <3>5. call[d].accrual = policy /\ (call[d].pc \in {"code", "insert", "file"} =>
                                          call[d].wants <= Total(ledger, 1..Months))
      BY DEF GInv, Granting
    <3> QED BY <1>5, <1>6, <3>1, <3>4, <3>5
  <2> QED BY <2>1, <2>2
<1>9. \A m \in 1..Months : ledger'[m] \in {0, AccrualOf(policy', m)}
  BY <1>1 DEF GInv, Granting
<1>10. ASSUME NEW r \in Requests, days'[r] # 0
       PROVE  days'[r] <= Total(ledger', 1..Months)
  <2>1. days[r] # 0 => days[r] <= Total(ledger, 1..Months)
    BY DEF GInv, NoRequestBeyondAccrual, Rows
  <2>2. call[c].pc = "insert" => call[c].wants <= Total(ledger, 1..Months)
    BY DEF GInv, Granting
  <2>3. days'[r] = days[r] \/ (call[c].pc = "insert" /\ days'[r] = call[c].wants)
    OBVIOUS
  <2>4. days'[r] <= Total(ledger, 1..Months)
    BY <1>10, <2>1, <2>2, <2>3
  <2> QED BY <1>5, <1>7, <2>4
<1> QED BY <1>8, <1>9, <1>10 DEF Granting, NoRequestBeyondAccrual, Rows

LEMMA CallGrants ==
  ASSUME GInv, TypeOK', NEW c \in Calls, CallStep(c)
  PROVE  GInv'
<1>0. call[c] \in CallRecord /\ call \in [Calls -> CallRecord]
  BY DEF GInv, TypeOK
<1>1. changes = 0 => call[c].accrual = policy
  BY DEF GInv, Granting
<1>2. UNCHANGED <<policy, changes>>
  BY DEF CallStep, BeginCall, EnsureMonth, EndLoop, ReadAccrued, ReadApproved, ReadCode,
         InsertRequest, FileApproval
<1>3. CASE \E n \in LeaveDays \cup {0} : BeginCall(c, n)
  <2>1. PICK n \in LeaveDays \cup {0} : BeginCall(c, n)
    BY <1>3
  <2>2. PICK rec \in CallRecord : call' = [call EXCEPT ![c] = BeginLoop(rec)]
    <3>1. [call[c] EXCEPT !.wants = n, !.again = (n # 0)] \in CallRecord
      BY <1>0 DEF CallRecord
    <3> QED BY <2>1, <3>1 DEF BeginCall
  <2>3. BeginLoop(rec).pc = "ensure" /\ BeginLoop(rec).accrual = policy
    BY DEF BeginLoop, CallRecord
  <2>4. UNCHANGED <<ledger, days>>
    BY <2>1 DEF BeginCall
  <2> QED BY <1>0, <1>2, <2>2, <2>3, <2>4, GrantingFrame
<1>4. CASE EnsureMonth(c)
  <2>1. call[c].next \in 1..Months
    BY <1>0, <1>4, ConstantsAssumption DEF EnsureMonth, CallRecord
  <2>2. /\ \A d \in Calls \ {c} : call'[d] = call[d]
        /\ call'[c].pc = "ensure" /\ call'[c].accrual = call[c].accrual
        /\ UNCHANGED days
    BY <1>0, <1>4 DEF EnsureMonth, CallRecord
  <2>3. changes = 0 => \A m \in 1..Months : ledger'[m] \in {ledger[m], AccrualOf(policy, m)}
    BY <1>1, <1>4, <2>1 DEF EnsureMonth, Upserted, GInv, TypeOK
  <2> QED BY <1>1, <1>2, <2>2, <2>3, GrantingFrame
<1>5. CASE EndLoop(c)
  <2>1. [call[c] EXCEPT !.again = FALSE] \in CallRecord
    BY <1>0 DEF CallRecord
  <2>2. PICK rec \in CallRecord : call' \in {[call EXCEPT ![c] = BeginLoop(rec)],
                                             [call EXCEPT ![c] = [call[c] EXCEPT !.pc = "accrued"]]}
    BY <1>5, <2>1 DEF EndLoop
  <2>3. BeginLoop(rec).pc = "ensure" /\ BeginLoop(rec).accrual = policy
    BY DEF BeginLoop, CallRecord
  <2>4. /\ [call[c] EXCEPT !.pc = "accrued"].pc = "accrued"
        /\ [call[c] EXCEPT !.pc = "accrued"].accrual = call[c].accrual
    BY <1>0 DEF CallRecord
  <2>5. UNCHANGED <<ledger, days>>
    BY <1>5 DEF EndLoop
  <2>6. /\ \A d \in Calls \ {c} : call'[d] = call[d]
        /\ call'[c].pc \in {"ensure", "accrued"}
        /\ changes = 0 => call'[c].accrual = policy
    BY <1>0, <1>1, <2>2, <2>3, <2>4
  <2> QED BY <1>2, <2>5, <2>6, GrantingFrame
<1>6. CASE ReadAccrued(c)
  <2>1. /\ \A d \in Calls \ {c} : call'[d] = call[d]
        /\ call'[c].pc = "approved" /\ call'[c].accrual = call[c].accrual
        /\ call'[c].accrued = ledger /\ UNCHANGED <<days, ledger>>
    BY <1>0, <1>6 DEF ReadAccrued, CallRecord
  <2>2. \A m \in 1..Months : ledger[m] <= ledger[m]
    BY DEF GInv, TypeOK
  <2> QED BY <1>1, <1>2, <2>1, <2>2, GrantingFrame
<1>7. CASE ReadApproved(c)
  <2>1. UNCHANGED <<days, ledger>> /\ call[c].pc = "approved"
    BY <1>7 DEF ReadApproved
  <2>2. CASE Return(c)
    <3>1. /\ \A d \in Calls \ {c} : call'[d] = call[d]
          /\ call'[c].pc = "idle" /\ call'[c].accrual = call[c].accrual
      BY <1>0, <2>2 DEF Return, IdleAt
    <3> QED BY <1>1, <1>2, <2>1, <3>1, GrantingFrame
  <2>3. CASE /\ Goto(c, "code")
             /\ Sufficient(call[c].wants,
                           Total(call[c].accrued, 1..Months) - Total(days, Approved))
    <3>1. /\ \A d \in Calls \ {c} : call'[d] = call[d]
          /\ call'[c].pc = "code" /\ call'[c].accrual = call[c].accrual
          /\ call'[c].wants = call[c].wants
      BY <1>0, <2>3 DEF Goto, CallRecord
    <3>2. IsFiniteSet(1..Months) /\ IsFiniteSet(Approved)
      <4>1. IsFiniteSet(1..Months)
        BY ConstantsAssumption, FS_Interval
      <4>2. Approved \in SUBSET Requests /\ IsFiniteSet(Requests)
        BY ConstantsAssumption DEF Approved
      <4> QED BY <4>1, <4>2, FS_Subset
    <3>3. Total(days, Approved) \in Nat
      <4>1. \A r \in Approved : days[r] \in Nat
        BY LengthsTyped DEF GInv, TypeOK, Approved
      <4> QED BY <3>2, <4>1, UnitsFinite
    <3>4. \A m \in 1..Months : ledger[m] \in Nat /\ call[c].accrued[m] \in Nat
      BY <1>0 DEF GInv, TypeOK, CallRecord
    <3>5. Total(call[c].accrued, 1..Months) \in Nat /\ Total(ledger, 1..Months) \in Nat
      BY <3>2, <3>4, UnitsFinite
    <3>6. changes = 0 => Total(call[c].accrued, 1..Months) <= Total(ledger, 1..Months)
      BY <2>1, <3>2, <3>4, TotalGrows DEF GInv, Granting
    <3>7. call[c].wants \in Nat
      BY <1>0, LengthsTyped DEF CallRecord
    <3>8. changes = 0 => call[c].wants <= Total(ledger, 1..Months)
      BY <2>3, <3>3, <3>5, <3>6, <3>7 DEF Sufficient
    <3> QED BY <1>1, <1>2, <2>1, <3>1, <3>8, GrantingFrame
  <2> QED BY <1>7, <2>2, <2>3 DEF ReadApproved
<1>8. CASE ReadCode(c)
  <2>1. /\ \A d \in Calls \ {c} : call'[d] = call[d]
        /\ call[c].pc = "code" /\ call'[c].pc = "insert"
        /\ call'[c].accrual = call[c].accrual /\ call'[c].wants = call[c].wants
        /\ UNCHANGED <<days, ledger>>
    BY <1>0, <1>8 DEF ReadCode, CallRecord
  <2>2. changes = 0 => call[c].wants <= Total(ledger, 1..Months)
    BY <2>1 DEF GInv, Granting
  <2> QED BY <1>1, <1>2, <2>1, <2>2, GrantingFrame
<1>9. CASE InsertRequest(c)
  <2>1. /\ call[c].pc = "insert" /\ UNCHANGED ledger
        /\ \A r \in Requests : days'[r] \in {days[r], call[c].wants}
    BY <1>9 DEF InsertRequest, GInv, TypeOK
  <2>2. /\ \A d \in Calls \ {c} : call'[d] = call[d]
        /\ call'[c].pc \in {"file", "idle"} /\ call'[c].accrual = call[c].accrual
        /\ call'[c].pc = "file" => call'[c].wants = call[c].wants
    <3>1. CASE Return(c)
      BY <1>0, <3>1 DEF Return, IdleAt
    <3>2. CASE Goto(c, "file")
      BY <1>0, <3>2 DEF Goto, CallRecord
    <3> QED BY <1>9, <3>1, <3>2 DEF InsertRequest
  <2>3. changes = 0 => call[c].wants <= Total(ledger, 1..Months)
    BY <2>1 DEF GInv, Granting
  <2> QED BY <1>1, <1>2, <2>1, <2>2, <2>3, GrantingFrame
<1>10. CASE FileApproval(c)
  <2>1. /\ \A d \in Calls \ {c} : call'[d] = call[d]
        /\ call'[c].pc = "idle" /\ call'[c].accrual = call[c].accrual
        /\ UNCHANGED <<days, ledger>>
    BY <1>0, <1>10 DEF FileApproval, Return, IdleAt
  <2> QED BY <1>1, <1>2, <2>1, GrantingFrame
<1> QED BY <1>3, <1>4, <1>5, <1>6, <1>7, <1>8, <1>9, <1>10 DEF CallStep

LEMMA NextGrants == GInv /\ [Next]_vars => GInv'
<1> SUFFICES ASSUME GInv, [Next]_vars PROVE GInv'
  OBVIOUS
<1>1. TypeOK'
  BY NextTypeOK DEF GInv
<1>2. CASE ChangePolicy
  <2>1. changes' # 0
    <3>1. changes \in Nat
      BY DEF GInv, TypeOK
    <3>2. changes' = changes + 1
      BY <1>2 DEF ChangePolicy
    <3> QED BY <3>1, <3>2
  <2> QED BY <1>1, <2>1 DEF GInv, Granting, NoRequestBeyondAccrual
<1>3. CASE UNCHANGED <<ledger, policy, changes, days, call>>
  BY <1>1, <1>3 DEF GInv, Granting, NoRequestBeyondAccrual, AccrualOf, Rows
<1> QED BY <1>1, <1>2, <1>3, CallGrants DEF Next, Decide, NextMonth, vars

LEMMA RequestsGranted == Spec => []NoRequestBeyondAccrual
<1>1. Init => GInv
  <2> SUFFICES ASSUME Init PROVE Granting /\ NoRequestBeyondAccrual
    BY InitTypeOK DEF GInv
  <2>1. Rows = {} /\ \A m \in 1..Months : ledger[m] = 0
    BY DEF Init, Rows, NoRows
  <2> QED BY <2>1 DEF Init, IdleAt, Granting, NoRequestBeyondAccrual
<1>2. GInv => NoRequestBeyondAccrual
  BY DEF GInv
<1> QED BY <1>1, <1>2, NextGrants, PTL DEF Spec

-----------------------------------------------------------------------------
(* The days off                                                              *)

LEMMA AnyTyped == Free \in HandlerRecord
<1>1. AnyDate \in Date /\ AnyHoliday \in Holiday
  BY DaysOffAssumption DEF AnyDate, AnyHoliday
<1> QED BY <1>1 DEF Free, HandlerRecord

LEMMA HandlerSteps ==
  ASSUME NEW rec \in HandlerRecord
  PROVE  /\ [rec EXCEPT !.late = TRUE] \in HandlerRecord
         /\ [rec EXCEPT !.late = TRUE].pc = rec.pc /\ [rec EXCEPT !.late = TRUE].late
         /\ [rec EXCEPT !.late = TRUE].h = rec.h /\ [rec EXCEPT !.late = TRUE].date = rec.date
         /\ [rec EXCEPT !.late = TRUE].crowded = rec.crowded
         /\ \A pc \in {"count", "claim"} :
               /\ [rec EXCEPT !.pc = pc] \in HandlerRecord /\ [rec EXCEPT !.pc = pc].pc = pc
               /\ [rec EXCEPT !.pc = pc].late = rec.late /\ [rec EXCEPT !.pc = pc].h = rec.h
               /\ [rec EXCEPT !.pc = pc].date = rec.date
  BY DEF HandlerRecord

\* A step that changes one handler.
LEMMA AdvanceTyped ==
  ASSUME DaysOffTypeOK, NEW c \in Handlers,
         Finish(c) \/ Advance(c, "count") \/ Advance(c, "claim")
  PROVE  /\ handler' \in [Handlers -> HandlerRecord]
         /\ \A x \in Handlers \ {c} : handler'[x] = handler[x]
         /\ Finish(c) => handler'[c] = Free
         /\ \A pc \in {"count", "claim"} : Advance(c, pc) =>
               /\ handler'[c].pc = pc /\ handler'[c].late = handler[c].late
               /\ handler'[c].h = handler[c].h /\ handler'[c].date = handler[c].date
<1>1. handler[c] \in HandlerRecord /\ handler \in [Handlers -> HandlerRecord]
  BY DEF DaysOffTypeOK
<1>2. \A pc \in {"count", "claim"} :
         Advance(c, pc) => handler' = [handler EXCEPT ![c] = [handler[c] EXCEPT !.pc = pc]]
  BY DEF Advance
<1>3. CASE Finish(c)
  <2>1. handler' = [handler EXCEPT ![c] = Free]
    BY <1>3 DEF Finish
  <2>2. \A pc \in {"count", "claim"} : ~Advance(c, pc)
    <3>1. handler'[c].pc = "idle"
      BY <1>1, <2>1 DEF Free
    <3> QED BY <1>1, <1>2, <3>1, HandlerSteps
  <2> QED BY <1>1, <2>1, <2>2, AnyTyped
<1>4. CASE ~Finish(c)
  <2>1. PICK q \in {"count", "claim"} :
           handler' = [handler EXCEPT ![c] = [handler[c] EXCEPT !.pc = q]]
    BY <1>2, <1>4
  <2>2. [handler[c] EXCEPT !.pc = q] \in HandlerRecord
    BY <1>1, HandlerSteps
  <2>3. handler' \in [Handlers -> HandlerRecord] /\ \A x \in Handlers \ {c} : handler'[x] = handler[x]
    BY <1>1, <2>1, <2>2
  <2>4. \A p \in {"count", "claim"} :
           Advance(c, p) => handler'[c] = [handler[c] EXCEPT !.pc = p]
    BY <1>1, <1>2
  <2>5. ASSUME NEW p \in {"count", "claim"}, Advance(c, p)
        PROVE  /\ handler'[c].pc = p /\ handler'[c].late = handler[c].late
               /\ handler'[c].h = handler[c].h /\ handler'[c].date = handler[c].date
    <3>1. handler'[c] = [handler[c] EXCEPT !.pc = p]
      BY <2>4, <2>5
    <3> QED BY <1>1, <3>1, HandlerSteps
  <2> QED BY <1>4, <2>3, <2>5
<1> QED BY <1>3, <1>4

\* Those a change overtakes stay where they are.
LEMMA OvertakenTyped ==
  ASSUME DaysOffTypeOK, NEW d \in Date
  PROVE  /\ Overtaken(d) \in [Handlers -> HandlerRecord]
         /\ \A c \in Handlers :
               /\ Overtaken(d)[c].pc = handler[c].pc /\ Overtaken(d)[c].h = handler[c].h
               /\ Overtaken(d)[c].date = handler[c].date
               /\ Overtaken(d)[c].crowded = handler[c].crowded
               /\ ~Overtaken(d)[c].late => ~handler[c].late /\ ~Checked(c, d)
  BY HandlerSteps DEF DaysOffTypeOK, Overtaken

LEMMA DaysOffInitTyped == DaysOffInit => DaysOffTypeOK
<1>1. AnyDate \in Date
  BY DaysOffAssumption DEF AnyDate
<1> QED BY <1>1, AnyTyped DEF DaysOffInit, DaysOffTypeOK, RequestRecord, HolidayRecord

LEMMA DaysOffTyped == DaysOffTypeOK /\ [DaysOffNext]_daysOffVars => DaysOffTypeOK'
<1> SUFFICES ASSUME DaysOffTypeOK, [DaysOffNext]_daysOffVars PROVE DaysOffTypeOK'
  OBVIOUS
<1>1. ASSUME NEW c \in Handlers, CheckConflict(c) \/ CountClaims(c) PROVE DaysOffTypeOK'
  <2>1. Finish(c) \/ Advance(c, "count") \/ Advance(c, "claim")
    BY <1>1 DEF CheckConflict, CountClaims
  <2>2. handler' \in [Handlers -> HandlerRecord]
    BY <2>1, AdvanceTyped
  <2> QED BY <1>1, <2>2 DEF CheckConflict, CountClaims, DaysOffTypeOK
<1>2. ASSUME NEW c \in Handlers, StoreClaim(c) PROVE DaysOffTypeOK'
  <2>1. handler' \in [Handlers -> HandlerRecord]
    BY <1>2, AdvanceTyped DEF StoreClaim
  <2>2. handler[c].h \in Holiday
    BY DEF DaysOffTypeOK, HandlerRecord
  <2> QED BY <1>2, <2>1, <2>2 DEF StoreClaim, DaysOffTypeOK
<1>3. ASSUME NEW c \in Handlers, NEW d \in Date, Ask(c, d) PROVE DaysOffTypeOK'
  <2>1. \A b \in BOOLEAN : [Free EXCEPT !.pc = "store", !.date = d, !.crowded = b] \in HandlerRecord
    BY AnyTyped DEF HandlerRecord
  <2>2. (Asked # {} \/ \E x \in Handlers : At(x, "store")) \in BOOLEAN
    OBVIOUS
  <2>3. handler' \in [Handlers -> HandlerRecord]
    BY <1>3, <2>1, <2>2, Zenon DEF Ask, DaysOffTypeOK
  <2> QED BY <1>3, <2>3 DEF Ask, DaysOffTypeOK
<1>4. ASSUME NEW c \in Handlers, NEW r \in Request, StoreRequest(c, r) PROVE DaysOffTypeOK'
  <2>1. handler[c].date \in Date
    BY DEF DaysOffTypeOK, HandlerRecord
  <2>2. handler' \in [Handlers -> HandlerRecord]
    BY <1>4, <2>1, AnyTyped, OvertakenTyped DEF StoreRequest
  <2>3. wfh' \in [Request -> RequestRecord]
    BY <1>4, <2>1 DEF StoreRequest, DaysOffTypeOK, RequestRecord
  <2>4. disturbed' \subseteq Holiday /\ crowded' \subseteq Request
    BY <1>4 DEF StoreRequest, DaysOffTypeOK, Disturb
  <2> QED BY <1>4, <2>2, <2>3, <2>4 DEF StoreRequest, DaysOffTypeOK
<1>5. ASSUME NEW c \in Handlers, NEW h \in Holiday, Claim(c, h) PROVE DaysOffTypeOK'
  <2>1. holiday[h].date \in Date
    BY DEF DaysOffTypeOK, HolidayRecord
  <2>2. [Free EXCEPT !.pc = "conflict", !.h = h, !.date = holiday[h].date] \in HandlerRecord
    BY <2>1, AnyTyped DEF HandlerRecord
  <2>3. handler' \in [Handlers -> HandlerRecord]
    BY <1>5, <2>2 DEF Claim, DaysOffTypeOK
  <2> QED BY <1>5, <2>3 DEF Claim, DaysOffTypeOK
<1>6. ASSUME NEW r \in Request, NEW status \in {"APPROVED", "REJECTED"}, DecideRequest(r, status)
      PROVE  DaysOffTypeOK'
  BY <1>6 DEF DecideRequest, DaysOffTypeOK, RequestRecord
<1>7. ASSUME NEW n \in 0..MaxQuota, SetQuota(n) PROVE DaysOffTypeOK'
  BY <1>7 DEF SetQuota, DaysOffTypeOK
<1>8. ASSUME NEW h \in Holiday, NEW optional \in BOOLEAN, NEW enabled \in BOOLEAN, NEW d \in Date,
             PutHoliday(h, optional, enabled, d)
      PROVE  DaysOffTypeOK'
  <2>1. handler' \in [Handlers -> HandlerRecord]
    BY <1>8, HandlerSteps DEF PutHoliday, DaysOffTypeOK
  <2>2. holiday' \in [Holiday -> HolidayRecord]
    BY <1>8 DEF PutHoliday, DaysOffTypeOK, HolidayRecord
  <2> QED BY <1>8, <2>1, <2>2 DEF PutHoliday, DaysOffTypeOK
<1>9. ASSUME NEW h \in Holiday, DeleteHoliday(h) PROVE DaysOffTypeOK'
  BY <1>9 DEF DeleteHoliday, DaysOffTypeOK, HolidayRecord
<1>10. ASSUME NEW d \in Date, FileLeave(d) \/ RejectLeave(d) PROVE DaysOffTypeOK'
  <2>1. handler' \in [Handlers -> HandlerRecord]
    BY <1>10, OvertakenTyped DEF FileLeave, RejectLeave, DaysOffTypeOK
  <2>2. disturbed' \subseteq Holiday
    BY <1>10 DEF FileLeave, RejectLeave, DaysOffTypeOK, Disturb
  <2> QED BY <1>10, <2>1, <2>2 DEF FileLeave, RejectLeave, DaysOffTypeOK
<1>11. CASE UNCHANGED daysOffVars
  BY <1>11 DEF daysOffVars, DaysOffTypeOK
<1> QED BY <1>1, <1>2, <1>3, <1>4, <1>5, <1>6, <1>7, <1>8, <1>9, <1>10, <1>11 DEF DaysOffNext

\* What ClaimsBounded leaves out: those about to store a claim have been counted.
Storing(pc) == {c \in Handlers : At(c, pc)}
ClaimsCounted ==
    Cardinality(claims) + Cardinality(Storing("claim")) <= allowed + Cardinality(Handlers) - 1

\* What ApprovedWithinQuota leaves out: one that is alone holds its day from the
\* moment it has read the balance.
AloneAhead == (Granted \cup Asked) \ crowded
AloneStoring == {c \in Handlers : At(c, "store") /\ ~handler[c].crowded}
RequestsCounted ==
    quota <= peak /\ Cardinality(AloneAhead) + Cardinality(AloneStoring) <= peak

\* What ClaimedDayIsFree leaves out: a claim that is not late works with the day
\* of its holiday, and once that was checked it is free.
ClaimsInTime ==
    \A c \in Handlers : Claiming(c) /\ ~handler[c].late =>
        /\ handler[c].date = holiday[handler[c].h].date
        /\ ~At(c, "conflict") => DayFree(handler[c].date)

DInv ==
    /\ DaysOffTypeOK /\ ClaimsCounted /\ ClaimsHaveHoliday
    /\ RequestsCounted /\ ClaimsInTime /\ ClaimedDayIsFree

LEMMA PartsFinite ==
  /\ \A S \in SUBSET Holiday : IsFiniteSet(S) /\ Cardinality(S) \in Nat
  /\ \A S \in SUBSET Request : IsFiniteSet(S) /\ Cardinality(S) \in Nat
  /\ \A S \in SUBSET Handlers :
        IsFiniteSet(S) /\ Cardinality(S) \in Nat /\ Cardinality(S) <= Cardinality(Handlers)
  /\ Cardinality(Handlers) \in Nat /\ Cardinality(Handlers) > 0
<1>1. IsFiniteSet(Handlers) /\ IsFiniteSet(Holiday) /\ IsFiniteSet(Request) /\ Handlers # {}
  BY DaysOffAssumption
<1>2. Cardinality(Handlers) \in Nat /\ Cardinality(Handlers) # 0
  BY <1>1, FS_CardinalityType, FS_EmptySet
<1>3. \A S \in SUBSET Holiday : IsFiniteSet(S) /\ Cardinality(S) \in Nat
  BY <1>1, FS_Subset, FS_CardinalityType
<1>4. \A S \in SUBSET Request : IsFiniteSet(S) /\ Cardinality(S) \in Nat
  BY <1>1, FS_Subset, FS_CardinalityType
<1>5. \A S \in SUBSET Handlers :
         IsFiniteSet(S) /\ Cardinality(S) \in Nat /\ Cardinality(S) <= Cardinality(Handlers)
  BY <1>1, FS_Subset, FS_CardinalityType
<1> QED BY <1>2, <1>3, <1>4, <1>5

LEMMA ClaimsCountedKept ==
  ASSUME DInv, DaysOffNext, DaysOffTypeOK'
  PROVE  ClaimsCounted'
<1>0. DaysOffTypeOK /\ ClaimsCounted /\ allowed \in Nat
  BY DaysOffAssumption DEF DInv, DaysOffTypeOK
<1>1. /\ claims \in SUBSET Holiday /\ claims' \in SUBSET Holiday
      /\ Storing("claim") \in SUBSET Handlers /\ Storing("claim")' \in SUBSET Handlers
  BY <1>0 DEF DaysOffTypeOK, Storing
<1>2. /\ IsFiniteSet(claims) /\ IsFiniteSet(Storing("claim")) /\ Cardinality(Handlers) \in Nat
       /\ Cardinality(claims) \in Nat /\ Cardinality(claims') \in Nat
       /\ Cardinality(Storing("claim")) \in Nat /\ Cardinality(Storing("claim")') \in Nat
       /\ Cardinality(Storing("claim")') <= Cardinality(Handlers)
  BY <1>1, PartsFinite
<1>3. ASSUME claims' \subseteq claims, Storing("claim")' \subseteq Storing("claim"), allowed' = allowed
      PROVE  ClaimsCounted'
  <2>1. Cardinality(claims') <= Cardinality(claims)
    BY <1>2, <1>3, FS_Subset
  <2>2. Cardinality(Storing("claim")') <= Cardinality(Storing("claim"))
    BY <1>2, <1>3, FS_Subset
  <2> QED BY <1>0, <1>3, <1>2, <2>1, <2>2 DEF ClaimsCounted
<1>4. ASSUME NEW c \in Handlers, CountClaims(c) PROVE ClaimsCounted'
  <2>1. CASE Cardinality(claims) >= allowed
    <3>1. Finish(c)
      BY <1>4, <2>1 DEF CountClaims
    <3>2. Storing("claim")' \subseteq Storing("claim")
      BY <1>0, <3>1, AdvanceTyped DEF Storing, At, Free
    <3> QED BY <1>3, <1>4, <3>2 DEF CountClaims
  <2>2. CASE ~(Cardinality(claims) >= allowed)
    <3>1. Cardinality(claims) <= allowed - 1
      BY <1>0, <1>2, <2>2
    <3>2. claims' = claims /\ allowed' = allowed
      BY <1>4 DEF CountClaims
    <3> QED BY <1>0, <1>2, <3>1, <3>2 DEF ClaimsCounted
  <2> QED BY <2>1, <2>2
<1>5. ASSUME NEW c \in Handlers, StoreClaim(c) PROVE ClaimsCounted'
  <2>1. /\ c \in Storing("claim") /\ Storing("claim")' = Storing("claim") \ {c}
        /\ allowed' = allowed
    BY <1>0, <1>5, AdvanceTyped DEF StoreClaim, Storing, At, Free
  <2>2. Cardinality(Storing("claim")') = Cardinality(Storing("claim")) - 1
    BY <1>2, <2>1, FS_RemoveElement
  <2>3. PICK h : claims' = claims \/ claims' = claims \cup {h}
    BY <1>5 DEF StoreClaim
  <2>4. Cardinality(claims') <= Cardinality(claims) + 1
    BY <1>2, <2>3, FS_AddElement
  <2> QED BY <1>0, <1>2, <2>1, <2>2, <2>4 DEF ClaimsCounted
<1>6. ASSUME NEW c \in Handlers, CheckConflict(c) PROVE ClaimsCounted'
  <2>1. Finish(c) \/ Advance(c, "count")
    BY <1>6 DEF CheckConflict
  <2>2. Storing("claim")' \subseteq Storing("claim")
    BY <1>0, <2>1, AdvanceTyped DEF Storing, At, Free
  <2> QED BY <1>3, <1>6, <2>2 DEF CheckConflict
<1>7. ASSUME NEW c \in Handlers, NEW rec \in HandlerRecord, rec.pc # "claim",
             handler' = [handler EXCEPT ![c] = rec]
      PROVE  Storing("claim")' \subseteq Storing("claim")
  BY <1>0, <1>7 DEF Storing, At, DaysOffTypeOK
<1>8. ASSUME NEW c \in Handlers, NEW d \in Date, Ask(c, d) PROVE ClaimsCounted'
  <2>1. PICK b \in BOOLEAN :
           handler' = [handler EXCEPT ![c] = [Free EXCEPT !.pc = "store", !.date = d, !.crowded = b]]
    <3>1. (Asked # {} \/ \E x \in Handlers : At(x, "store")) \in BOOLEAN
      OBVIOUS
    <3> QED BY <1>8, <3>1, Zenon DEF Ask
  <2>2. [Free EXCEPT !.pc = "store", !.date = d, !.crowded = b] \in HandlerRecord
    BY AnyTyped DEF HandlerRecord
  <2>3. [Free EXCEPT !.pc = "store", !.date = d, !.crowded = b].pc # "claim"
    BY DEF Free
  <2>4. Storing("claim")' \subseteq Storing("claim")
    BY <1>7, <2>1, <2>2, <2>3
  <2> QED BY <1>3, <1>8, <2>4 DEF Ask
<1>9. ASSUME NEW c \in Handlers, NEW h \in Holiday, Claim(c, h) PROVE ClaimsCounted'
  <2>1. holiday[h].date \in Date
    BY <1>0 DEF DaysOffTypeOK, HolidayRecord
  <2>2. /\ [Free EXCEPT !.pc = "conflict", !.h = h, !.date = holiday[h].date] \in HandlerRecord
        /\ [Free EXCEPT !.pc = "conflict", !.h = h, !.date = holiday[h].date].pc # "claim"
    BY <2>1, AnyTyped DEF HandlerRecord, Free
  <2>3. Storing("claim")' \subseteq Storing("claim")
    BY <1>7, <1>9, <2>2 DEF Claim
  <2> QED BY <1>3, <1>9, <2>3 DEF Claim
<1>10. ASSUME NEW c \in Handlers, NEW r \in Request, StoreRequest(c, r) PROVE ClaimsCounted'
  <2>1. handler[c].date \in Date
    BY <1>0 DEF DaysOffTypeOK, HandlerRecord
  <2>2. \A x \in Handlers : handler'[x].pc \in {handler[x].pc, "idle"}
    BY <1>0, <1>10, <2>1, OvertakenTyped DEF StoreRequest, Free
  <2>3. Storing("claim")' \subseteq Storing("claim")
    BY <2>2 DEF Storing, At
  <2> QED BY <1>3, <1>10, <2>3 DEF StoreRequest
<1>11. ASSUME NEW d \in Date, FileLeave(d) \/ RejectLeave(d) PROVE ClaimsCounted'
  <2>1. Storing("claim")' \subseteq Storing("claim")
    BY <1>0, <1>11, OvertakenTyped DEF FileLeave, RejectLeave, Storing, At
  <2> QED BY <1>3, <1>11, <2>1 DEF FileLeave, RejectLeave
<1>12. ASSUME NEW h \in Holiday, NEW optional \in BOOLEAN, NEW enabled \in BOOLEAN, NEW d \in Date,
              PutHoliday(h, optional, enabled, d)
       PROVE  ClaimsCounted'
  <2>1. Storing("claim")' \subseteq Storing("claim")
    BY <1>0, <1>12, HandlerSteps DEF PutHoliday, Storing, At, DaysOffTypeOK
  <2> QED BY <1>3, <1>12, <2>1 DEF PutHoliday
<1>13. ASSUME NEW h \in Holiday, DeleteHoliday(h) PROVE ClaimsCounted'
  BY <1>3, <1>13 DEF DeleteHoliday, Storing, At
<1>14. ASSUME NEW r \in Request, NEW status \in {"APPROVED", "REJECTED"}, DecideRequest(r, status)
       PROVE  ClaimsCounted'
  BY <1>3, <1>14 DEF DecideRequest, Storing, At
<1>15. ASSUME NEW n \in 0..MaxQuota, SetQuota(n) PROVE ClaimsCounted'
  BY <1>3, <1>15 DEF SetQuota, Storing, At
<1> QED BY <1>4, <1>5, <1>6, <1>8, <1>9, <1>10, <1>11, <1>12, <1>13, <1>14, <1>15 DEF DaysOffNext

LEMMA RequestsCountedKept ==
  ASSUME DInv, DaysOffNext, DaysOffTypeOK'
  PROVE  RequestsCounted'
<1>0. /\ DaysOffTypeOK /\ RequestsCounted
      /\ quota \in Nat /\ quota' \in Nat /\ peak \in Nat /\ peak' \in Nat
  BY DaysOffAssumption DEF DInv, DaysOffTypeOK
<1>1. /\ AloneAhead \in SUBSET Request /\ AloneAhead' \in SUBSET Request
      /\ AloneStoring \in SUBSET Handlers /\ AloneStoring' \in SUBSET Handlers
  BY DEF AloneAhead, AloneStoring, Granted, Asked
<1>2. /\ IsFiniteSet(AloneAhead) /\ IsFiniteSet(AloneStoring)
      /\ Cardinality(AloneAhead) \in Nat /\ Cardinality(AloneAhead') \in Nat
      /\ Cardinality(AloneStoring) \in Nat /\ Cardinality(AloneStoring') \in Nat
  BY <1>1, PartsFinite
<1>3. ASSUME AloneAhead' \subseteq AloneAhead, AloneStoring' \subseteq AloneStoring,
             UNCHANGED <<quota, peak>>
      PROVE  RequestsCounted'
  <2>1. Cardinality(AloneAhead') <= Cardinality(AloneAhead)
    BY <1>2, <1>3, FS_Subset
  <2>2. Cardinality(AloneStoring') <= Cardinality(AloneStoring)
    BY <1>2, <1>3, FS_Subset
  <2> QED BY <1>0, <1>2, <1>3, <2>1, <2>2 DEF RequestsCounted
<1>4. ASSUME UNCHANGED <<wfh, crowded>> PROVE AloneAhead' = AloneAhead
  BY <1>4 DEF AloneAhead, Granted, Asked
<1>5. ASSUME NEW c \in Handlers, CheckConflict(c) \/ CountClaims(c) \/ StoreClaim(c)
      PROVE  RequestsCounted'
  <2>1. Finish(c) \/ Advance(c, "count") \/ Advance(c, "claim")
    BY <1>5 DEF CheckConflict, CountClaims, StoreClaim
  <2>2. AloneStoring' \subseteq AloneStoring
    <3>1. handler'[c].pc # "store" /\ \A x \in Handlers \ {c} : handler'[x] = handler[x]
      BY <1>0, <2>1, AdvanceTyped DEF Free
    <3> QED BY <3>1 DEF AloneStoring, At
  <2> QED BY <1>3, <1>4, <1>5, <2>2 DEF CheckConflict, CountClaims, StoreClaim
<1>6. ASSUME NEW c \in Handlers, NEW d \in Date, Ask(c, d) PROVE RequestsCounted'
  <2>1. PICK b \in BOOLEAN :
           /\ b <=> Asked # {} \/ \E x \in Handlers : At(x, "store")
           /\ handler' = [handler EXCEPT ![c] = [Free EXCEPT !.pc = "store", !.date = d, !.crowded = b]]
    <3>1. (Asked # {} \/ \E x \in Handlers : At(x, "store")) \in BOOLEAN
      OBVIOUS
    <3> QED BY <1>6, <3>1, Zenon DEF Ask
  <2>2. /\ [Free EXCEPT !.pc = "store", !.date = d, !.crowded = b].pc = "store"
        /\ [Free EXCEPT !.pc = "store", !.date = d, !.crowded = b].crowded = b
    BY DEF Free
  <2>3. /\ handler'[c].pc = "store" /\ handler'[c].crowded = b
        /\ \A x \in Handlers \ {c} : handler'[x] = handler[x]
        /\ handler[c].pc = "idle"
    BY <1>0, <1>6, <2>1, <2>2 DEF DaysOffTypeOK, Ask, At
  <2>4. AloneAhead' = AloneAhead /\ UNCHANGED <<quota, peak>>
    BY <1>4, <1>6 DEF Ask
  <2>5. CASE b
    <3>1. AloneStoring' \subseteq AloneStoring
      BY <2>3, <2>5 DEF AloneStoring, At
    <3> QED BY <1>3, <2>4, <3>1
  <2>6. CASE ~b
    <3>1. Asked = {} /\ \A x \in Handlers : ~At(x, "store")
      BY <2>1, <2>6
    <3>2. AloneStoring = {} /\ AloneStoring' = {c}
      BY <2>3, <2>6, <3>1 DEF AloneStoring, At
    <3>3. Cardinality(AloneStoring') = 1
      BY <3>2, FS_Singleton
    <3>4. Granted \in SUBSET Request /\ AloneAhead \subseteq Granted
      BY <3>1 DEF AloneAhead, Granted
    <3>5. Cardinality(AloneAhead) <= Cardinality(Granted) /\ Cardinality(Granted) \in Nat
      BY <3>4, PartsFinite, FS_Subset
    <3>6. Cardinality(Granted) < quota
      BY <1>0, <1>6, <3>5 DEF Ask, Available
    <3> QED BY <1>0, <1>2, <2>4, <3>3, <3>5, <3>6 DEF RequestsCounted
  <2> QED BY <2>5, <2>6
<1>7. ASSUME NEW c \in Handlers, NEW h \in Holiday, Claim(c, h) PROVE RequestsCounted'
  <2>1. [Free EXCEPT !.pc = "conflict", !.h = h, !.date = holiday[h].date].pc # "store"
    BY DEF Free
  <2>2. AloneStoring' \subseteq AloneStoring
    BY <1>0, <1>7, <2>1 DEF Claim, AloneStoring, At, DaysOffTypeOK
  <2> QED BY <1>3, <1>4, <1>7, <2>2 DEF Claim
<1>8. ASSUME NEW c \in Handlers, NEW r \in Request, StoreRequest(c, r) PROVE RequestsCounted'
  <2>1. handler[c].date \in Date
    BY <1>0 DEF DaysOffTypeOK, HandlerRecord
  <2>2. /\ handler[c].pc = "store" /\ handler'[c] = Free
        /\ \A x \in Handlers \ {c} :
              handler'[x].pc = handler[x].pc /\ handler'[x].crowded = handler[x].crowded
    BY <1>0, <1>8, <2>1, OvertakenTyped DEF StoreRequest, At
  <2>3. AloneStoring' = AloneStoring \ {c}
    BY <2>2 DEF AloneStoring, At, Free
  <2>4. /\ \A x \in Request \ {r} : wfh'[x] = wfh[x]
        /\ UNCHANGED <<quota, peak>>
        /\ crowded' = IF handler[c].crowded THEN crowded \cup {r} ELSE crowded
    BY <1>0, <1>8 DEF StoreRequest, DaysOffTypeOK
  <2>5. CASE handler[c].crowded
    <3>1. AloneAhead' \subseteq AloneAhead
      BY <2>4, <2>5 DEF AloneAhead, Granted, Asked
    <3> QED BY <1>3, <2>3, <2>4, <3>1
  <2>6. CASE ~handler[c].crowded
    <3>1. AloneAhead' \subseteq AloneAhead \cup {r}
      BY <2>4, <2>6 DEF AloneAhead, Granted, Asked
    <3>2. Cardinality(AloneAhead') <= Cardinality(AloneAhead) + 1
      <4>1. /\ IsFiniteSet(AloneAhead \cup {r})
            /\ Cardinality(AloneAhead \cup {r}) \in {Cardinality(AloneAhead), Cardinality(AloneAhead) + 1}
        BY <1>2, FS_AddElement
      <4>2. Cardinality(AloneAhead') <= Cardinality(AloneAhead \cup {r})
        BY <3>1, <4>1, FS_Subset
      <4> QED BY <1>2, <4>1, <4>2
    <3>3. c \in AloneStoring
      BY <2>2, <2>6 DEF AloneStoring, At
    <3>4. Cardinality(AloneStoring') = Cardinality(AloneStoring) - 1
      BY <1>2, <2>3, <3>3, FS_RemoveElement
    <3> QED BY <1>0, <1>2, <2>4, <3>2, <3>4 DEF RequestsCounted
  <2> QED BY <2>5, <2>6
<1>9. ASSUME NEW r \in Request, NEW status \in {"APPROVED", "REJECTED"}, DecideRequest(r, status)
      PROVE  RequestsCounted'
  <2>1. AloneAhead' \subseteq AloneAhead
    BY <1>0, <1>9 DEF DecideRequest, AloneAhead, Granted, Asked, DaysOffTypeOK, RequestRecord
  <2> QED BY <1>3, <1>9, <2>1 DEF DecideRequest, AloneStoring, At
<1>10. ASSUME NEW n \in 0..MaxQuota, SetQuota(n) PROVE RequestsCounted'
  <2>1. AloneAhead' = AloneAhead /\ AloneStoring' = AloneStoring
    BY <1>4, <1>10 DEF SetQuota, AloneStoring, At
  <2>2. quota' <= peak' /\ peak <= peak'
    BY <1>0, <1>10 DEF SetQuota
  <2> QED BY <1>0, <1>2, <2>1, <2>2 DEF RequestsCounted
<1>11. ASSUME NEW h \in Holiday, NEW optional \in BOOLEAN, NEW enabled \in BOOLEAN, NEW d \in Date,
              PutHoliday(h, optional, enabled, d)
       PROVE  RequestsCounted'
  <2>1. \A x \in Handlers : handler'[x].pc = handler[x].pc /\ handler'[x].crowded = handler[x].crowded
    BY <1>0, <1>11, HandlerSteps DEF PutHoliday, DaysOffTypeOK
  <2>2. AloneStoring' = AloneStoring
    BY <2>1 DEF AloneStoring, At
  <2> QED BY <1>3, <1>4, <1>11, <2>2 DEF PutHoliday
<1>12. ASSUME NEW h \in Holiday, DeleteHoliday(h) PROVE RequestsCounted'
  BY <1>3, <1>4, <1>12 DEF DeleteHoliday, AloneStoring, At
<1>13. ASSUME NEW d \in Date, FileLeave(d) \/ RejectLeave(d) PROVE RequestsCounted'
  <2>1. \A x \in Handlers : handler'[x].pc = handler[x].pc /\ handler'[x].crowded = handler[x].crowded
    BY <1>0, <1>13, OvertakenTyped DEF FileLeave, RejectLeave
  <2>2. AloneStoring' = AloneStoring
    BY <2>1 DEF AloneStoring, At
  <2> QED BY <1>3, <1>4, <1>13, <2>2 DEF FileLeave, RejectLeave
<1> QED BY <1>5, <1>6, <1>7, <1>8, <1>9, <1>10, <1>11, <1>12, <1>13 DEF DaysOffNext

\* Day d is free after the step.
StaysFree(d) == d \notin absent' /\ \A r \in (Asked \cup Granted)' : wfh'[r].date # d

\* What a step must keep of one handler, and of one claim.
InTimeNext(x) ==
    Claiming(x)' /\ ~handler'[x].late =>
        /\ handler'[x].date = holiday'[handler'[x].h].date
        /\ handler'[x].pc # "conflict" => StaysFree(handler'[x].date)

LEMMA InTimeParts ==
  /\ ClaimsInTime' <=> \A x \in Handlers : InTimeNext(x)
  /\ ClaimedDayIsFree' <=> \A h \in claims' \ disturbed' : StaysFree(holiday'[h].date)
<1>1. ClaimsInTime' <=> \A x \in Handlers : InTimeNext(x)
  BY DEF ClaimsInTime, InTimeNext, DayFree, StaysFree, At
<1>2. ClaimedDayIsFree' <=> \A h \in claims' \ disturbed' : StaysFree(holiday'[h].date)
  BY DEF ClaimedDayIsFree, DayFree, StaysFree
<1> QED BY <1>1, <1>2

LEMMA FreeStays ==
  ASSUME UNCHANGED wfh, absent' \subseteq absent
  PROVE  \A d : DayFree(d) => StaysFree(d)
  BY DEF DayFree, StaysFree, Asked, Granted

\* A handler that keeps its claim, while no day is asked for, keeps it in time.
LEMMA InTimeStays ==
  ASSUME DInv, NEW x \in Handlers, UNCHANGED holiday, handler'[x] = handler[x],
         \A d : DayFree(d) => StaysFree(d)
  PROVE  InTimeNext(x)
<1> SUFFICES ASSUME Claiming(x)', ~handler'[x].late
             PROVE  /\ handler'[x].date = holiday'[handler'[x].h].date
                    /\ handler'[x].pc # "conflict" => StaysFree(handler'[x].date)
  BY DEF InTimeNext
<1>1. Claiming(x) /\ ~handler[x].late
  BY DEF Claiming
<1>2. /\ handler[x].date = holiday[handler[x].h].date
      /\ handler[x].pc # "conflict" => DayFree(handler[x].date)
  BY <1>1 DEF DInv, ClaimsInTime, At
<1> QED BY <1>2

\* A step that changes at most the place of one claim.
LEMMA ClaimFrame ==
  ASSUME DInv, NEW c \in Handlers, UNCHANGED <<holiday, claims, disturbed>>,
         \A d : DayFree(d) => StaysFree(d),
         \A x \in Handlers \ {c} : handler'[x] = handler[x],
         InTimeNext(c)
  PROVE  ClaimsHaveHoliday' /\ ClaimsInTime' /\ ClaimedDayIsFree'
<1>1. \A x \in Handlers : InTimeNext(x)
  BY InTimeStays
<1>2. ClaimsHaveHoliday'
  BY DEF DInv, ClaimsHaveHoliday
<1>3. \A h \in claims' \ disturbed' : StaysFree(holiday'[h].date)
  BY DEF DInv, ClaimedDayIsFree
<1> QED BY <1>1, <1>2, <1>3, InTimeParts

\* A step that asks for day d.
LEMMA DisturbFrame ==
  ASSUME DInv, NEW d \in Date, UNCHANGED <<holiday, claims>>, Disturb(d),
         \A x \in Handlers : handler'[x] = Overtaken(d)[x] \/ ~Claiming(x)',
         \A e : e # d /\ DayFree(e) => StaysFree(e)
  PROVE  ClaimsHaveHoliday' /\ ClaimsInTime' /\ ClaimedDayIsFree'
<1>0. DaysOffTypeOK
  BY DEF DInv
<1>1. ASSUME NEW x \in Handlers PROVE InTimeNext(x)
  <2> SUFFICES ASSUME Claiming(x)', ~handler'[x].late
               PROVE  /\ handler'[x].date = holiday'[handler'[x].h].date
                      /\ handler'[x].pc # "conflict" => StaysFree(handler'[x].date)
    BY DEF InTimeNext
  <2>1. handler'[x] = Overtaken(d)[x]
    OBVIOUS
  <2>2. /\ handler'[x].pc = handler[x].pc /\ handler'[x].h = handler[x].h
        /\ handler'[x].date = handler[x].date /\ ~handler[x].late /\ ~Checked(x, d)
    BY <1>0, <2>1, OvertakenTyped
  <2>3. Claiming(x)
    BY <2>2 DEF Claiming
  <2>4. /\ handler[x].date = holiday[handler[x].h].date
        /\ handler[x].pc # "conflict" => DayFree(handler[x].date)
    BY <2>2, <2>3 DEF DInv, ClaimsInTime, At
  <2>5. handler[x].pc # "conflict" => handler[x].date # d
    BY <2>2, <2>3 DEF Checked, Claiming, At
  <2> QED BY <2>2, <2>4, <2>5
<1>2. ASSUME NEW h \in claims' \ disturbed' PROVE StaysFree(holiday'[h].date)
  <2>1. h \in claims \ disturbed /\ holiday[h].date # d
    BY <1>2 DEF Disturb
  <2>2. DayFree(holiday[h].date)
    BY <2>1 DEF DInv, ClaimedDayIsFree
  <2> QED BY <2>1, <2>2
<1>3. ClaimsHaveHoliday'
  BY DEF DInv, ClaimsHaveHoliday
<1> QED BY <1>1, <1>2, <1>3, InTimeParts

LEMMA ClaimsInTimeKept ==
  ASSUME DInv, DaysOffNext
  PROVE  ClaimsHaveHoliday' /\ ClaimsInTime' /\ ClaimedDayIsFree'
<1> DEFINE Kept == ClaimsHaveHoliday' /\ ClaimsInTime' /\ ClaimedDayIsFree'
<1> SUFFICES Kept
  OBVIOUS
<1>0. DaysOffTypeOK /\ handler \in [Handlers -> HandlerRecord]
  BY DEF DInv, DaysOffTypeOK
<1> HIDE DEF Kept
<1>1. ASSUME NEW c \in Handlers, CheckConflict(c) PROVE Kept
  <2>1. UNCHANGED <<wfh, absent, holiday, claims, disturbed>> /\ handler[c].pc = "conflict"
    BY <1>1 DEF CheckConflict, At
  <2>2. (Finish(c) \/ Advance(c, "count")) /\ (Advance(c, "count") => DayFree(handler[c].date))
    <3>1. CASE DayFree(handler[c].date)
      BY <1>1, <3>1 DEF CheckConflict
    <3>2. CASE ~DayFree(handler[c].date)
      <4>1. Finish(c)
        BY <1>1, <3>2 DEF CheckConflict
      <4>2. ~Advance(c, "count")
        BY <1>0, <4>1, AdvanceTyped DEF Free
      <4> QED BY <4>1, <4>2
    <3> QED BY <3>1, <3>2
  <2>3. \A d : DayFree(d) => StaysFree(d)
    BY <2>1, FreeStays
  <2>4. \A x \in Handlers \ {c} : handler'[x] = handler[x]
    BY <1>0, <2>2, AdvanceTyped
  <2>5. InTimeNext(c)
    <3>1. CASE Finish(c)
      BY <1>0, <3>1, AdvanceTyped DEF InTimeNext, Claiming, Free
    <3>2. CASE Advance(c, "count")
      <4>1. handler'[c].late = handler[c].late /\ handler'[c].h = handler[c].h
            /\ handler'[c].date = handler[c].date
        BY <1>0, <3>2, AdvanceTyped
      <4>2. ~handler[c].late => handler[c].date = holiday[handler[c].h].date
        BY <2>1 DEF DInv, ClaimsInTime, Claiming
      <4> QED BY <2>1, <2>2, <2>3, <3>2, <4>1, <4>2 DEF InTimeNext
    <3> QED BY <2>2, <3>1, <3>2
  <2> QED BY <2>1, <2>3, <2>4, <2>5, ClaimFrame DEF Kept
<1>2. ASSUME NEW c \in Handlers, CountClaims(c) PROVE Kept
  <2>1. UNCHANGED <<wfh, absent, holiday, claims, disturbed>> /\ handler[c].pc = "count"
    BY <1>2 DEF CountClaims, At
  <2>2. Finish(c) \/ Advance(c, "claim")
    BY <1>2 DEF CountClaims
  <2>3. \A d : DayFree(d) => StaysFree(d)
    BY <2>1, FreeStays
  <2>4. \A x \in Handlers \ {c} : handler'[x] = handler[x]
    BY <1>0, <2>2, AdvanceTyped
  <2>5. InTimeNext(c)
    <3>1. CASE Finish(c)
      BY <1>0, <3>1, AdvanceTyped DEF InTimeNext, Claiming, Free
    <3>2. CASE Advance(c, "claim")
      <4>1. handler'[c].late = handler[c].late /\ handler'[c].h = handler[c].h
            /\ handler'[c].date = handler[c].date
        BY <1>0, <3>2, AdvanceTyped
      <4>2. ~handler[c].late => /\ handler[c].date = holiday[handler[c].h].date
                                /\ DayFree(handler[c].date)
        BY <2>1 DEF DInv, ClaimsInTime, Claiming, At
      <4> QED BY <2>1, <2>3, <4>1, <4>2 DEF InTimeNext
    <3> QED BY <2>2, <3>1, <3>2
  <2> QED BY <2>1, <2>3, <2>4, <2>5, ClaimFrame DEF Kept
<1>3. ASSUME NEW c \in Handlers, StoreClaim(c) PROVE Kept
  <2>1. /\ UNCHANGED <<wfh, absent, holiday>> /\ handler[c].pc = "claim"
        /\ Finish(c)
    BY <1>3 DEF StoreClaim, At
  <2>2. \A d : DayFree(d) => StaysFree(d)
    BY <2>1, FreeStays
  <2>3. /\ handler'[c] = Free /\ \A x \in Handlers \ {c} : handler'[x] = handler[x]
    BY <1>0, <2>1, AdvanceTyped
  <2>4. InTimeNext(c)
    BY <2>3 DEF InTimeNext, Claiming, Free
  <2>5. \A x \in Handlers : InTimeNext(x)
    BY <2>1, <2>2, <2>3, <2>4, InTimeStays
  <2>6. CASE UNCHANGED <<claims, disturbed>>
    BY <2>1, <2>2, <2>3, <2>4, <2>6, ClaimFrame DEF Kept
  <2>7. CASE /\ holiday[handler[c].h].exists /\ claims' = claims \cup {handler[c].h}
             /\ disturbed' = IF handler[c].late THEN disturbed \cup {handler[c].h}
                             ELSE disturbed \ {handler[c].h}
    <3>1. ~handler[c].late => DayFree(holiday[handler[c].h].date)
      BY <2>1 DEF DInv, ClaimsInTime, Claiming, At
    <3>2. ASSUME NEW h \in claims' \ disturbed' PROVE StaysFree(holiday'[h].date)
      <4>1. CASE h = handler[c].h
        <5>1. ~handler[c].late
          BY <2>7, <3>2, <4>1
        <5> QED BY <2>1, <2>2, <3>1, <4>1, <5>1
      <4>2. CASE h # handler[c].h
        <5>1. h \in claims \ disturbed
          BY <2>7, <3>2, <4>2
        <5>2. DayFree(holiday[h].date)
          BY <5>1 DEF DInv, ClaimedDayIsFree
        <5> QED BY <2>1, <2>2, <5>2
      <4> QED BY <4>1, <4>2
    <3>3. ClaimsHaveHoliday'
      BY <2>1, <2>7 DEF DInv, ClaimsHaveHoliday
    <3> QED BY <2>5, <3>2, <3>3, InTimeParts DEF Kept
  <2> QED BY <1>3, <2>6, <2>7 DEF StoreClaim
<1>4. ASSUME NEW c \in Handlers, NEW rec, ~(rec.pc \in {"conflict", "count", "claim"} /\ ~rec.late)
             \/ (rec.pc = "conflict" /\ rec.date = holiday[rec.h].date),
             handler' = [handler EXCEPT ![c] = rec],
             UNCHANGED <<wfh, absent, holiday, claims, disturbed>>
      PROVE  Kept
  <2>1. handler'[c] = rec /\ \A x \in Handlers \ {c} : handler'[x] = handler[x]
    BY <1>0, <1>4
  <2>2. InTimeNext(c)
    BY <1>4, <2>1 DEF InTimeNext, Claiming
  <2>3. \A d : DayFree(d) => StaysFree(d)
    BY <1>4, FreeStays
  <2> QED BY <1>4, <2>1, <2>2, <2>3, ClaimFrame DEF Kept
<1>5. ASSUME NEW c \in Handlers, NEW d \in Date, Ask(c, d) PROVE Kept
  <2>1. \A b : [Free EXCEPT !.pc = "store", !.date = d, !.crowded = b].pc = "store"
    BY DEF Free
  <2>2. UNCHANGED <<wfh, absent, holiday, claims, disturbed>>
    BY <1>5 DEF Ask
  <2>3. PICK b : handler' = [handler EXCEPT ![c] = [Free EXCEPT !.pc = "store", !.date = d, !.crowded = b]]
    BY <1>5, Zenon DEF Ask
  <2> QED BY <1>4, <2>1, <2>2, <2>3
<1>6. ASSUME NEW c \in Handlers, NEW h \in Holiday, Claim(c, h) PROVE Kept
  <2>1. PICK rec : rec = [Free EXCEPT !.pc = "conflict", !.h = h, !.date = holiday[h].date]
    OBVIOUS
  <2>2. rec.pc = "conflict" /\ rec.h = h /\ rec.date = holiday[h].date
    BY <2>1 DEF Free
  <2>3. /\ handler' = [handler EXCEPT ![c] = rec]
        /\ UNCHANGED <<wfh, absent, holiday, claims, disturbed>>
    BY <1>6, <2>1 DEF Claim
  <2> QED BY <1>4, <2>2, <2>3
<1>7. ASSUME NEW c \in Handlers, NEW r \in Request, StoreRequest(c, r) PROVE Kept
  <2>1. PICK d \in Date : d = handler[c].date
    BY <1>0 DEF HandlerRecord
  <2>2. UNCHANGED <<holiday, claims>> /\ Disturb(d) /\ UNCHANGED absent
    BY <1>7, <2>1 DEF StoreRequest
  <2>3. \A x \in Handlers : handler'[x] = Overtaken(d)[x] \/ ~Claiming(x)'
    BY <1>0, <1>7, <2>1, OvertakenTyped DEF StoreRequest, Claiming, Free
  <2>4. \A e : e # d /\ DayFree(e) => StaysFree(e)
    <3>1. wfh'[r].date = d /\ \A x \in Request \ {r} : wfh'[x] = wfh[x]
      BY <1>0, <1>7, <2>1 DEF StoreRequest, DaysOffTypeOK
    <3> QED BY <2>2, <3>1 DEF DayFree, StaysFree, Asked, Granted
  <2> QED BY <2>2, <2>3, <2>4, DisturbFrame DEF Kept
<1>8. ASSUME NEW d \in Date, FileLeave(d) PROVE Kept
  <2>1. UNCHANGED <<holiday, claims, wfh>> /\ Disturb(d) /\ absent' = absent \cup {d}
        /\ \A x \in Handlers : handler'[x] = Overtaken(d)[x]
    BY <1>8 DEF FileLeave
  <2>2. \A e : e # d /\ DayFree(e) => StaysFree(e)
    BY <2>1 DEF DayFree, StaysFree, Asked, Granted
  <2> QED BY <2>1, <2>2, DisturbFrame DEF Kept
<1>9. ASSUME UNCHANGED <<handler, holiday, claims, disturbed>>, \A d : DayFree(d) => StaysFree(d)
      PROVE  Kept
  <2>1. \A x \in Handlers : InTimeNext(x)
    BY <1>9, InTimeStays
  <2>2. ClaimsHaveHoliday'
    BY <1>9 DEF DInv, ClaimsHaveHoliday
  <2>3. \A h \in claims' \ disturbed' : StaysFree(holiday'[h].date)
    BY <1>9 DEF DInv, ClaimedDayIsFree
  <2> QED BY <2>1, <2>2, <2>3, InTimeParts DEF Kept
<1>10. ASSUME NEW d \in Date, RejectLeave(d) PROVE Kept
  BY <1>9, <1>10, FreeStays DEF RejectLeave
<1>11. ASSUME NEW n \in 0..MaxQuota, SetQuota(n) PROVE Kept
  BY <1>9, <1>11, FreeStays DEF SetQuota
<1>12. ASSUME NEW r \in Request, NEW status \in {"APPROVED", "REJECTED"}, DecideRequest(r, status)
       PROVE  Kept
  <2>1. /\ UNCHANGED <<handler, holiday, claims, disturbed, absent>>
        /\ \A x \in Request : wfh'[x].date = wfh[x].date
        /\ \A x \in Request \ {r} : wfh'[x] = wfh[x]
        /\ wfh[r].status = "PENDING"
    BY <1>0, <1>12 DEF DecideRequest, DaysOffTypeOK, RequestRecord
  <2>2. \A d : DayFree(d) => StaysFree(d)
    BY <2>1 DEF DayFree, StaysFree, Asked, Granted
  <2> QED BY <1>9, <2>1, <2>2
<1>13. ASSUME NEW h \in Holiday, NEW optional \in BOOLEAN, NEW enabled \in BOOLEAN, NEW d \in Date,
              PutHoliday(h, optional, enabled, d)
       PROVE  Kept
  <2>1. /\ UNCHANGED <<wfh, absent, claims>>
        /\ holiday'[h].exists /\ holiday'[h].date = d
        /\ \A g \in Holiday \ {h} : holiday'[g] = holiday[g]
        /\ claims \subseteq Holiday
    BY <1>0, <1>13 DEF PutHoliday, DaysOffTypeOK
  <2>2. \A e : DayFree(e) => StaysFree(e)
    BY <2>1, FreeStays
  <2>3. ASSUME NEW x \in Handlers PROVE InTimeNext(x)
    <3> SUFFICES ASSUME Claiming(x)', ~handler'[x].late
                 PROVE  /\ handler'[x].date = holiday'[handler'[x].h].date
                        /\ handler'[x].pc # "conflict" => StaysFree(handler'[x].date)
      BY DEF InTimeNext
    <3>1. /\ handler[x] \in HandlerRecord
          /\ handler'[x] = IF Claiming(x) /\ handler[x].h = h /\ d # holiday[h].date
                           THEN [handler[x] EXCEPT !.late = TRUE] ELSE handler[x]
      BY <1>0, <1>13 DEF PutHoliday
    <3>2. handler'[x] = handler[x] /\ ~(Claiming(x) /\ handler[x].h = h /\ d # holiday[h].date)
      BY <3>1, HandlerSteps
    <3>3. Claiming(x) /\ ~handler[x].late
      BY <3>2 DEF Claiming
    <3>4. /\ handler[x].date = holiday[handler[x].h].date
          /\ handler[x].pc # "conflict" => DayFree(handler[x].date)
      BY <3>3 DEF DInv, ClaimsInTime, At
    <3>5. handler[x].h \in Holiday
      BY <3>1 DEF HandlerRecord
    <3>6. holiday'[handler[x].h].date = holiday[handler[x].h].date
      BY <2>1, <3>2, <3>3, <3>5
    <3> QED BY <2>2, <3>2, <3>4, <3>6
  <2>4. ASSUME NEW g \in claims' \ disturbed' PROVE StaysFree(holiday'[g].date)
    <3>1. g \in claims \ disturbed /\ (g = h => d = holiday[h].date)
      BY <1>13, <2>1, <2>4 DEF PutHoliday
    <3>2. holiday'[g].date = holiday[g].date
      BY <2>1, <3>1
    <3>3. DayFree(holiday[g].date)
      BY <3>1 DEF DInv, ClaimedDayIsFree
    <3> QED BY <2>2, <3>2, <3>3
  <2>5. ClaimsHaveHoliday'
    BY <2>1 DEF DInv, ClaimsHaveHoliday
  <2> QED BY <2>3, <2>4, <2>5, InTimeParts DEF Kept
<1>14. ASSUME NEW h \in Holiday, DeleteHoliday(h) PROVE Kept
  <2>1. /\ UNCHANGED <<wfh, absent, disturbed, handler>> /\ claims' = claims \ {h}
        /\ \A g \in Holiday : holiday'[g].date = holiday[g].date
        /\ \A g \in Holiday \ {h} : holiday'[g] = holiday[g]
        /\ claims \subseteq Holiday
    BY <1>0, <1>14 DEF DeleteHoliday, DaysOffTypeOK, HolidayRecord
  <2>2. \A e : DayFree(e) => StaysFree(e)
    BY <2>1, FreeStays
  <2>3. ASSUME NEW x \in Handlers PROVE InTimeNext(x)
    <3>1. Claiming(x)' => Claiming(x)
      BY <2>1 DEF Claiming
    <3>2. handler[x].h \in Holiday
      BY <1>0 DEF HandlerRecord
    <3>3. Claiming(x) /\ ~handler[x].late =>
             /\ handler[x].date = holiday[handler[x].h].date
             /\ handler[x].pc # "conflict" => DayFree(handler[x].date)
      BY DEF DInv, ClaimsInTime, At
    <3> QED BY <2>1, <2>2, <3>1, <3>2, <3>3 DEF InTimeNext
  <2>4. \A g \in claims' \ disturbed' : StaysFree(holiday'[g].date)
    BY <2>1, <2>2 DEF DInv, ClaimedDayIsFree
  <2>5. ClaimsHaveHoliday'
    BY <2>1 DEF DInv, ClaimsHaveHoliday
  <2> QED BY <2>3, <2>4, <2>5, InTimeParts DEF Kept
<1> QED BY <1>1, <1>2, <1>3, <1>5, <1>6, <1>7, <1>8, <1>10, <1>11, <1>12, <1>13, <1>14 DEF DaysOffNext

LEMMA DaysOffKept == DInv /\ [DaysOffNext]_daysOffVars => DInv'
<1> SUFFICES ASSUME DInv, [DaysOffNext]_daysOffVars PROVE DInv'
  OBVIOUS
<1>1. DaysOffTypeOK'
  BY DaysOffTyped DEF DInv
<1>2. CASE DaysOffNext
  BY <1>1, <1>2, ClaimsCountedKept, RequestsCountedKept, ClaimsInTimeKept DEF DInv
<1>3. CASE UNCHANGED daysOffVars
  <2>1. UNCHANGED <<quota, peak, wfh, crowded, holiday, claims, disturbed, allowed, absent, handler>>
    BY <1>3 DEF daysOffVars
  <2>2. /\ Storing("claim")' = Storing("claim") /\ AloneStoring' = AloneStoring
        /\ AloneAhead' = AloneAhead
    BY <2>1 DEF Storing, AloneStoring, AloneAhead, Granted, Asked, At
  <2>3. ClaimsCounted' /\ RequestsCounted' /\ ClaimsHaveHoliday'
    BY <2>1, <2>2 DEF DInv, ClaimsCounted, RequestsCounted, ClaimsHaveHoliday
  <2>4. \A d : DayFree(d) => StaysFree(d)
    BY <2>1, FreeStays
  <2>5. ClaimsInTime'
    BY <2>1, <2>4, InTimeStays, InTimeParts
  <2>6. ClaimedDayIsFree'
    BY <2>1, <2>4, InTimeParts DEF DInv, ClaimedDayIsFree
  <2> QED BY <1>1, <2>3, <2>5, <2>6 DEF DInv
<1> QED BY <1>2, <1>3

LEMMA DaysOffInitInv == DaysOffInit => DInv
<1> SUFFICES ASSUME DaysOffInit PROVE DInv
  OBVIOUS
<1>1. DaysOffTypeOK
  BY DaysOffInitTyped
<1>2. /\ Storing("claim") = {} /\ AloneStoring = {} /\ AloneAhead = {} /\ claims = {}
      /\ \A c \in Handlers : ~Claiming(c)
  BY DEF DaysOffInit, Storing, AloneStoring, AloneAhead, Granted, Asked, At, Free, Claiming
<1>3. Cardinality({}) = 0
  BY FS_EmptySet
<1>4. ClaimsCounted /\ RequestsCounted
  <2>1. allowed \in Nat /\ quota \in Nat /\ peak = quota
    BY DaysOffAssumption DEF DaysOffInit
  <2>2. Cardinality(Handlers) \in Nat /\ Cardinality(Handlers) > 0
    BY PartsFinite
  <2>3. ClaimsCounted
    BY <1>2, <1>3, <2>1, <2>2 DEF ClaimsCounted
  <2>4. RequestsCounted
    BY <1>2, <1>3, <2>1 DEF RequestsCounted
  <2> QED BY <2>3, <2>4
<1> QED BY <1>1, <1>2, <1>4 DEF DInv, ClaimsHaveHoliday, ClaimsInTime, ClaimedDayIsFree

\* What the days off promise follows.
LEMMA DaysOffGranted ==
  DInv => DaysOffTypeOK /\ ClaimsBounded /\ ClaimsHaveHoliday /\ ApprovedWithinQuota /\ ClaimedDayIsFree
<1> SUFFICES ASSUME DInv PROVE ClaimsBounded /\ ApprovedWithinQuota
  BY DEF DInv
<1>1. /\ claims \in SUBSET Holiday /\ Storing("claim") \in SUBSET Handlers
      /\ AloneAhead \in SUBSET Request /\ AloneStoring \in SUBSET Handlers
      /\ Granted \ crowded \in SUBSET AloneAhead
  BY DEF DInv, DaysOffTypeOK, Storing, AloneAhead, AloneStoring, Granted, Asked
<1>2. /\ Cardinality(claims) \in Nat /\ Cardinality(Storing("claim")) \in Nat
      /\ IsFiniteSet(AloneAhead) /\ Cardinality(AloneAhead) \in Nat
      /\ Cardinality(AloneStoring) \in Nat /\ Cardinality(Handlers) \in Nat
  BY <1>1, PartsFinite
<1>3. Cardinality(Granted \ crowded) <= Cardinality(AloneAhead) /\ Cardinality(Granted \ crowded) \in Nat
  BY <1>1, <1>2, FS_Subset, FS_CardinalityType
<1>4. allowed \in Nat /\ peak \in Nat
  BY DaysOffAssumption DEF DInv, DaysOffTypeOK
<1>5. ClaimsBounded
  BY <1>2, <1>4 DEF DInv, ClaimsCounted, ClaimsBounded
<1>6. ApprovedWithinQuota
  BY <1>2, <1>3, <1>4 DEF DInv, RequestsCounted, ApprovedWithinQuota
<1> QED BY <1>5, <1>6

\* However many handlers run at once: no leave request, made while the policy is
\* the first one, exceeds what had been accrued; claims of optional holidays
\* exceed the quota by at most the handlers that overlap and are of holidays that
\* exist; work from home that is asked for alone stays within the largest quota;
\* and the day of a claim is free unless it changed after it was checked.
THEOREM GrantsHold == TimeOffSpec => []WithinGrants
<1>1. TimeOffSpec => Spec /\ DaysOffSpec
  BY DEF TimeOffSpec
<1>2. DaysOffSpec => []DInv
  BY DaysOffInitInv, DaysOffKept, PTL DEF DaysOffSpec
<1>3. DInv /\ NoRequestBeyondAccrual => WithinGrants
  BY DaysOffGranted DEF WithinGrants
<1> QED BY <1>1, <1>2, <1>3, RequestsGranted, PTL

-----------------------------------------------------------------------------
(* The attendance days                                                       *)

\* The day of a time, and its minute.
LEMMA TimeParts ==
  ASSUME NEW t \in Time
  PROVE  DayOf(t) \in 0..(Days - 1) /\ MinuteOf(t) \in 0..(DayLength - 1)
  BY AttendanceAssumption DEF Time, DayOf, MinuteOf

LEMMA MinutesTyped ==
  ASSUME NEW t \in Time
  PROVE  LateMinutes(t) \in Minutes /\ EarlyMinutes(t) \in Minutes
<1>1. MinuteOf(t) \in 0..(DayLength - 1) /\ DayLength \in Nat
  BY TimeParts, AttendanceAssumption
<1> QED BY <1>1, AttendanceAssumption DEF LateMinutes, EarlyMinutes, Minutes

\* The mask of a rule has ones in its first bits only, whatever the shift makes
\* of a count of zero or of the width.
LEMMA MaskBits ==
  ASSUME NEW bits \in 0..Width
  PROVE  /\ Mask(bits) \in Address
         /\ \A i \in 1..Width : Mask(bits)[i] = 1 <=> i <= bits
<1>0. Width \in Nat \ {0}
  BY AttendanceAssumption
<1>1. CASE bits = 0
  BY <1>0, <1>1 DEF Mask, Zeros, Address
<1>2. CASE bits # 0
  <2>1. PICK k \in 0..(Width - 1) : k = Width - bits
    BY <1>0, <1>2
  <2>2. k % Width = k
    BY <1>0, <2>1
  <2>3. Mask(bits) = [i \in 1..Width |-> IF i + k <= Width THEN Ones[i + k] ELSE 0]
    BY <1>2, <2>1, <2>2 DEF Mask, Shl
  <2>4. \A i \in 1..Width : i + k <= Width => Ones[i + k] = 1
    BY <1>0, <2>1 DEF Ones
  <2>5. \A i \in 1..Width : Mask(bits)[i] = IF i + k <= Width THEN 1 ELSE 0
    BY <2>3, <2>4
  <2>6. Mask(bits) \in Address
    BY <2>3, <2>4 DEF Address
  <2>7. \A i \in 1..Width : i + k <= Width <=> i <= bits
    BY <1>0, <2>1
  <2> QED BY <2>5, <2>6, <2>7
<1> QED BY <1>1, <1>2

\* An address is in a rule when the first bits of both are the same.
LEMMA PrefixAgrees ==
  ASSUME NEW ip \in Address, NEW rule \in Rule
  PROVE  InCidr(ip, rule) <=> Agrees(ip, rule)
<1>0. /\ rule.base \in Address /\ rule.bits \in (0..Width) \cup {Bare}
      /\ Width \in Nat \ {0} /\ Bare \notin 0..Width
  BY AttendanceAssumption DEF Rule
<1>1. CASE rule.bits = Bare
  BY <1>0, <1>1 DEF InCidr, Agrees, Address
<1>2. CASE rule.bits # Bare
  <2>1. rule.bits \in 0..Width
    BY <1>0, <1>2
  <2> DEFINE mask == Mask(rule.bits)
  <2>2. \A i \in 1..Width : mask[i] = 1 <=> i <= rule.bits
    BY <2>1, MaskBits
  <2>3. mask \in Address
    BY <2>1, MaskBits
  <2> HIDE DEF mask
  <2>4. \A x, y \in Address : \A i \in 1..Width : And(x, y)[i] = IF x[i] = 1 THEN y[i] ELSE 0
    BY DEF And
  <2>5. \A x \in Address : \A i \in 1..Width : x[i] \in {0, 1} /\ mask[i] \in {0, 1}
    BY <2>3 DEF Address
  <2>6. \A i \in 1..Width : And(ip, mask)[i] = And(rule.base, mask)[i]
                              <=> (mask[i] = 1 => ip[i] = rule.base[i])
    BY <1>0, <2>3, <2>4, <2>5
  <2>7. And(ip, mask) = And(rule.base, mask)
           <=> \A i \in 1..Width : And(ip, mask)[i] = And(rule.base, mask)[i]
    BY DEF And
  <2>8. \A i \in 1..rule.bits : i \in 1..Width
    BY <1>0, <2>1
  <2>9. \A i \in 1..Width : i <= rule.bits => i \in 1..rule.bits
    BY <1>0, <2>1
  <2>10. \A i \in 1..rule.bits : i <= rule.bits
    BY <1>0, <2>1
  <2>11. Agrees(ip, rule) <=> \A i \in 1..Width : mask[i] = 1 => ip[i] = rule.base[i]
    BY <1>2, <2>2, <2>8, <2>9, <2>10 DEF Agrees
  <2>12. InCidr(ip, rule) <=> And(ip, mask) = And(rule.base, mask)
    BY <1>2 DEF InCidr, mask
  <2> QED BY <2>6, <2>7, <2>11, <2>12
<1> QED BY <1>1, <1>2

LEMMA PunchTyped ==
  ASSUME AttendanceTypeOK, NEW p \in Punches
  PROVE  /\ punch[p] \in PunchRecord /\ punch[p].at \in Time
         /\ DayOf(punch[p].at) \in 0..(Days - 1)
         /\ punch[p].under \subseteq Rule
<1>1. punch[p] \in PunchRecord
  BY DEF AttendanceTypeOK
<1>2. punch[p].at \in Time /\ punch[p].under \subseteq Rule
  BY <1>1 DEF PunchRecord
<1> QED BY <1>1, <1>2, TimeParts

LEMMA ZeroTimes == 0 \in Time /\ 0 \in 0..(Days - 1) /\ 0 \in Minutes /\ NoTime \notin Time
<1>1. Days * DayLength - 1 \in Nat
  BY AttendanceAssumption
<1> QED BY <1>1, AttendanceAssumption DEF Time, Minutes

LEMMA NoPunchTyped == NoPunch \in PunchRecord
  BY ZeroTimes DEF NoPunch, PunchRecord

\* What the writers make of a day.
LEMMA CheckInWrites ==
  ASSUME AttendanceTypeOK, NEW p \in Punches, NEW d \in 0..(Days - 1)
  PROVE  /\ CheckInDay(p, d) \in DayRecord
         /\ CheckInDay(p, d).exists /\ CheckInDay(p, d).in = punch[p].at
         /\ CheckInDay(p, d).late = LateMinutes(punch[p].at)
         /\ CheckInDay(p, d).missing /\ CheckInDay(p, d).status = "OPEN"
         /\ CheckInDay(p, d).ip = punch[p].ip /\ CheckInDay(p, d).near = punch[p].near
         /\ CheckInDay(p, d).office = punch[p].office
         /\ CheckInDay(p, d).out = day[d].out /\ CheckInDay(p, d).early = day[d].early
<1>1. day[d] \in DayRecord
  BY DEF AttendanceTypeOK
<1>2. punch[p] \in PunchRecord /\ LateMinutes(punch[p].at) \in Minutes
  BY PunchTyped, MinutesTyped
<1> QED BY <1>1, <1>2 DEF CheckInDay, DayRecord, PunchRecord, Times

LEMMA CheckOutWrites ==
  ASSUME AttendanceTypeOK, NEW p \in Punches, NEW d \in 0..(Days - 1)
  PROVE  /\ CheckOutDay(p, d) \in DayRecord
         /\ CheckOutDay(p, d).exists = day[d].exists /\ CheckOutDay(p, d).in = day[d].in
         /\ CheckOutDay(p, d).late = day[d].late
         /\ ~CheckOutDay(p, d).missing /\ CheckOutDay(p, d).status = "COMPLETE"
         /\ CheckOutDay(p, d).ip = day[d].ip /\ CheckOutDay(p, d).near = day[d].near
         /\ CheckOutDay(p, d).office = day[d].office
         /\ CheckOutDay(p, d).out = punch[p].at
         /\ CheckOutDay(p, d).early = EarlyMinutes(punch[p].at)
<1>1. day[d] \in DayRecord
  BY DEF AttendanceTypeOK
<1>2. punch[p] \in PunchRecord /\ EarlyMinutes(punch[p].at) \in Minutes
  BY PunchTyped, MinutesTyped
<1> QED BY <1>1, <1>2 DEF CheckOutDay, DayRecord, PunchRecord, Times

LEMMA CorrectionWrites ==
  ASSUME AttendanceTypeOK, NEW r \in Regularization
  PROVE  /\ reg[r].day \in 0..(Days - 1) /\ reg[r].in \in Time /\ reg[r].out \in Time
         /\ Corrected(r) \in DayRecord
         /\ Corrected(r).exists = day[reg[r].day].exists /\ Corrected(r).in = reg[r].in
         /\ Corrected(r).late = LateMinutes(reg[r].in)
         /\ ~Corrected(r).missing /\ Corrected(r).status = "REGULARIZED"
         /\ Corrected(r).ip = day[reg[r].day].ip /\ Corrected(r).near = day[reg[r].day].near
         /\ Corrected(r).office = day[reg[r].day].office
         /\ Corrected(r).out = reg[r].out /\ Corrected(r).early = EarlyMinutes(reg[r].out)
<1>1. reg[r].day \in 0..(Days - 1) /\ reg[r].in \in Time /\ reg[r].out \in Time
  BY DEF AttendanceTypeOK, RegRecord
<1>2. day[reg[r].day] \in DayRecord
  BY <1>1 DEF AttendanceTypeOK
<1>3. LateMinutes(reg[r].in) \in Minutes /\ EarlyMinutes(reg[r].out) \in Minutes
  BY <1>1, MinutesTyped
<1> QED BY <1>1, <1>2, <1>3 DEF Corrected, DayRecord, Times

LEMMA AttendanceInitTyped == AttendanceInit => AttendanceTypeOK
<1> SUFFICES ASSUME AttendanceInit PROVE AttendanceTypeOK
  OBVIOUS
<1>1. NoDay \in DayRecord
  BY ZeroTimes DEF NoDay, DayRecord, Times
<1>2. NoReg \in RegRecord
  BY ZeroTimes DEF NoReg, RegRecord
<1>3. stops \in 0..MaxStops
  BY AttendanceAssumption DEF AttendanceInit
<1> QED BY <1>1, <1>2, <1>3, ZeroTimes, NoPunchTyped DEF AttendanceInit, AttendanceTypeOK

LEMMA AttendanceTyped == AttendanceTypeOK /\ [AttendanceNext]_attendanceVars => AttendanceTypeOK'
<1> SUFFICES ASSUME AttendanceTypeOK, [AttendanceNext]_attendanceVars PROVE AttendanceTypeOK'
  OBVIOUS
<1>1. ASSUME NEW t \in Time, Mixing(t) PROVE mixed' \subseteq 0..(Days - 1)
  BY <1>1, TimeParts DEF Mixing, AttendanceTypeOK
<1>2. ASSUME NEW p \in Punches, NEW t \in Time, NEW ip \in Address \cup {NoAddress},
             NEW near \in BOOLEAN, NEW reason \in BOOLEAN, BeginCheckIn(p, t, ip, near, reason)
      PROVE  AttendanceTypeOK'
  <2>1. AtOffice(ip, near) \in BOOLEAN
    BY DEF AtOffice
  <2>2. PICK b \in BOOLEAN : b = AtOffice(ip, near)
    BY <2>1
  <2>3. rules \subseteq Rule
    BY DEF AttendanceTypeOK
  <2>4. [kind |-> "in", pc |-> "write", at |-> t, ip |-> ip, near |-> near, office |-> b,
         under |-> rules] \in PunchRecord
    BY <2>3 DEF PunchRecord
  <2>5. punch' \in [Punches -> PunchRecord]
    BY <1>2, <2>2, <2>4 DEF BeginCheckIn, AttendanceTypeOK
  <2>6. UNCHANGED <<clock, day, event, reg, rules, stops, under>> /\ mixed' \subseteq 0..(Days - 1)
    BY <1>1, <1>2 DEF BeginCheckIn
  <2> QED BY <2>5, <2>6 DEF AttendanceTypeOK
<1>3. ASSUME NEW p \in Punches, NEW t \in Time, BeginCheckOut(p, t) PROVE AttendanceTypeOK'
  <2>1. [NoPunch EXCEPT !.kind = "out", !.pc = "write", !.at = t] \in PunchRecord
    BY NoPunchTyped DEF PunchRecord
  <2>2. punch' \in [Punches -> PunchRecord]
    BY <1>3, <2>1 DEF BeginCheckOut, AttendanceTypeOK
  <2>3. UNCHANGED <<clock, day, event, reg, rules, stops, under>> /\ mixed' \subseteq 0..(Days - 1)
    BY <1>1, <1>3 DEF BeginCheckOut
  <2> QED BY <2>2, <2>3 DEF AttendanceTypeOK
<1>4. ASSUME NEW p \in Punches, WriteDay(p) PROVE AttendanceTypeOK'
  <2>1. DayOf(punch[p].at) \in 0..(Days - 1) /\ punch[p].under \subseteq Rule
    BY PunchTyped
  <2>2. [punch[p] EXCEPT !.pc = "event"] \in PunchRecord
    BY PunchTyped DEF PunchRecord
  <2>3. punch' \in [Punches -> PunchRecord]
    BY <1>4, <2>2 DEF WriteDay, AttendanceTypeOK
  <2>4. day' \in [0..(Days - 1) -> DayRecord]
    BY <1>4, <2>1, CheckInWrites, CheckOutWrites DEF WriteDay, AttendanceTypeOK
  <2>5. under' \in [0..(Days - 1) -> SUBSET Rule]
    BY <1>4, <2>1 DEF WriteDay, AttendanceTypeOK
  <2>6. UNCHANGED <<clock, event, reg, rules, stops, mixed>>
    BY <1>4 DEF WriteDay
  <2> QED BY <2>3, <2>4, <2>5, <2>6 DEF AttendanceTypeOK
<1>5. ASSUME NEW p \in Punches, AddEvent(p) PROVE AttendanceTypeOK'
  <2>1. [day |-> DayOf(punch[p].at), at |-> punch[p].at,
         type |-> IF punch[p].kind = "in" THEN "CHECK_IN" ELSE "CHECK_OUT"] \in EventRecord
    BY PunchTyped DEF EventRecord
  <2>2. punch' \in [Punches -> PunchRecord]
    BY <1>5, NoPunchTyped DEF AddEvent, AttendanceTypeOK
  <2>3. event' \subseteq EventRecord
    BY <1>5, <2>1 DEF AddEvent, AttendanceTypeOK
  <2>4. UNCHANGED <<clock, day, reg, rules, stops, mixed, under>>
    BY <1>5 DEF AddEvent
  <2> QED BY <2>2, <2>3, <2>4 DEF AttendanceTypeOK
<1>6. ASSUME NEW p \in Punches, Stop(p) PROVE AttendanceTypeOK'
  <2>1. punch' \in [Punches -> PunchRecord]
    BY <1>6, NoPunchTyped DEF Stop, AttendanceTypeOK
  <2>2. stops' \in 0..MaxStops
    BY <1>6, AttendanceAssumption DEF Stop, AttendanceTypeOK
  <2>3. UNCHANGED <<clock, day, event, reg, rules, mixed, under>>
    BY <1>6 DEF Stop
  <2> QED BY <2>1, <2>2, <2>3 DEF AttendanceTypeOK
<1>7. ASSUME NEW rule \in Rule, AddRule(rule) PROVE AttendanceTypeOK'
  <2>1. rules' \subseteq Rule
    BY <1>7 DEF AddRule, AttendanceTypeOK
  <2>2. UNCHANGED <<clock, day, event, reg, punch, stops, mixed, under>>
    BY <1>7 DEF AddRule
  <2> QED BY <2>1, <2>2 DEF AttendanceTypeOK
<1>8. ASSUME NEW r \in Regularization, Approve(r) PROVE AttendanceTypeOK'
  <2>1. day' \in [0..(Days - 1) -> DayRecord] /\ mixed' \subseteq 0..(Days - 1)
    BY <1>8, CorrectionWrites DEF Approve, AttendanceTypeOK
  <2>2. reg' \in [Regularization -> RegRecord]
    BY <1>8 DEF Approve, AttendanceTypeOK, RegRecord
  <2>3. [day |-> reg[r].day, type |-> "CORRECTION", at |-> clock] \in EventRecord
    BY CorrectionWrites DEF EventRecord, AttendanceTypeOK
  <2>4. event' \subseteq EventRecord
    BY <1>8, <2>3 DEF Approve, AttendanceTypeOK
  <2>5. UNCHANGED <<clock, rules, punch, stops, under>>
    BY <1>8 DEF Approve
  <2> QED BY <2>1, <2>2, <2>4, <2>5 DEF AttendanceTypeOK
<1>9. ASSUME NEW r \in Regularization, Reject(r) PROVE AttendanceTypeOK'
  <2>1. reg' \in [Regularization -> RegRecord]
    BY <1>9 DEF Reject, AttendanceTypeOK, RegRecord
  <2>2. UNCHANGED <<clock, day, event, rules, punch, stops, mixed, under>>
    BY <1>9 DEF Reject
  <2> QED BY <2>1, <2>2 DEF AttendanceTypeOK
<1>10. ASSUME NEW r \in Regularization, NEW d \in 0..(Days - 1), NEW i \in Time, NEW o \in Time,
              File(r, d, i, o)
       PROVE  AttendanceTypeOK'
  <2>1. [status |-> "PENDING", day |-> d, in |-> i, out |-> o] \in RegRecord
    BY DEF RegRecord
  <2>2. reg' \in [Regularization -> RegRecord]
    BY <1>10, <2>1 DEF File, AttendanceTypeOK
  <2>3. UNCHANGED <<clock, day, event, rules, punch, stops, mixed, under>>
    BY <1>10 DEF File
  <2> QED BY <2>2, <2>3 DEF AttendanceTypeOK
<1>11. CASE Tick
  BY <1>11 DEF Tick, AttendanceTypeOK
<1>12. CASE UNCHANGED attendanceVars
  BY <1>12 DEF attendanceVars, AttendanceTypeOK
<1> QED BY <1>2, <1>3, <1>4, <1>5, <1>6, <1>7, <1>8, <1>9, <1>10, <1>11, <1>12 DEF AttendanceNext

\* What a punch has established by the time it writes the day, and a correction
\* when it is filed.
PunchesReady ==
    \A p \in Punches : punch[p].pc = "write" =>
        /\ punch[p].kind = "out" => day[DayOf(punch[p].at)].exists
        /\ punch[p].kind = "in" =>
              (punch[p].office <=>
                  \/ punch[p].near
                  \/ punch[p].ip # NoAddress /\ \E rule \in punch[p].under : Agrees(punch[p].ip, rule))
RegsReady == \A r \in Regularization : reg[r].status = "PENDING" => day[reg[r].day].exists

\* A day that is not mixed has at most one punch about to write it, which is
\* later than the check-in it holds, and none of its check-ins lies ahead.
DaysInTurn ==
    \A d \in 0..(Days - 1) \ mixed :
        /\ day[d].in # NoTime => day[d].in <= clock
        /\ \A p \in Punches : punch[p].pc = "write" /\ DayOf(punch[p].at) = d =>
              /\ punch[p].at <= clock
              /\ day[d].in # NoTime => day[d].in <= punch[p].at
              /\ \A q \in Punches : punch[q].pc = "write" /\ DayOf(punch[q].at) = d => q = p

AInv == DayAgrees /\ PunchesReady /\ RegsReady /\ DaysInTurn

LEMMA WriteFields ==
  ASSUME AttendanceTypeOK, NEW p \in Punches, WriteDay(p)
  PROVE  /\ punch[p].pc = "write" /\ punch'[p].pc = "event" /\ punch'[p].kind = punch[p].kind
         /\ punch'[p].at = punch[p].at
         /\ \A q \in Punches \ {p} : punch'[q] = punch[q]
         /\ \A d \in 0..(Days - 1) \ {DayOf(punch[p].at)} : day'[d] = day[d] /\ under'[d] = under[d]
         /\ LET d == DayOf(punch[p].at)
            IN \/ punch[p].kind = "in" /\ day'[d] = CheckInDay(p, d) /\ under'[d] = punch[p].under
               \/ punch[p].kind = "out" /\ day'[d] = CheckOutDay(p, d) /\ under'[d] = under[d]
         /\ UNCHANGED <<clock, event, reg, rules, stops, mixed>>
<1>1. DayOf(punch[p].at) \in 0..(Days - 1) /\ punch[p] \in PunchRecord
  BY PunchTyped
<1>2. /\ punch'[p] = [punch[p] EXCEPT !.pc = "event"] /\ punch[p].pc = "write"
      /\ \A q \in Punches \ {p} : punch'[q] = punch[q]
  BY DEF WriteDay, AttendanceTypeOK
<1>3. punch'[p].pc = "event" /\ punch'[p].kind = punch[p].kind /\ punch'[p].at = punch[p].at
  BY <1>1, <1>2 DEF PunchRecord
<1>4. \A d \in 0..(Days - 1) \ {DayOf(punch[p].at)} : day'[d] = day[d] /\ under'[d] = under[d]
  BY <1>1 DEF WriteDay, AttendanceTypeOK
<1>5. LET d == DayOf(punch[p].at)
      IN \/ punch[p].kind = "in" /\ day'[d] = CheckInDay(p, d) /\ under'[d] = punch[p].under
         \/ punch[p].kind = "out" /\ day'[d] = CheckOutDay(p, d) /\ under'[d] = under[d]
  BY <1>1 DEF WriteDay, AttendanceTypeOK
<1>6. UNCHANGED <<clock, event, reg, rules, stops, mixed>>
  BY DEF WriteDay
<1> QED BY <1>2, <1>3, <1>4, <1>5, <1>6

LEMMA ApproveFields ==
  ASSUME AttendanceTypeOK, NEW r \in Regularization, Approve(r)
  PROVE  /\ reg[r].status = "PENDING" /\ reg'[r] = [reg[r] EXCEPT !.status = "APPROVED"]
         /\ reg'[r].status = "APPROVED" /\ reg'[r].day = reg[r].day
         /\ reg'[r].in = reg[r].in /\ reg'[r].out = reg[r].out
         /\ \A s \in Regularization \ {r} : reg'[s] = reg[s]
         /\ day'[reg[r].day] = Corrected(r) /\ reg[r].day \in 0..(Days - 1)
         /\ \A d \in 0..(Days - 1) \ {reg[r].day} : day'[d] = day[d]
         /\ mixed' = mixed \cup {reg[r].day} /\ event \subseteq event'
         /\ UNCHANGED <<clock, rules, punch, stops, under>>
<1>1. reg[r].day \in 0..(Days - 1) /\ reg[r] \in RegRecord
  BY CorrectionWrites DEF AttendanceTypeOK
<1>2. /\ reg'[r] = [reg[r] EXCEPT !.status = "APPROVED"] /\ reg[r].status = "PENDING"
      /\ \A s \in Regularization \ {r} : reg'[s] = reg[s]
  BY DEF Approve, AttendanceTypeOK
<1>3. /\ reg'[r].status = "APPROVED" /\ reg'[r].day = reg[r].day
      /\ reg'[r].in = reg[r].in /\ reg'[r].out = reg[r].out
  BY <1>1, <1>2 DEF RegRecord
<1>4. /\ day'[reg[r].day] = Corrected(r)
      /\ \A d \in 0..(Days - 1) \ {reg[r].day} : day'[d] = day[d]
  BY <1>1 DEF Approve, AttendanceTypeOK
<1>5. /\ mixed' = mixed \cup {reg[r].day} /\ event \subseteq event'
      /\ UNCHANGED <<clock, rules, punch, stops, under>>
  BY DEF Approve
<1> QED BY <1>1, <1>2, <1>3, <1>4, <1>5

\* The steps that write no day.
LEMMA OtherSteps ==
  ASSUME AttendanceTypeOK, AttendanceNext
  PROVE  \/ \E p \in Punches : WriteDay(p)
         \/ \E r \in Regularization : Approve(r)
         \/ UNCHANGED <<day, under>>
<1>1. ASSUME NEW p \in Punches, AddEvent(p) \/ Stop(p) PROVE UNCHANGED <<day, under>>
  BY <1>1 DEF AddEvent, Stop
<1>2. ASSUME NEW p \in Punches, NEW t \in Time, BeginCheckOut(p, t) PROVE UNCHANGED <<day, under>>
  BY <1>2 DEF BeginCheckOut
<1>3. ASSUME NEW p \in Punches, NEW t \in Time, NEW ip \in Address \cup {NoAddress},
             NEW near \in BOOLEAN, NEW reason \in BOOLEAN, BeginCheckIn(p, t, ip, near, reason)
      PROVE  UNCHANGED <<day, under>>
  BY <1>3 DEF BeginCheckIn
<1>4. ASSUME NEW rule \in Rule, AddRule(rule) PROVE UNCHANGED <<day, under>>
  BY <1>4 DEF AddRule
<1>5. ASSUME NEW r \in Regularization, Reject(r) PROVE UNCHANGED <<day, under>>
  BY <1>5 DEF Reject
<1>6. ASSUME NEW r \in Regularization, NEW d \in 0..(Days - 1), NEW i \in Time, NEW o \in Time,
             File(r, d, i, o)
      PROVE  UNCHANGED <<day, under>>
  BY <1>6 DEF File
<1>7. CASE Tick
  BY <1>7 DEF Tick
<1> QED BY <1>1, <1>2, <1>3, <1>4, <1>5, <1>6, <1>7 DEF AttendanceNext

\* What a day holds agrees after every step that writes it.
LEMMA DaysAgreeKept ==
  ASSUME AInv, AttendanceNext
  PROVE  /\ MinutesBelongToTimes' /\ StatusTellsTimes' /\ OfficeByPrefix'
         /\ \A d \in 0..(Days - 1) : day[d].exists => day'[d].exists
<1>0. /\ AttendanceTypeOK /\ MinutesBelongToTimes /\ StatusTellsTimes /\ OfficeByPrefix
      /\ PunchesReady /\ RegsReady
  BY DEF AInv, DayAgrees
<1> DEFINE Good(row, rules_) ==
             /\ row.in # NoTime => row.late = LateMinutes(row.in)
             /\ row.out # NoTime => row.early = EarlyMinutes(row.out)
             /\ row.exists =>
                   /\ row.in # NoTime /\ (row.missing <=> row.status = "OPEN")
                   /\ row.status # "OPEN" => row.out # NoTime
                   /\ row.office <=>
                         \/ row.near
                         \/ row.ip # NoAddress /\ \E rule \in rules_ : Agrees(row.ip, rule)
<1>1. \A d \in 0..(Days - 1) : Good(day[d], under[d])
  BY <1>0 DEF MinutesBelongToTimes, StatusTellsTimes, OfficeByPrefix
<1> SUFFICES \A d \in 0..(Days - 1) :
                Good(day'[d], under'[d]) /\ (day[d].exists => day'[d].exists)
  BY DEF MinutesBelongToTimes, StatusTellsTimes, OfficeByPrefix
<1>2. ASSUME NEW p \in Punches, WriteDay(p), NEW d \in 0..(Days - 1)
      PROVE  Good(day'[d], under'[d]) /\ (day[d].exists => day'[d].exists)
  <2>1. CASE d # DayOf(punch[p].at)
    BY <1>0, <1>1, <1>2, <2>1, WriteFields
  <2>2. CASE d = DayOf(punch[p].at)
    <3>1. punch[p].pc = "write" /\ punch[p].at \in Time /\ NoTime \notin Time
      BY <1>0, <1>2, WriteFields, PunchTyped, ZeroTimes
    <3>2. CASE punch[p].kind = "in"
      <4>1. day'[d] = CheckInDay(p, d) /\ under'[d] = punch[p].under
        BY <1>0, <1>2, <2>2, <3>2, WriteFields
      <4>2. punch[p].office <=>
               \/ punch[p].near
               \/ punch[p].ip # NoAddress /\ \E rule \in punch[p].under : Agrees(punch[p].ip, rule)
        BY <1>0, <3>1, <3>2 DEF PunchesReady
      <4>3. day[d].out # NoTime => day[d].early = EarlyMinutes(day[d].out)
        BY <1>1
      <4> QED BY <1>0, <3>1, <4>1, <4>2, <4>3, CheckInWrites
    <3>3. CASE punch[p].kind = "out"
      <4>1. day'[d] = CheckOutDay(p, d) /\ under'[d] = under[d]
        BY <1>0, <1>2, <2>2, <3>3, WriteFields
      <4>2. Good(day[d], under[d])
        BY <1>1
      <4> QED BY <1>0, <3>1, <4>1, <4>2, CheckOutWrites
    <3> QED BY <1>0, <1>2, <3>2, <3>3, WriteFields
  <2> QED BY <2>1, <2>2
<1>3. ASSUME NEW r \in Regularization, Approve(r), NEW d \in 0..(Days - 1)
      PROVE  Good(day'[d], under'[d]) /\ (day[d].exists => day'[d].exists)
  <2>1. CASE d # reg[r].day
    <3>1. day'[d] = day[d]
      BY <1>0, <1>3, <2>1, ApproveFields
    <3>2. under'[d] = under[d]
      BY <1>0, <1>3, ApproveFields
    <3> QED BY <1>1, <3>1, <3>2
  <2>2. CASE d = reg[r].day
    <3>1. day'[d] = Corrected(r) /\ under'[d] = under[d]
      BY <1>0, <1>3, <2>2, ApproveFields
    <3>2. Good(day[d], under[d])
      BY <1>1
    <3>3. reg[r].in # NoTime /\ reg[r].out # NoTime
      BY <1>0, CorrectionWrites, ZeroTimes
    <3> QED BY <1>0, <2>2, <3>1, <3>2, <3>3, CorrectionWrites
  <2> QED BY <2>1, <2>2
<1>4. CASE UNCHANGED <<day, under>>
  BY <1>1, <1>4
<1> QED BY <1>0, <1>2, <1>3, <1>4, OtherSteps

\* The steps that leave all punches alone, and what they do to the rest.
QuietStep ==
    \/ \E rule \in Rule : AddRule(rule)
    \/ \E r \in Regularization :
          \/ Approve(r) \/ Reject(r)
          \/ \E d \in 0..(Days - 1), i, o \in Time : File(r, d, i, o)
    \/ Tick

LEMMA QuietFields ==
  ASSUME AttendanceTypeOK, QuietStep
  PROVE  /\ punch' = punch /\ stops' = stops /\ event \subseteq event'
         /\ \A r \in Regularization :
               \/ reg'[r] = reg[r]
               \/ reg[r].status = "NONE" /\ reg'[r].status = "PENDING" /\ day[reg'[r].day].exists
               \/ /\ reg[r].status = "PENDING" /\ reg'[r].status \in {"APPROVED", "REJECTED"}
                  /\ reg'[r].day = reg[r].day /\ reg'[r].in = reg[r].in /\ reg'[r].out = reg[r].out
<1>1. ASSUME NEW rule \in Rule, AddRule(rule)
      PROVE  punch' = punch /\ stops' = stops /\ event' = event /\ reg' = reg
  BY <1>1 DEF AddRule
<1>2. CASE Tick
  BY <1>2 DEF Tick
<1>3. ASSUME NEW r \in Regularization, Reject(r)
      PROVE  /\ punch' = punch /\ stops' = stops /\ event' = event
             /\ \A s \in Regularization \ {r} : reg'[s] = reg[s]
             /\ reg[r].status = "PENDING" /\ reg'[r].status = "REJECTED"
             /\ reg'[r].day = reg[r].day /\ reg'[r].in = reg[r].in /\ reg'[r].out = reg[r].out
  <2>1. reg[r] \in RegRecord /\ reg'[r] = [reg[r] EXCEPT !.status = "REJECTED"]
    BY <1>3 DEF Reject, AttendanceTypeOK
  <2> QED BY <1>3, <2>1 DEF Reject, AttendanceTypeOK, RegRecord
<1>4. ASSUME NEW r \in Regularization, NEW d \in 0..(Days - 1), NEW i \in Time, NEW o \in Time,
             File(r, d, i, o)
      PROVE  /\ punch' = punch /\ stops' = stops /\ event' = event
             /\ \A s \in Regularization \ {r} : reg'[s] = reg[s]
             /\ reg[r].status = "NONE" /\ reg'[r].status = "PENDING" /\ day[reg'[r].day].exists
  BY <1>4 DEF File, AttendanceTypeOK
<1> QED BY <1>1, <1>2, <1>3, <1>4, ApproveFields DEF QuietStep

\* A punch begins, and the place of the others is kept.
LEMMA BeginFields ==
  ASSUME AttendanceTypeOK, NEW p \in Punches, NEW t \in Time,
         \/ BeginCheckOut(p, t)
         \/ \E ip \in Address \cup {NoAddress}, near, reason \in BOOLEAN :
               BeginCheckIn(p, t, ip, near, reason)
  PROVE  /\ punch[p].pc = "idle" /\ punch'[p].pc = "write" /\ punch'[p].at = t
         /\ \A q \in Punches \ {p} : punch'[q] = punch[q]
         /\ punch'[p].kind = "out" => day[DayOf(t)].exists
         /\ punch'[p].kind = "in" =>
               (punch'[p].office <=>
                   \/ punch'[p].near
                   \/ /\ punch'[p].ip # NoAddress
                      /\ \E rule \in punch'[p].under : Agrees(punch'[p].ip, rule))
         /\ Mixing(t) /\ UNCHANGED <<clock, day, event, reg, rules, stops, under>>
<1>1. CASE BeginCheckOut(p, t)
  <2>1. punch'[p] = [NoPunch EXCEPT !.kind = "out", !.pc = "write", !.at = t]
    BY <1>1 DEF BeginCheckOut, AttendanceTypeOK
  <2>2. punch'[p].pc = "write" /\ punch'[p].at = t /\ punch'[p].kind = "out"
    BY <2>1 DEF NoPunch
  <2> QED BY <1>1, <2>2 DEF BeginCheckOut, AttendanceTypeOK
<1>2. ASSUME NEW ip \in Address \cup {NoAddress}, NEW near \in BOOLEAN, NEW reason \in BOOLEAN,
             BeginCheckIn(p, t, ip, near, reason)
      PROVE  /\ punch[p].pc = "idle" /\ punch'[p].pc = "write" /\ punch'[p].at = t
             /\ \A q \in Punches \ {p} : punch'[q] = punch[q]
             /\ punch'[p].kind = "in"
             /\ punch'[p].office <=>
                   \/ punch'[p].near
                   \/ /\ punch'[p].ip # NoAddress
                      /\ \E rule \in punch'[p].under : Agrees(punch'[p].ip, rule)
             /\ Mixing(t) /\ UNCHANGED <<clock, day, event, reg, rules, stops, under>>
  <2>1. punch'[p] = [kind |-> "in", pc |-> "write", at |-> t, ip |-> ip, near |-> near,
                     office |-> AtOffice(ip, near), under |-> rules]
    BY <1>2 DEF BeginCheckIn, AttendanceTypeOK
  <2>2. /\ punch'[p].pc = "write" /\ punch'[p].at = t /\ punch'[p].kind = "in"
        /\ punch'[p].office = AtOffice(ip, near) /\ punch'[p].near = near
        /\ punch'[p].ip = ip /\ punch'[p].under = rules
    BY <2>1
  <2>3. AtOffice(ip, near) <=> \/ near
                               \/ ip # NoAddress /\ \E rule \in rules : Agrees(ip, rule)
    <3>1. rules \subseteq Rule
      BY DEF AttendanceTypeOK
    <3>2. ip # NoAddress => \A rule \in rules : InCidr(ip, rule) <=> Agrees(ip, rule)
      BY <3>1, PrefixAgrees
    <3> QED BY <3>2 DEF AtOffice
  <2>4. /\ punch[p].pc = "idle" /\ Mixing(t)
        /\ UNCHANGED <<clock, day, event, reg, rules, stops, under>>
        /\ \A q \in Punches \ {p} : punch'[q] = punch[q]
    BY <1>2 DEF BeginCheckIn, AttendanceTypeOK
  <2> QED BY <2>2, <2>3, <2>4
<1> QED BY <1>1, <1>2

LEMMA EndFields ==
  ASSUME AttendanceTypeOK, NEW p \in Punches, AddEvent(p) \/ Stop(p)
  PROVE  /\ punch'[p] = NoPunch /\ \A q \in Punches \ {p} : punch'[q] = punch[q]
         /\ UNCHANGED <<clock, day, reg, rules, mixed, under>> /\ event \subseteq event'
         /\ AddEvent(p) => stops' = stops
         /\ Stop(p) => stops' # 0
  BY DEF AddEvent, Stop, AttendanceTypeOK

LEMMA AttendanceSteps ==
  ASSUME AttendanceNext
  PROVE  \/ QuietStep
         \/ \E p \in Punches :
               \/ WriteDay(p) \/ AddEvent(p) \/ Stop(p)
               \/ \E t \in Time :
                     \/ BeginCheckOut(p, t)
                     \/ \E ip \in Address \cup {NoAddress}, near, reason \in BOOLEAN :
                           BeginCheckIn(p, t, ip, near, reason)
  BY DEF AttendanceNext, QuietStep

LEMMA ReadyKept ==
  ASSUME AInv, AttendanceNext, \A d \in 0..(Days - 1) : day[d].exists => day'[d].exists
  PROVE  PunchesReady' /\ RegsReady'
<1>0. AttendanceTypeOK /\ PunchesReady /\ RegsReady
  BY DEF AInv, DayAgrees
<1>1. \A p \in Punches : DayOf(punch[p].at) \in 0..(Days - 1)
  BY <1>0, PunchTyped
<1>2. \A r \in Regularization : reg[r].day \in 0..(Days - 1)
  BY <1>0, CorrectionWrites
<1> DEFINE Ready(q) ==
             punch'[q].pc = "write" =>
               /\ punch'[q].kind = "out" => day'[DayOf(punch'[q].at)].exists
               /\ punch'[q].kind = "in" =>
                     (punch'[q].office <=>
                         \/ punch'[q].near
                         \/ /\ punch'[q].ip # NoAddress
                            /\ \E rule \in punch'[q].under : Agrees(punch'[q].ip, rule))
<1>3. ASSUME NEW q \in Punches, punch'[q] = punch[q] PROVE Ready(q)
  BY <1>0, <1>1, <1>3 DEF PunchesReady
<1>4. ASSUME NEW q \in Punches PROVE Ready(q)
  <2>1. CASE QuietStep
    BY <1>0, <1>3, <2>1, QuietFields
  <2>2. ASSUME NEW p \in Punches, WriteDay(p) PROVE Ready(q)
    <3>1. punch'[q] = punch[q] \/ punch'[q].pc = "event"
      BY <1>0, <2>2, WriteFields
    <3> QED BY <1>3, <3>1
  <2>3. ASSUME NEW p \in Punches, AddEvent(p) \/ Stop(p) PROVE Ready(q)
    <3>1. punch'[q] = punch[q] \/ punch'[q] = NoPunch
      BY <1>0, <2>3, EndFields
    <3> QED BY <1>3, <3>1 DEF NoPunch
  <2>4. ASSUME NEW p \in Punches, NEW t \in Time,
               \/ BeginCheckOut(p, t)
               \/ \E ip \in Address \cup {NoAddress}, near, reason \in BOOLEAN :
                     BeginCheckIn(p, t, ip, near, reason)
        PROVE  Ready(q)
    <3>1. CASE q # p
      BY <1>0, <1>3, <2>4, <3>1, BeginFields
    <3>2. CASE q = p
      <4>1. /\ punch'[p].at = t /\ day' = day
            /\ punch'[p].kind = "out" => day[DayOf(t)].exists
            /\ punch'[p].kind = "in" =>
                  (punch'[p].office <=>
                      \/ punch'[p].near
                      \/ /\ punch'[p].ip # NoAddress
                         /\ \E rule \in punch'[p].under : Agrees(punch'[p].ip, rule))
        BY <1>0, <2>4, BeginFields
      <4> QED BY <3>2, <4>1
    <3> QED BY <3>1, <3>2
  <2> QED BY <2>1, <2>2, <2>3, <2>4, AttendanceSteps
<1>5. PunchesReady'
  BY <1>4 DEF PunchesReady
<1>6. ASSUME NEW r \in Regularization, reg'[r].status = "PENDING" PROVE day'[reg'[r].day].exists
  <2>1. CASE QuietStep
    <3>1. \/ reg'[r] = reg[r]
          \/ day[reg'[r].day].exists
          \/ reg'[r].status \in {"APPROVED", "REJECTED"}
      BY <1>0, <2>1, QuietFields
    <3>2. reg'[r].day \in 0..(Days - 1)
      BY <1>0, AttendanceTyped DEF AttendanceTypeOK, RegRecord
    <3> QED BY <1>0, <1>2, <1>6, <3>1, <3>2 DEF RegsReady
  <2>2. CASE reg' = reg
    BY <1>0, <1>2, <1>6, <2>2 DEF RegsReady
  <2>3. ASSUME NEW p \in Punches, WriteDay(p) \/ AddEvent(p) \/ Stop(p) PROVE reg' = reg
    BY <1>0, <2>3, WriteFields, EndFields
  <2>4. ASSUME NEW p \in Punches, NEW t \in Time,
               \/ BeginCheckOut(p, t)
               \/ \E ip \in Address \cup {NoAddress}, near, reason \in BOOLEAN :
                     BeginCheckIn(p, t, ip, near, reason)
        PROVE  reg' = reg
    BY <1>0, <2>4, BeginFields
  <2> QED BY <2>1, <2>2, <2>3, <2>4, AttendanceSteps
<1> QED BY <1>5, <1>6 DEF RegsReady

\* A time is told after the step.
ToldNext(d, t, kind, type, times) ==
    \/ t = NoTime \/ t \in times \/ [day |-> d, type |-> type, at |-> t] \in event'
    \/ DayOf(t) = d /\ \E p \in Punches :
          punch'[p].pc = "event" /\ punch'[p].kind = kind /\ punch'[p].at = t
InsFor(d) == {reg[r].in : r \in ApprovedFor(d)}
OutsFor(d) == {reg[r].out : r \in ApprovedFor(d)}

LEMMA ApprovedGrow ==
  ASSUME AttendanceTypeOK, AttendanceNext, NEW d \in 0..(Days - 1)
  PROVE  InsFor(d) \subseteq InsFor(d)' /\ OutsFor(d) \subseteq OutsFor(d)'
<1>1. \A r \in Regularization : reg[r].status = "APPROVED" => reg'[r] = reg[r]
  <2>1. CASE QuietStep
    BY <2>1, QuietFields
  <2>2. ASSUME NEW p \in Punches, WriteDay(p) \/ AddEvent(p) \/ Stop(p) PROVE reg' = reg
    BY <2>2, WriteFields, EndFields
  <2>3. ASSUME NEW p \in Punches, NEW t \in Time,
               \/ BeginCheckOut(p, t)
               \/ \E ip \in Address \cup {NoAddress}, near, reason \in BOOLEAN :
                     BeginCheckIn(p, t, ip, near, reason)
        PROVE  reg' = reg
    BY <2>3, BeginFields
  <2> QED BY <2>1, <2>2, <2>3, AttendanceSteps
<1> QED BY <1>1 DEF InsFor, OutsFor, ApprovedFor

\* What has been told stays so, as long as no process stops.
LEMMA ToldStays ==
  ASSUME AttendanceTypeOK, AttendanceNext, stops' = 0, NEW d \in 0..(Days - 1),
         NEW t, NEW kind \in {"in", "out"}, NEW type, NEW times, NEW more,
         times \subseteq more, type = IF kind = "in" THEN "CHECK_IN" ELSE "CHECK_OUT",
         Told(d, t, kind, type, times)
  PROVE  ToldNext(d, t, kind, type, more)
<1>1. event \subseteq event'
  <2>1. CASE QuietStep
    BY <2>1, QuietFields
  <2>2. ASSUME NEW p \in Punches, WriteDay(p) \/ AddEvent(p) \/ Stop(p) PROVE event \subseteq event'
    BY <2>2, WriteFields, EndFields
  <2>3. ASSUME NEW p \in Punches, NEW u \in Time,
               \/ BeginCheckOut(p, u)
               \/ \E ip \in Address \cup {NoAddress}, near, reason \in BOOLEAN :
                     BeginCheckIn(p, u, ip, near, reason)
        PROVE  event \subseteq event'
    BY <2>3, BeginFields
  <2> QED BY <2>1, <2>2, <2>3, AttendanceSteps
<1>2. ASSUME NEW q \in Punches, DayOf(t) = d, punch[q].pc = "event", punch[q].kind = kind,
             punch[q].at = t
      PROVE  \/ [day |-> d, type |-> type, at |-> t] \in event'
             \/ punch'[q] = punch[q]
  <2>1. CASE QuietStep
    BY <2>1, QuietFields
  <2>2. ASSUME NEW p \in Punches, WriteDay(p) PROVE punch'[q] = punch[q]
    BY <1>2, <2>2, WriteFields
  <2>3. ASSUME NEW p \in Punches, AddEvent(p), p # q PROVE punch'[q] = punch[q]
    BY <2>3, EndFields
  <2>4. ASSUME AddEvent(q) PROVE [day |-> d, type |-> type, at |-> t] \in event'
    <3>1. event' = event \cup {[day |-> DayOf(punch[q].at), at |-> punch[q].at,
                               type |-> IF punch[q].kind = "in" THEN "CHECK_IN" ELSE "CHECK_OUT"]}
      BY <2>4 DEF AddEvent
    <3> QED BY <1>2, <3>1
  <2>5. ASSUME NEW p \in Punches PROVE ~Stop(p)
    BY EndFields
  <2>6. ASSUME NEW p \in Punches, NEW u \in Time,
               \/ BeginCheckOut(p, u)
               \/ \E ip \in Address \cup {NoAddress}, near, reason \in BOOLEAN :
                     BeginCheckIn(p, u, ip, near, reason)
        PROVE  punch'[q] = punch[q]
    BY <1>2, <2>6, BeginFields
  <2> QED BY <2>1, <2>2, <2>3, <2>4, <2>5, <2>6, AttendanceSteps
<1> QED BY <1>1, <1>2 DEF Told, ToldNext

LEMMA TimesExplainedKept ==
  ASSUME AInv, AttendanceNext
  PROVE  TimesAreExplained'
<1>0. AttendanceTypeOK /\ TimesAreExplained
  BY DEF AInv, DayAgrees
<1> SUFFICES ASSUME stops' = 0, NEW d \in 0..(Days - 1)
             PROVE  /\ ToldNext(d, day'[d].in, "in", "CHECK_IN", InsFor(d)')
                    /\ ToldNext(d, day'[d].out, "out", "CHECK_OUT", OutsFor(d)')
  BY DEF TimesAreExplained, Told, ToldNext, InsFor, OutsFor
<1>1. stops = 0
  <2>1. CASE QuietStep
    BY <1>0, <2>1, QuietFields
  <2>2. ASSUME NEW p \in Punches, WriteDay(p) PROVE stops' = stops
    BY <1>0, <2>2, WriteFields
  <2>3. ASSUME NEW p \in Punches, AddEvent(p) \/ Stop(p) PROVE stops' = stops
    BY <1>0, <2>3, EndFields
  <2>4. ASSUME NEW p \in Punches, NEW u \in Time,
               \/ BeginCheckOut(p, u)
               \/ \E ip \in Address \cup {NoAddress}, near, reason \in BOOLEAN :
                     BeginCheckIn(p, u, ip, near, reason)
        PROVE  stops' = stops
    BY <1>0, <2>4, BeginFields
  <2> QED BY <2>1, <2>2, <2>3, <2>4, AttendanceSteps
<1>2. /\ Told(d, day[d].in, "in", "CHECK_IN", InsFor(d))
      /\ Told(d, day[d].out, "out", "CHECK_OUT", OutsFor(d))
  BY <1>0, <1>1 DEF TimesAreExplained, InsFor, OutsFor
<1>3. /\ ToldNext(d, day[d].in, "in", "CHECK_IN", InsFor(d)')
      /\ ToldNext(d, day[d].out, "out", "CHECK_OUT", OutsFor(d)')
  <2>1. InsFor(d) \subseteq InsFor(d)' /\ OutsFor(d) \subseteq OutsFor(d)'
    BY <1>0, ApprovedGrow
  <2>2. ToldNext(d, day[d].in, "in", "CHECK_IN", InsFor(d)')
    BY <1>0, <1>2, <2>1, ToldStays
  <2>3. ToldNext(d, day[d].out, "out", "CHECK_OUT", OutsFor(d)')
    BY <1>0, <1>2, <2>1, ToldStays
  <2> QED BY <2>2, <2>3
<1>4. ASSUME NEW p \in Punches, WriteDay(p)
      PROVE  /\ ToldNext(d, day'[d].in, "in", "CHECK_IN", InsFor(d)')
             /\ ToldNext(d, day'[d].out, "out", "CHECK_OUT", OutsFor(d)')
  <2>1. CASE DayOf(punch[p].at) # d
    <3>1. day'[d] = day[d]
      BY <1>0, <1>4, <2>1, WriteFields
    <3> QED BY <1>3, <3>1
  <2>2. CASE DayOf(punch[p].at) = d
    <3>1. punch'[p].pc = "event" /\ punch'[p].kind = punch[p].kind /\ punch'[p].at = punch[p].at
      BY <1>0, <1>4, WriteFields
    <3>2. CASE punch[p].kind = "in" /\ day'[d] = CheckInDay(p, d)
      <4>1. day'[d].in = punch[p].at /\ day'[d].out = day[d].out
        BY <1>0, <3>2, CheckInWrites
      <4>2. ToldNext(d, day'[d].in, "in", "CHECK_IN", InsFor(d)')
        BY <2>2, <3>1, <3>2, <4>1 DEF ToldNext
      <4> QED BY <1>3, <4>1, <4>2
    <3>3. CASE punch[p].kind = "out" /\ day'[d] = CheckOutDay(p, d)
      <4>1. day'[d].out = punch[p].at /\ day'[d].in = day[d].in
        BY <1>0, <3>3, CheckOutWrites
      <4>2. ToldNext(d, day'[d].out, "out", "CHECK_OUT", OutsFor(d)')
        BY <2>2, <3>1, <3>3, <4>1 DEF ToldNext
      <4> QED BY <1>3, <4>1, <4>2
    <3> QED BY <1>0, <1>4, <2>2, <3>2, <3>3, WriteFields
  <2> QED BY <2>1, <2>2
<1>5. ASSUME NEW r \in Regularization, Approve(r)
      PROVE  /\ ToldNext(d, day'[d].in, "in", "CHECK_IN", InsFor(d)')
             /\ ToldNext(d, day'[d].out, "out", "CHECK_OUT", OutsFor(d)')
  <2>1. CASE reg[r].day # d
    <3>1. day'[d] = day[d]
      BY <1>0, <1>5, <2>1, ApproveFields
    <3> QED BY <1>3, <3>1
  <2>2. CASE reg[r].day = d
    <3>1. day'[d] = Corrected(r)
      BY <1>0, <1>5, <2>2, ApproveFields
    <3>2. day'[d].in = reg'[r].in /\ day'[d].out = reg'[r].out
      <4>1. reg'[r].in = reg[r].in /\ reg'[r].out = reg[r].out
        BY <1>0, <1>5, ApproveFields
      <4>2. Corrected(r).in = reg[r].in /\ Corrected(r).out = reg[r].out
        BY <1>0, CorrectionWrites
      <4> QED BY <3>1, <4>1, <4>2
    <3>3. reg'[r].status = "APPROVED" /\ reg'[r].day = d
      BY <1>0, <1>5, <2>2, ApproveFields
    <3>4. day'[d].in \in InsFor(d)' /\ day'[d].out \in OutsFor(d)'
      BY <3>2, <3>3 DEF InsFor, OutsFor, ApprovedFor
    <3> QED BY <3>4 DEF ToldNext
  <2> QED BY <2>1, <2>2
<1>6. CASE UNCHANGED <<day, under>>
  BY <1>3, <1>6
<1> QED BY <1>0, <1>4, <1>5, <1>6, OtherSteps

LEMMA DaysInTurnKept ==
  ASSUME AInv, AttendanceNext
  PROVE  DaysInTurn' /\ CompleteDaySpans'
<1>0. /\ AttendanceTypeOK /\ StatusTellsTimes /\ PunchesReady /\ DaysInTurn /\ CompleteDaySpans
      /\ AttendanceTypeOK' /\ NoTime \notin Time /\ Time \subseteq Int
  BY AttendanceTyped, ZeroTimes DEF AInv, DayAgrees, Time
<1>1. /\ clock \in Time /\ clock' \in Time /\ \A p \in Punches : punch[p].at \in Time
      /\ \A d \in 0..(Days - 1) : /\ day[d].in \in Time \cup {NoTime}
                                  /\ day[d].out \in Time \cup {NoTime}
  BY <1>0, PunchTyped DEF AttendanceTypeOK, DayRecord, Times
<1> DEFINE InTurn(d) ==
             /\ day'[d].in # NoTime => day'[d].in <= clock'
             /\ \A p \in Punches : punch'[p].pc = "write" /\ DayOf(punch'[p].at) = d =>
                   /\ punch'[p].at <= clock'
                   /\ day'[d].in # NoTime => day'[d].in <= punch'[p].at
                   /\ \A q \in Punches : punch'[q].pc = "write" /\ DayOf(punch'[q].at) = d => q = p
             /\ day'[d].status = "COMPLETE" => day'[d].in <= day'[d].out
<1> SUFFICES ASSUME NEW d \in 0..(Days - 1), d \notin mixed' PROVE InTurn(d)
  BY DEF DaysInTurn, CompleteDaySpans
\* The same of the state before, where the day is not mixed.
<1>2. ASSUME d \notin mixed
      PROVE  /\ day[d].in # NoTime => day[d].in <= clock
             /\ \A p \in Punches : punch[p].pc = "write" /\ DayOf(punch[p].at) = d =>
                   /\ punch[p].at <= clock
                   /\ day[d].in # NoTime => day[d].in <= punch[p].at
                   /\ \A q \in Punches : punch[q].pc = "write" /\ DayOf(punch[q].at) = d => q = p
             /\ day[d].status = "COMPLETE" => day[d].in <= day[d].out
  BY <1>0, <1>2 DEF DaysInTurn, CompleteDaySpans
<1>3. ASSUME mixed' = mixed, day'[d] = day[d], clock' = clock,
             \A p \in Punches : punch'[p] = punch[p] \/ punch'[p].pc # "write"
      PROVE  InTurn(d)
  BY <1>2, <1>3
<1>4. ASSUME NEW p \in Punches, AddEvent(p) \/ Stop(p) PROVE InTurn(d)
  BY <1>0, <1>3, <1>4, EndFields DEF NoPunch
<1>5. ASSUME NEW p \in Punches, NEW t \in Time,
             \/ BeginCheckOut(p, t)
             \/ \E ip \in Address \cup {NoAddress}, near, reason \in BOOLEAN :
                   BeginCheckIn(p, t, ip, near, reason)
      PROVE  InTurn(d)
  <2>1. /\ punch[p].pc = "idle" /\ punch'[p].pc = "write" /\ punch'[p].at = t
        /\ \A q \in Punches \ {p} : punch'[q] = punch[q]
        /\ Mixing(t) /\ UNCHANGED <<clock, day>>
    BY <1>0, <1>5, BeginFields
  <2>2. d \notin mixed /\ (DayOf(t) = d => Alone(t))
    BY <2>1 DEF Mixing
  <2>3. CASE DayOf(t) # d
    BY <1>2, <2>1, <2>2, <2>3
  <2>4. CASE DayOf(t) = d
    <3>1. t = clock /\ \A q \in Punches : punch[q].pc = "write" => DayOf(punch[q].at) # d
      BY <2>2, <2>4 DEF Alone
    <3>2. \A q \in Punches : punch'[q].pc = "write" /\ DayOf(punch'[q].at) = d => q = p
      BY <2>1, <3>1
    <3>3. \A q \in Punches : punch'[q].pc = "write" /\ DayOf(punch'[q].at) = d => punch'[q].at = clock
      BY <2>1, <3>1, <3>2
    <3> QED BY <1>1, <1>0, <1>2, <2>1, <2>2, <3>2, <3>3
  <2> QED BY <2>3, <2>4
<1>6. ASSUME NEW p \in Punches, WriteDay(p) PROVE InTurn(d)
  <2>1. /\ punch[p].pc = "write" /\ punch'[p].pc = "event"
        /\ \A q \in Punches \ {p} : punch'[q] = punch[q]
        /\ UNCHANGED <<clock, mixed>>
    BY <1>0, <1>6, WriteFields
  <2>2. CASE DayOf(punch[p].at) # d
    <3>1. day'[d] = day[d]
      BY <1>0, <1>6, <2>2, WriteFields
    <3> QED BY <1>3, <2>1, <3>1
  <2>3. CASE DayOf(punch[p].at) = d
    <3>1. /\ punch[p].at <= clock /\ (day[d].in # NoTime => day[d].in <= punch[p].at)
          /\ \A q \in Punches : punch[q].pc = "write" /\ DayOf(punch[q].at) = d => q = p
      BY <1>2, <2>1, <2>3
    <3>2. \A q \in Punches : ~(punch'[q].pc = "write" /\ DayOf(punch'[q].at) = d)
      BY <2>1, <3>1
    <3>3. CASE punch[p].kind = "in" /\ day'[d] = CheckInDay(p, d)
      <4>1. day'[d].in = punch[p].at /\ day'[d].status = "OPEN"
        BY <1>0, <3>3, CheckInWrites
      <4> QED BY <2>1, <3>1, <3>2, <4>1
    <3>4. CASE punch[p].kind = "out" /\ day'[d] = CheckOutDay(p, d)
      <4>1. day'[d].in = day[d].in /\ day'[d].out = punch[p].at
        BY <1>0, <3>4, CheckOutWrites
      <4>2. day[d].in # NoTime
        BY <1>0, <2>1, <2>3, <3>4 DEF PunchesReady, StatusTellsTimes
      <4>3. day[d].in <= clock
        BY <1>2, <2>1, <4>2
      <4> QED BY <2>1, <3>1, <3>2, <4>1, <4>2, <4>3
    <3> QED BY <1>0, <1>6, <2>3, <3>3, <3>4, WriteFields
  <2> QED BY <2>2, <2>3
<1>7. ASSUME NEW r \in Regularization, Approve(r) PROVE InTurn(d)
  <2>1. mixed' = mixed \cup {reg[r].day} /\ UNCHANGED <<clock, punch>>
    BY <1>0, <1>7, ApproveFields
  <2>2. d \notin mixed /\ d # reg[r].day
    BY <2>1
  <2>3. day'[d] = day[d]
    BY <1>0, <1>7, <2>2, ApproveFields
  <2> QED BY <1>2, <2>1, <2>2, <2>3
<1>8. CASE Tick
  <2>1. clock' = clock + 1 /\ UNCHANGED <<day, punch, mixed>>
    BY <1>8 DEF Tick
  <2>2. clock <= clock' /\ \A t \in Time : t <= clock => t <= clock'
    BY <1>0, <1>1, <2>1
  <2> QED BY <1>1, <1>2, <2>1, <2>2
<1>9. ASSUME NEW rule \in Rule, AddRule(rule) PROVE InTurn(d)
  BY <1>3, <1>9 DEF AddRule
<1>10. ASSUME NEW r \in Regularization, Reject(r) PROVE InTurn(d)
  BY <1>3, <1>10 DEF Reject
<1>11. ASSUME NEW r \in Regularization, NEW e \in 0..(Days - 1), NEW i \in Time, NEW o \in Time,
              File(r, e, i, o)
       PROVE  InTurn(d)
  BY <1>3, <1>11 DEF File
<1> QED BY <1>4, <1>5, <1>6, <1>7, <1>8, <1>9, <1>10, <1>11, AttendanceSteps DEF QuietStep

LEMMA AttendanceKept == AInv /\ [AttendanceNext]_attendanceVars => AInv'
<1> SUFFICES ASSUME AInv, [AttendanceNext]_attendanceVars PROVE AInv'
  OBVIOUS
<1>1. AttendanceTypeOK'
  BY AttendanceTyped DEF AInv, DayAgrees
<1>2. CASE AttendanceNext
  <2>1. /\ MinutesBelongToTimes' /\ StatusTellsTimes' /\ OfficeByPrefix'
        /\ \A d \in 0..(Days - 1) : day[d].exists => day'[d].exists
    BY <1>2, DaysAgreeKept
  <2>2. PunchesReady' /\ RegsReady'
    BY <1>2, <2>1, ReadyKept
  <2>3. TimesAreExplained'
    BY <1>2, TimesExplainedKept
  <2>4. DaysInTurn' /\ CompleteDaySpans'
    BY <1>2, DaysInTurnKept
  <2> QED BY <1>1, <2>1, <2>2, <2>3, <2>4 DEF AInv, DayAgrees
<1>3. CASE UNCHANGED attendanceVars
  <2>1. UNCHANGED <<clock, day, event, reg, rules, punch, stops, mixed, under>>
    BY <1>3 DEF attendanceVars
  <2>2. MinutesBelongToTimes' /\ StatusTellsTimes' /\ OfficeByPrefix' /\ CompleteDaySpans'
    BY <2>1 DEF AInv, DayAgrees, MinutesBelongToTimes, StatusTellsTimes, OfficeByPrefix,
                CompleteDaySpans
  <2>3. TimesAreExplained'
    BY <2>1 DEF AInv, DayAgrees, TimesAreExplained, Told, ApprovedFor
  <2>4. PunchesReady' /\ RegsReady' /\ DaysInTurn'
    BY <2>1 DEF AInv, PunchesReady, RegsReady, DaysInTurn
  <2> QED BY <1>1, <2>2, <2>3, <2>4 DEF AInv, DayAgrees
<1> QED BY <1>2, <1>3

\* However many check-ins, check-outs and corrections write the days at once: a
\* day's late and early minutes are those of its times, its status tells which it
\* has, a time is that of an event or of an approved correction unless a process
\* has stopped, a complete day whose writers came one after the other spans its
\* times, and it is at the office by place or by the first bits of an address.
THEOREM DaysStayAgreed == AttendanceSpec => []DayAgrees
<1>1. AttendanceInit => AInv
  <2> SUFFICES ASSUME AttendanceInit PROVE AInv
    OBVIOUS
  <2>1. AttendanceTypeOK
    BY AttendanceInitTyped
  <2>2. /\ \A d \in 0..(Days - 1) : day[d] = NoDay
        /\ \A p \in Punches : punch[p].pc = "idle"
        /\ \A r \in Regularization : reg[r].status = "NONE"
    BY DEF AttendanceInit, NoPunch, NoReg
  <2>3. MinutesBelongToTimes /\ StatusTellsTimes /\ OfficeByPrefix /\ CompleteDaySpans
    BY <2>2 DEF NoDay, MinutesBelongToTimes, StatusTellsTimes, OfficeByPrefix, CompleteDaySpans
  <2>4. TimesAreExplained
    BY <2>2 DEF NoDay, TimesAreExplained, Told
  <2>5. PunchesReady /\ RegsReady /\ DaysInTurn
    BY <2>2 DEF NoDay, PunchesReady, RegsReady, DaysInTurn
  <2> QED BY <2>1, <2>3, <2>4, <2>5 DEF AInv, DayAgrees
<1>2. AInv => DayAgrees
  BY DEF AInv
<1> QED BY <1>1, <1>2, AttendanceKept, PTL DEF AttendanceSpec
=============================================================================
