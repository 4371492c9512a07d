-------------------------- MODULE TimeEntriesProofs --------------------------
(***************************************************************************)
(* Theorems about TimeEntries, for any number of people, projects and      *)
(* requests and any cap, budget, thresholds and bounds.                    *)
(*                                                                         *)
(* AlertLadder needs to know what a request still has to raise: its set    *)
(* "due" together with the alerts already there has no gap (Ladder).       *)
(* LockedDateClosed needs that a request which saw the date locked goes on *)
(* only for an unlocked entry (Opened).  OverrunBounded needs that a       *)
(* request carries one row, of an allowed amount (Rows); the hours on      *)
(* their way are a set, so storing a row is one more finite set that       *)
(* leaves a larger one.  AlertsComplete needs what an evaluation that      *)
(* nothing disturbs has read and raised at each of its stages              *)
(* (Undisturbed).                                                          *)
(*                                                                         *)
(* And about Dashboards.  FiguresHold needs that each figure is the number *)
(* of a set that agrees with the tasks there are now, but for those that   *)
(* changed while the figures were read (FiguresFollow, AgesFollow), where  *)
(* a stay in a status begins (StaysFollow), and what every check on the    *)
(* way to the counts has established (ScopeFollows).                       *)
(***************************************************************************)
EXTENDS TimeEntries, Dashboards, FiniteSetTheorems, TLAPS

\* A request that saw the date locked corrects an unlocked entry.
Opened ==
    \A r \in Requests :
        /\ request[r].lockSeen =>
              /\ locked
              /\ \A row \in request[r].row : row.parent \in unlocked
        /\ locked \/ ~request[r].lockSeen

\* A request evaluates one project.
OneProject == \A r \in Requests : \A p, q \in request[r].project : p = q

\* What a request has still to raise leaves no gap above the alerts there are.
Ladder ==
    \A r \in Requests : request[r].pc = "raise" =>
        \A p \in request[r].project, t \in request[r].due, s \in Thresholds :
            s < t => s \in request[r].due \cup alerts[p]

-----------------------------------------------------------------------------
LEMMA IdleTyped == Idle \in RequestRecord
  BY DEF Idle, RequestRecord

LEMMA InitTypeOK == Init => TypeOK
<1> SUFFICES ASSUME Init PROVE TypeOK
  OBVIOUS
<1>1. request \in [Requests -> RequestRecord]
  BY IdleTyped DEF Init
<1>2. costs \in [Projects -> [manual: 0..MaxCosts, expense: 0..MaxExpenses]]
  BY ConstantsAssumption DEF Init
<1>3. entries \in Seq(EntryRow)
  BY DEF Init
<1>4. unlocked \subseteq DOMAIN entries
  BY DEF Init
<1>5. hours \in [Users -> Int] /\ labor \in [Projects -> Int]
  BY DEF Init
<1>6. locked \in BOOLEAN
  BY Zenon DEF Init
<1>7. alerts \in [Projects -> SUBSET Thresholds]
  BY DEF Init
<1>8. behind \subseteq Projects
  BY DEF Init
<1> QED BY <1>1, <1>2, <1>3, <1>4, <1>5, <1>6, <1>7, <1>8 DEF TypeOK

\* Beginning a request, returning from it and starting the evaluation keep the
\* request records well typed.
LEMMA BeginTyped ==
  ASSUME TypeOK, NEW r \in Requests, NEW row \in Row, Begin(r, row)
  PROVE  TypeOK'
<1>1. [Idle EXCEPT !.pc = "cap", !.row = {row}, !.lockSeen = locked] \in RequestRecord
  BY IdleTyped DEF TypeOK, RequestRecord
<1> QED BY <1>1 DEF Begin, TypeOK

LEMMA ReturnTyped ==
  ASSUME TypeOK, NEW r \in Requests, Return(r)
  PROVE  request' \in [Requests -> RequestRecord]
  BY IdleTyped DEF Return, TypeOK

LEMMA EvaluateTyped ==
  ASSUME TypeOK, NEW r \in Requests, NEW p \in Projects, Evaluate(r, p)
  PROVE  request' \in [Requests -> RequestRecord] /\ behind' \subseteq Projects
<1>1. [Idle EXCEPT !.pc = "burn", !.project = {p}, !.unread = {"entries", "costs"}]
         \in RequestRecord
  BY IdleTyped DEF RequestRecord
<1> QED BY <1>1 DEF Evaluate, TypeOK

LEMMA RequestTypeOK ==
  ASSUME TypeOK, NEW r \in Requests, RequestStep(r)
  PROVE  TypeOK'
<1>0. request[r] \in RequestRecord
  BY DEF TypeOK
<1>1. CASE CreateTimeEntry(r)
  <2>1. PICK u \in Users, p \in Projects, h \in Hours :
           Begin(r, [user |-> u, project |-> p, hours |-> h, parent |-> 0])
    BY <1>1 DEF CreateTimeEntry
  <2>2. [user |-> u, project |-> p, hours |-> h, parent |-> 0] \in Row
    BY ConstantsAssumption DEF Row
  <2> QED BY <2>1, <2>2, BeginTyped
<1>2. CASE AdjustTimeEntry(r)
  <2>1. PICK e \in DOMAIN entries, d \in Deltas :
           Begin(r, [user |-> entries[e].user, project |-> entries[e].project,
                     hours |-> d, parent |-> e])
    BY <1>2 DEF AdjustTimeEntry
  <2>2. [user |-> entries[e].user, project |-> entries[e].project,
         hours |-> d, parent |-> e] \in Row
    <3>1. entries[e] \in [user: Users, project: Projects, parent: Nat] /\ e \in Nat
      <4>1. entries \in Seq(EntryRow)
        BY DEF TypeOK
      <4>2. e \in 1..Len(entries)
        BY <2>1, <4>1
      <4>3. entries[e] \in EntryRow
        BY <4>1, <4>2
      <4>4. e \in Nat
        BY <4>1, <4>2
      <4> QED BY <4>3, <4>4 DEF EntryRow
    <3>2. d \in Int
      BY ConstantsAssumption
    <3> QED BY <3>1, <3>2 DEF Row
  <2> QED BY <2>1, <2>2, BeginTyped
<1>3. ASSUME NEW p \in Projects, AddProjectCosts(r, p) PROVE TypeOK'
  <2>1. request' \in [Requests -> RequestRecord] /\ behind' \subseteq Projects
    BY <1>3, EvaluateTyped DEF AddProjectCosts
  <2>2. costs' \in [Projects -> [manual: 0..MaxCosts, expense: 0..MaxExpenses]]
    <3>1. costs[p].manual + 1 \in 0..MaxCosts
      BY <1>3, ConstantsAssumption DEF AddProjectCosts, TypeOK
    <3> QED BY <1>3, <3>1 DEF AddProjectCosts, TypeOK
  <2> QED BY <1>3, <2>1, <2>2 DEF AddProjectCosts, TypeOK
<1>4. CASE AssertDailyCap(r)
  <2>1. request' \in [Requests -> RequestRecord]
    <3>1. CASE request' = [request EXCEPT ![r].pc = "insert"]
      BY <1>0, <3>1 DEF TypeOK, RequestRecord
    <3> QED BY <1>4, <3>1, ReturnTyped DEF AssertDailyCap
  <2> QED BY <1>4, <2>1 DEF AssertDailyCap, TypeOK
<1>5. CASE InsertEntry(r)
  <2>1. PICK row \in request[r].row :
           /\ entries' = Append(entries, [user |-> row.user, project |-> row.project,
                                          parent |-> row.parent])
           /\ hours' = [hours EXCEPT ![row.user] = @ + row.hours]
           /\ labor' = [labor EXCEPT ![row.project] = @ + row.hours]
           /\ Evaluate(r, row.project)
    BY <1>5 DEF InsertEntry
  <2>2. row \in Row
    BY <1>0 DEF RequestRecord
  <2>3. row.user \in Users /\ row.project \in Projects /\ row.hours \in Int /\ row.parent \in Nat
    BY <2>2 DEF Row
  <2>4. request' \in [Requests -> RequestRecord] /\ behind' \subseteq Projects
    BY <2>1, <2>3, EvaluateTyped
  <2>5. /\ entries' \in Seq(EntryRow)
        /\ DOMAIN entries \subseteq DOMAIN entries'
    <3>1. entries \in Seq(EntryRow)
      BY DEF TypeOK
    <3>2. [user |-> row.user, project |-> row.project, parent |-> row.parent]
             \in EntryRow
      BY <2>3 DEF EntryRow
    <3> QED BY <2>1, <3>1, <3>2
  <2>6. hours' \in [Users -> Int] /\ labor' \in [Projects -> Int]
    BY <2>1, <2>3 DEF TypeOK
  <2> QED BY <1>5, <2>4, <2>5, <2>6 DEF InsertEntry, TypeOK
<1>6. CASE ReadBurn(r)
  <2>1. PICK part \in request[r].unread, p \in request[r].project :
          request' = [request EXCEPT
             ![r].unread = @ \ {part},
             ![r].burn = @ + (IF part = "entries" THEN labor[p] ELSE CostsOf(p)),
             ![r].pc = IF request[r].unread = {part} THEN "alerts" ELSE "burn"]
    BY <1>6 DEF ReadBurn
  <2>2. p \in Projects /\ part \in {"entries", "costs"}
    BY <1>0 DEF RequestRecord
  <2>3. CostsOf(p) \in Int /\ labor[p] \in Int
    BY <2>2, ConstantsAssumption DEF CostsOf, TypeOK
  <2>4. request[r].burn + (IF part = "entries" THEN labor[p] ELSE CostsOf(p)) \in Int
    BY <1>0, <2>3 DEF RequestRecord
  <2>5. request[r].unread \ {part} \in SUBSET {"entries", "costs"}
    BY <1>0 DEF RequestRecord
  <2>6. request' \in [Requests -> RequestRecord]
    BY <1>0, <2>1, <2>4, <2>5 DEF TypeOK, RequestRecord
  <2> QED BY <1>6, <2>6 DEF ReadBurn, TypeOK
<1>7. CASE ReadAlerts(r)
  <2>1. PICK p \in request[r].project :
          request' = [request EXCEPT ![r].pc = "raise",
                                     ![r].due = Reached(request[r].burn) \ alerts[p]]
    BY <1>7 DEF ReadAlerts
  <2>2. Reached(request[r].burn) \ alerts[p] \in SUBSET Thresholds
    BY DEF Reached
  <2>3. request' \in [Requests -> RequestRecord]
    BY <1>0, <2>1, <2>2 DEF TypeOK, RequestRecord
  <2> QED BY <1>7, <2>3 DEF ReadAlerts, TypeOK
<1>8. CASE RaiseAlert(r)
  <2>1. CASE Return(r) /\ UNCHANGED alerts
    BY <1>8, <2>1, ReturnTyped DEF RaiseAlert, TypeOK
  <2>2. ASSUME NEW p \in request[r].project, NEW t \in NextDue(request[r].due),
               alerts' = [alerts EXCEPT ![p] = @ \cup {t}],
               request' = [request EXCEPT ![r].due = @ \ {t}]
        PROVE  TypeOK'
    <3>1. p \in Projects /\ t \in Thresholds
      BY <1>0 DEF RequestRecord, NextDue
    <3>2. request' \in [Requests -> RequestRecord]
      BY <1>0, <2>2 DEF TypeOK, RequestRecord
    <3>3. alerts' \in [Projects -> SUBSET Thresholds]
      BY <2>2, <3>1 DEF TypeOK
    <3> QED BY <1>8, <3>2, <3>3 DEF RaiseAlert, TypeOK
  <2> QED BY <1>8, <2>1, <2>2 DEF RaiseAlert
<1>9. CASE LoseRequest(r)
  <2>1. request[r].project \subseteq Projects
    BY <1>0 DEF RequestRecord
  <2> QED BY <1>9, <2>1, ReturnTyped DEF LoseRequest, TypeOK
<1> QED BY <1>1, <1>2, <1>3, <1>4, <1>5, <1>6, <1>7, <1>8, <1>9 DEF RequestStep, HandlerStep

LEMMA NextTypeOK == TypeOK /\ [Next]_vars => TypeOK'
<1> SUFFICES ASSUME TypeOK, [Next]_vars PROVE TypeOK'
  OBVIOUS
<1>1. ASSUME NEW p \in Projects, ApproveExpense(p) PROVE TypeOK'
  <2>1. costs[p].expense + 1 \in 0..MaxExpenses
    BY <1>1, ConstantsAssumption DEF ApproveExpense, TypeOK
  <2>2. costs' \in [Projects -> [manual: 0..MaxCosts, expense: 0..MaxExpenses]]
    BY <1>1, <2>1 DEF ApproveExpense, TypeOK
  <2> QED BY <1>1, <2>2 DEF ApproveExpense, TypeOK
<1>2. CASE UnlockTimeEntry
  BY <1>2 DEF UnlockTimeEntry, TypeOK
<1>3. CASE DateLocks
  BY <1>3 DEF DateLocks, TypeOK
<1>4. CASE UNCHANGED vars
  BY <1>4 DEF vars, TypeOK
<1> QED BY <1>1, <1>2, <1>3, <1>4, RequestTypeOK DEF Next

\* The tables and the requests in flight stay well typed: in particular every
\* unlock names an entry, and only known thresholds have alerts.
THEOREM TypeCorrect == Spec => []TypeOK
  BY InitTypeOK, NextTypeOK, PTL DEF Spec

-----------------------------------------------------------------------------
\* A burn that reaches a threshold reaches every lower one.
LEMMA ReachedDownward ==
  ASSUME NEW burn \in Int, NEW t \in Reached(burn), NEW s \in Thresholds, s < t
  PROVE  s \in Reached(burn)
<1>1. t \in Nat /\ s \in Nat /\ Budget \in Nat
  BY ConstantsAssumption DEF Reached
<1>2. s * Budget <= t * Budget
  BY <1>1
<1>3. burn * 100 >= t * Budget
  BY DEF Reached
<1>4. s * Budget \in Int /\ t * Budget \in Int /\ burn * 100 \in Int
  BY <1>1
<1> HIDE DEF Reached
<1>5. burn * 100 >= s * Budget
  BY <1>2, <1>3, <1>4
<1> QED BY <1>5 DEF Reached

\* What AlertLadder needs to be inductive.
LInv == TypeOK /\ OneProject /\ Ladder /\ AlertLadder

\* A request that enters neither the loop over the thresholds nor stays in it
\* with anything changed cannot disturb the ladder.
LEMMA LadderFrame ==
  ASSUME LInv, alerts' = alerts, NEW r \in Requests,
         \A q \in Requests \ {r} : request'[q] = request[q],
         request'[r].pc # "raise",
         \A p, q \in request'[r].project : p = q
  PROVE  OneProject' /\ Ladder' /\ AlertLadder'
  BY DEF LInv, OneProject, Ladder, AlertLadder

\* A request that returns, begins or starts an evaluation is such a request.
LEMMA ReturnLadder ==
  ASSUME LInv, alerts' = alerts, NEW r \in Requests, Return(r)
  PROVE  OneProject' /\ Ladder' /\ AlertLadder'
<1>1. Idle.pc = "idle" /\ Idle.project = {}
  BY DEF Idle
<1>2. /\ \A q \in Requests \ {r} : request'[q] = request[q]
      /\ request'[r] = Idle
  BY DEF Return, LInv, TypeOK
<1> QED BY <1>1, <1>2, LadderFrame

LEMMA EvaluateLadder ==
  ASSUME LInv, alerts' = alerts, NEW r \in Requests, NEW p, Evaluate(r, p)
  PROVE  OneProject' /\ Ladder' /\ AlertLadder'
<1>1. /\ \A q \in Requests \ {r} : request'[q] = request[q]
      /\ request'[r].pc = "burn" /\ request'[r].project = {p}
  BY DEF Evaluate, Idle, LInv, TypeOK
<1> QED BY <1>1, LadderFrame

LEMMA BeginLadder ==
  ASSUME LInv, NEW r \in Requests, NEW row, Begin(r, row)
  PROVE  OneProject' /\ Ladder' /\ AlertLadder'
<1>1. /\ \A q \in Requests \ {r} : request'[q] = request[q]
      /\ request'[r].pc = "cap" /\ request'[r].project = {}
      /\ alerts' = alerts
  BY DEF Begin, Idle, LInv, TypeOK
<1> QED BY <1>1, LadderFrame

LEMMA RequestLadder ==
  ASSUME LInv, NEW r \in Requests, RequestStep(r)
  PROVE  OneProject' /\ Ladder' /\ AlertLadder'
<1>0. request \in [Requests -> RequestRecord] /\ request[r] \in RequestRecord
  BY DEF LInv, TypeOK
<1>1. CASE CreateTimeEntry(r)
  BY <1>1, BeginLadder DEF CreateTimeEntry
<1>2. CASE AdjustTimeEntry(r)
  BY <1>2, BeginLadder DEF AdjustTimeEntry
<1>3. ASSUME NEW p \in Projects, AddProjectCosts(r, p)
      PROVE  OneProject' /\ Ladder' /\ AlertLadder'
  BY <1>3, EvaluateLadder DEF AddProjectCosts
<1>4. CASE AssertDailyCap(r)
  <2>1. CASE request' = [request EXCEPT ![r].pc = "insert"]
    <3>1. /\ \A q \in Requests \ {r} : request'[q] = request[q]
          /\ request'[r].pc = "insert" /\ request'[r].project = request[r].project
      BY <1>0, <2>1 DEF RequestRecord
    <3> QED BY <1>4, <3>1, LadderFrame DEF AssertDailyCap, LInv, OneProject
  <2> QED BY <1>4, <2>1, ReturnLadder DEF AssertDailyCap
<1>5. CASE InsertEntry(r)
  BY <1>5, EvaluateLadder DEF InsertEntry
<1>6. CASE ReadBurn(r)
  <2>1. /\ \A q \in Requests \ {r} : request'[q] = request[q]
        /\ request'[r].pc # "raise" /\ request'[r].project = request[r].project
    BY <1>0, <1>6 DEF ReadBurn, RequestRecord
  <2> QED BY <1>6, <2>1, LadderFrame DEF ReadBurn, LInv, OneProject
<1>7. CASE ReadAlerts(r)
  <2>1. PICK p \in request[r].project :
          request' = [request EXCEPT ![r].pc = "raise",
                                     ![r].due = Reached(request[r].burn) \ alerts[p]]
    BY <1>7 DEF ReadAlerts
  <2>2. /\ \A q \in Requests \ {r} : request'[q] = request[q]
        /\ request'[r].due = Reached(request[r].burn) \ alerts[p]
        /\ request'[r].project = request[r].project
    BY <1>0, <2>1 DEF RequestRecord
  <2>3. \A q \in request[r].project : q = p
    BY DEF LInv, OneProject
  <2>4. request[r].burn \in Int
    BY <1>0 DEF RequestRecord
  <2>5. OneProject' /\ AlertLadder'
    BY <1>7, <2>2 DEF ReadAlerts, LInv, OneProject, AlertLadder
  <2>6. ASSUME NEW q \in request'[r].project, NEW t \in request'[r].due,
               NEW s \in Thresholds, s < t
        PROVE  s \in request'[r].due \cup alerts'[q]
    <3>1. s \in Reached(request[r].burn)
      BY <2>2, <2>4, <2>6, ReachedDownward
    <3> QED BY <1>7, <2>2, <2>3, <2>6, <3>1 DEF ReadAlerts
  <2>7. Ladder'
    BY <1>7, <2>2, <2>6 DEF ReadAlerts, LInv, Ladder
  <2> QED BY <2>5, <2>7
<1>8. CASE RaiseAlert(r)
  <2>1. ASSUME NEW p \in request[r].project, NEW t \in NextDue(request[r].due),
               alerts' = [alerts EXCEPT ![p] = @ \cup {t}],
               request' = [request EXCEPT ![r].due = @ \ {t}]
        PROVE  OneProject' /\ Ladder' /\ AlertLadder'
    <3>1. /\ \A q \in Requests \ {r} : request'[q] = request[q]
          /\ request'[r].due = request[r].due \ {t} /\ request'[r].pc = request[r].pc
          /\ request'[r].project = request[r].project
      BY <1>0, <2>1 DEF RequestRecord
    <3>2. /\ p \in Projects
          /\ \A q \in Projects : alerts[q] \subseteq alerts'[q]
          /\ alerts'[p] = alerts[p] \cup {t}
          /\ \A q \in Projects \ {p} : alerts'[q] = alerts[q]
      BY <1>0, <2>1 DEF RequestRecord, LInv, TypeOK
    <3>3. \A q \in request[r].project : q = p
      BY DEF LInv, OneProject
    <3>4. t \in request[r].due /\ t \in Nat /\ Thresholds \subseteq Nat
          /\ \A s \in request[r].due : t <= s
      BY <1>0, ConstantsAssumption DEF NextDue, RequestRecord
    <3>5. \A s \in Thresholds : s < t => s \in alerts[p]
      <4>1. \A s \in Thresholds : s < t => s \in request[r].due \cup alerts[p]
        BY <1>8, <3>4 DEF RaiseAlert, LInv, Ladder
      <4> QED BY <3>4, <4>1
    <3>6. OneProject'
      BY <3>1 DEF LInv, OneProject
    <3>7. AlertLadder'
      BY <3>2, <3>5 DEF LInv, AlertLadder
    <3>8. Ladder'
      <4>1. ASSUME NEW q \in Requests, request'[q].pc = "raise",
                   NEW o \in request'[q].project, NEW u \in request'[q].due,
                   NEW s \in Thresholds, s < u
            PROVE  s \in request'[q].due \cup alerts'[o]
        <5>1. /\ request[q].pc = "raise" /\ o \in request[q].project /\ u \in request[q].due
          BY <3>1, <4>1
        <5>2. o \in Projects
          BY <5>1 DEF LInv, TypeOK, RequestRecord
        <5>3. s \in request[q].due \cup alerts[o]
          BY <4>1, <5>1 DEF LInv, Ladder
        <5> QED BY <3>1, <3>2, <3>3, <5>1, <5>2, <5>3
      <4> QED BY <4>1 DEF Ladder
    <3> QED BY <3>6, <3>7, <3>8
  <2> QED BY <1>8, <2>1, ReturnLadder DEF RaiseAlert
<1>9. CASE LoseRequest(r)
  BY <1>9, ReturnLadder DEF LoseRequest
<1> QED BY <1>1, <1>2, <1>3, <1>4, <1>5, <1>6, <1>7, <1>8, <1>9 DEF RequestStep, HandlerStep

\* The alerts of a project form a ladder although several requests raise them
\* from burns they read at different times, and may be lost midway.
THEOREM LadderOfAlerts == Spec => []AlertLadder
<1>1. Init => LInv
  <2>1. Init => OneProject /\ Ladder /\ AlertLadder
    BY DEF Init, Idle, OneProject, Ladder, AlertLadder
  <2> QED BY <2>1, InitTypeOK DEF LInv
<1>2. LInv /\ [Next]_vars => LInv'
  <2>1. ASSUME LInv, request' = request, alerts' = alerts
        PROVE  OneProject' /\ Ladder' /\ AlertLadder'
    BY <2>1 DEF LInv, OneProject, Ladder, AlertLadder
  <2> QED BY <2>1, RequestLadder, NextTypeOK
          DEF Next, vars, ApproveExpense, UnlockTimeEntry, DateLocks, LInv
<1>3. LInv => AlertLadder
  BY DEF LInv
<1> QED BY <1>1, <1>2, <1>3, PTL DEF Spec

-----------------------------------------------------------------------------
\* What LockedDateClosed needs.
OInv == TypeOK /\ Opened

LEMMA OpenedFrame ==
  ASSUME Opened, unlocked \subseteq unlocked', locked => locked',
         NEW r \in Requests, \A q \in Requests \ {r} : request'[q] = request[q],
         request'[r].lockSeen => request[r].lockSeen /\ request'[r].row = request[r].row
  PROVE  Opened'
  BY DEF Opened

LEMMA RequestOpened ==
  ASSUME OInv, NEW r \in Requests, RequestStep(r)
  PROVE  Opened'
<1>0. request \in [Requests -> RequestRecord] /\ request[r] \in RequestRecord
  BY DEF OInv, TypeOK
<1>1. CASE CreateTimeEntry(r)
  <2>1. PICK row : Begin(r, row) /\ ~locked
    BY <1>1 DEF CreateTimeEntry
  <2>2. /\ \A q \in Requests \ {r} : request'[q] = request[q]
        /\ request'[r].lockSeen = locked
    BY <1>0, <2>1 DEF Begin, Idle
  <2> QED BY <2>1, <2>2, OpenedFrame DEF Begin, OInv
<1>2. CASE AdjustTimeEntry(r)
  <2>1. PICK e \in DOMAIN entries, d \in Deltas :
           /\ Adjustable(e)
           /\ Begin(r, [user |-> entries[e].user, project |-> entries[e].project,
                        hours |-> d, parent |-> e])
    BY <1>2 DEF AdjustTimeEntry
  <2>2. PICK row : Begin(r, row) /\ row.parent = e
    BY <2>1
  <2>3. /\ \A q \in Requests \ {r} : request'[q] = request[q]
        /\ request'[r].lockSeen = locked /\ request'[r].row = {row}
        /\ UNCHANGED <<locked, unlocked>>
    BY <1>0, <2>2 DEF Begin, Idle
  <2>4. locked => e \in unlocked
    BY <2>1 DEF Adjustable
  <2> QED BY <2>2, <2>3, <2>4 DEF Opened, OInv
<1>3. CASE AssertDailyCap(r)
  <2>1. /\ \A q \in Requests \ {r} : request'[q] = request[q]
        /\ request'[r].lockSeen => request[r].lockSeen /\ request'[r].row = request[r].row
    BY <1>0, <1>3 DEF AssertDailyCap, Return, Idle, RequestRecord
  <2> QED BY <1>3, <2>1, OpenedFrame DEF AssertDailyCap, OInv
<1>4. CASE ReadBurn(r)
  <2>1. /\ \A q \in Requests \ {r} : request'[q] = request[q]
        /\ request'[r].lockSeen = request[r].lockSeen /\ request'[r].row = request[r].row
    BY <1>0, <1>4 DEF ReadBurn, RequestRecord
  <2> QED BY <1>4, <2>1, OpenedFrame DEF ReadBurn, OInv
<1>5. CASE ReadAlerts(r)
  <2>1. /\ \A q \in Requests \ {r} : request'[q] = request[q]
        /\ request'[r].lockSeen = request[r].lockSeen /\ request'[r].row = request[r].row
    BY <1>0, <1>5 DEF ReadAlerts, RequestRecord
  <2> QED BY <1>5, <2>1, OpenedFrame DEF ReadAlerts, OInv
<1>6. CASE RaiseAlert(r)
  <2>1. /\ \A q \in Requests \ {r} : request'[q] = request[q]
        /\ request'[r].lockSeen => request[r].lockSeen /\ request'[r].row = request[r].row
    BY <1>0, <1>6 DEF RaiseAlert, Return, Idle, RequestRecord
  <2> QED BY <1>6, <2>1, OpenedFrame DEF RaiseAlert, OInv
<1>7. CASE InsertEntry(r) \/ LoseRequest(r) \/ \E p \in Projects : AddProjectCosts(r, p)
  <2>1. \/ Return(r)
        \/ \E p : Evaluate(r, p)
    BY <1>7 DEF InsertEntry, LoseRequest, AddProjectCosts
  <2>2. /\ \A q \in Requests \ {r} : request'[q] = request[q]
        /\ request'[r].lockSeen = FALSE
    <3>1. CASE Return(r)
      BY <1>0, <3>1 DEF Return, Idle
    <3>2. ASSUME NEW p, Evaluate(r, p)
          PROVE  /\ \A q \in Requests \ {r} : request'[q] = request[q]
                 /\ request'[r].lockSeen = FALSE
      BY <1>0, <3>2 DEF Evaluate, Idle
    <3> QED BY <2>1, <3>1, <3>2
  <2>3. UNCHANGED <<locked, unlocked>>
    BY <1>7 DEF InsertEntry, LoseRequest, AddProjectCosts
  <2> QED BY <2>2, <2>3, OpenedFrame DEF OInv
<1> QED BY <1>1, <1>2, <1>3, <1>4, <1>5, <1>6, <1>7 DEF RequestStep, HandlerStep

LEMMA NextOInv == OInv /\ [Next]_vars => OInv'
<1>1. ASSUME OInv, request' = request, unlocked \subseteq unlocked', locked => locked'
      PROVE  Opened'
  BY <1>1 DEF OInv, Opened
<1> QED BY <1>1, RequestOpened, NextTypeOK
        DEF Next, vars, ApproveExpense, UnlockTimeEntry, DateLocks, OInv

\* Only InsertEntry adds rows, so what Opened says of its request is what the
\* property says of the row.
LEMMA StoredOpened ==
  ASSUME OInv, Next, locked, entries' # entries
  PROVE  \E r \in Requests :
            /\ request[r].pc = "insert"
            /\ request[r].lockSeen => entries'[Len(entries) + 1].parent \in unlocked
<1>1. PICK r \in Requests : InsertEntry(r)
  BY DEF Next, RequestStep, HandlerStep, CreateTimeEntry, AdjustTimeEntry, Begin, AddProjectCosts,
         AssertDailyCap, ReadBurn, ReadAlerts, RaiseAlert, LoseRequest,
         ApproveExpense, UnlockTimeEntry, DateLocks
<1>2. PICK row \in request[r].row :
         entries' = Append(entries, [user |-> row.user, project |-> row.project,
                                     parent |-> row.parent])
  BY <1>1 DEF InsertEntry
<1>3. entries'[Len(entries) + 1].parent = row.parent
  BY <1>2 DEF OInv, TypeOK
<1> QED BY <1>1, <1>2, <1>3 DEF InsertEntry, OInv, Opened

\* After the lock date no interleaving of requests stores a row that neither
\* started before it nor corrects an unlocked entry.
THEOREM LockHolds == Spec => LockedDateClosed
<1>1. Init => OInv
  BY InitTypeOK DEF OInv, Init, Idle, Opened
<1>2. OInv /\ [Next]_vars =>
         [locked /\ entries' # entries =>
            \E r \in Requests :
               /\ request[r].pc = "insert"
               /\ request[r].lockSeen => entries'[Len(entries) + 1].parent \in unlocked]_vars
  BY StoredOpened
<1> QED BY <1>1, <1>2, NextOInv, PTL DEF Spec, LockedDateClosed
-----------------------------------------------------------------------------
\* What OverrunBounded needs: a request carries one row, of an amount allowed.
Rows ==
    \A r \in Requests :
        /\ \A row, other \in request[r].row : row = other
        /\ \A row \in request[r].row : row.hours \in Hours \cup Deltas

CInv == TypeOK /\ Rows /\ OverrunBounded

LEMMA LargestIsMaximal ==
  /\ Largest \in Hours /\ Largest \in Nat /\ Largest > 0
  /\ \A k \in Hours \cup Deltas : k <= Largest
<1>1. Largest \in Hours /\ \A k \in Hours \cup Deltas : k <= Largest
  BY AmountsAssumption, Zenon DEF Largest
<1> QED BY <1>1, ConstantsAssumption

\* The requests are finitely many, and so are the quarter hours they can carry.
LEMMA Room ==
  ASSUME NEW R \in SUBSET Requests, NEW h \in Nat, NEW S \in SUBSET (R \X (1..h))
  PROVE  /\ IsFiniteSet(S) /\ Cardinality(S) \in Nat
         /\ Cardinality(S) <= Cardinality(R) * h
         /\ IsFiniteSet(R \X (1..h)) /\ Cardinality(R \X (1..h)) = Cardinality(R) * h
         /\ Cardinality(R) \in Nat
<1>1. IsFiniteSet(R)
  BY AmountsAssumption, FS_Subset
<1>2. IsFiniteSet(1..h) /\ Cardinality(1..h) = h
  BY FS_Interval
<1>3. IsFiniteSet(R \X (1..h)) /\ Cardinality(R \X (1..h)) = Cardinality(R) * h
  BY <1>1, <1>2, FS_Product
<1> QED BY <1>1, <1>3, FS_Subset, FS_CardinalityType

LEMMA InFlightIn ==
  ASSUME NEW u
  PROVE  /\ InFlight(u) \in SUBSET (Requests \X (1..Largest))
         /\ IsFiniteSet(InFlight(u)) /\ Cardinality(InFlight(u)) \in Nat
<1>1. InFlight(u) \in SUBSET (Requests \X (1..Largest))
  BY DEF InFlight
<1> QED BY <1>1, LargestIsMaximal, Room

\* The allowance of the other requests is theirs whatever one of them carries.
LEMMA OthersRoom ==
  ASSUME NEW r \in Requests
  PROVE  /\ Cardinality(Requests \ {r}) = Cardinality(Requests) - 1
         /\ Cardinality(Requests) \in Nat /\ Cardinality(Requests) >= 1
         /\ Overrun \in Nat
<1>1. /\ Cardinality(Requests \ {r}) = Cardinality(Requests) - 1
      /\ IsFiniteSet(Requests \ {r})
  BY AmountsAssumption, FS_RemoveElement
<1>2. Cardinality(Requests) \in Nat /\ Cardinality(Requests \ {r}) \in Nat
  BY <1>1, AmountsAssumption, FS_CardinalityType
<1>3. \A n \in Nat : n * Largest \in Nat
  BY LargestIsMaximal
<1> QED BY <1>1, <1>2, <1>3 DEF Overrun

LEMMA CapNow ==
  ASSUME CInv, NEW u \in Users
  PROVE  /\ hours[u] \in Int /\ DailyCap \in Int /\ Overrun \in Int
         /\ Cardinality(InFlight(u)) \in Nat
         /\ hours[u] + Cardinality(InFlight(u)) <= DailyCap + Overrun
<1>1. hours[u] \in Int
  BY DEF CInv, TypeOK
<1>2. DailyCap \in Int /\ Overrun \in Int
  <2>1. PICK r \in Requests : TRUE
    BY AmountsAssumption
  <2>2. Overrun \in Nat
    BY OthersRoom
  <2> QED BY <2>2, ConstantsAssumption
<1>3. Cardinality(InFlight(u)) \in Nat
  BY InFlightIn
<1> QED BY <1>1, <1>2, <1>3 DEF CInv, OverrunBounded

\* A step that stores nothing and sends no request on its way.
LEMMA CapFrame ==
  ASSUME CInv, hours' = hours, NEW r \in Requests,
         \A q \in Requests \ {r} : request'[q] = request[q],
         request'[r].pc = "insert" =>
            request[r].pc = "insert" /\ request'[r].row = request[r].row
  PROVE  OverrunBounded'
<1> SUFFICES ASSUME NEW u \in Users
             PROVE  hours'[u] + Cardinality(InFlight(u)') <= DailyCap + Overrun
  BY DEF OverrunBounded
<1>1. InFlight(u)' \subseteq InFlight(u)
  BY DEF InFlight
<1>2. Cardinality(InFlight(u)') <= Cardinality(InFlight(u)) /\ Cardinality(InFlight(u)') \in Nat
  BY <1>1, InFlightIn, FS_Subset, FS_CardinalityType
<1> QED BY <1>2, CapNow

\* A request that passes the check adds its own hours to what the others carry.
LEMMA CapChecked ==
  ASSUME CInv, NEW r \in Requests, AssertDailyCap(r),
         request' = [request EXCEPT ![r].pc = "insert"],
         \A row \in request[r].row : WithinCap(row.user, row.hours)
  PROVE  OverrunBounded'
<1> SUFFICES ASSUME NEW u \in Users
             PROVE  hours'[u] + Cardinality(InFlight(u)') <= DailyCap + Overrun
  BY DEF OverrunBounded
<1>0. /\ request \in [Requests -> RequestRecord] /\ request[r] \in RequestRecord
      /\ hours' = hours /\ hours[u] \in Int /\ DailyCap \in Int
  BY ConstantsAssumption DEF CInv, TypeOK, AssertDailyCap
<1>1. /\ \A q \in Requests \ {r} : request'[q] = request[q]
      /\ request'[r].pc = "insert" /\ request'[r].row = request[r].row
  BY <1>0 DEF RequestRecord
<1>2. CASE \E row \in request[r].row : row.user = u /\ row.hours > 0
  <2>1. PICK row \in request[r].row : row.user = u /\ row.hours > 0
    BY <1>2
  <2>2. row.hours \in Nat /\ hours[u] + row.hours <= DailyCap
    BY <1>0, <2>1 DEF RequestRecord, Row, WithinCap
  <2>3. \A other \in request[r].row : other = row
    BY DEF CInv, Rows
  <2> DEFINE own    == {r} \X (1..row.hours)
             theirs == (Requests \ {r}) \X (1..Largest)
  <2>4. InFlight(u)' \subseteq own \cup theirs
    BY <1>1, <2>3 DEF InFlight
  <2>5. IsFiniteSet(own) /\ Cardinality(own) = row.hours
    <3>1. Cardinality({r}) = 1
      BY FS_Singleton
    <3> QED BY <2>2, <3>1, Room
  <2>6. /\ IsFiniteSet(theirs)
        /\ Cardinality(theirs) = Overrun
    BY OthersRoom, LargestIsMaximal, Room DEF Overrun
  <2>7. /\ IsFiniteSet(own \cup theirs)
        /\ Cardinality(own \cup theirs) = Cardinality(own) + Cardinality(theirs)
    <3>1. own \cap theirs = {}
      OBVIOUS
    <3> HIDE DEF own, theirs
    <3>2. Cardinality(own \cup theirs)
             = Cardinality(own) + Cardinality(theirs) - Cardinality(own \cap theirs)
      BY <2>5, <2>6, FS_Union
    <3>3. Cardinality(own \cap theirs) = 0
      BY <3>1, FS_EmptySet
    <3>4. Cardinality(own) \in Nat /\ Cardinality(theirs) \in Nat
      BY <2>5, <2>6, FS_CardinalityType
    <3> QED BY <2>5, <2>6, <3>2, <3>3, <3>4, FS_Union
  <2> HIDE DEF own, theirs
  <2>8. Cardinality(InFlight(u)') <= row.hours + Overrun
    BY <2>4, <2>5, <2>6, <2>7, FS_Subset
  <2>9. Cardinality(InFlight(u)') \in Nat
    BY <2>4, <2>7, FS_Subset, FS_CardinalityType
  <2> QED BY <1>0, <2>2, <2>8, <2>9, CapNow
<1>3. CASE ~\E row \in request[r].row : row.user = u /\ row.hours > 0
  <2>1. InFlight(u)' \subseteq InFlight(u)
    <3>1. ASSUME NEW x \in InFlight(u)' PROVE x \in InFlight(u)
      <4>1. x[1] \in Requests /\ x[2] \in 1..Largest
        BY DEF InFlight
      <4>2. x[1] # r
        <5>1. SUFFICES ASSUME x[1] = r PROVE FALSE
          OBVIOUS
        <5>2. PICK row \in request[r].row : row.user = u /\ x[2] <= row.hours
          BY <1>1, <5>1 DEF InFlight
        <5>3. row.hours \in Int
          BY <1>0 DEF RequestRecord, Row
        <5> QED BY <1>3, <4>1, <5>2, <5>3, LargestIsMaximal
      <4> QED BY <1>1, <4>1, <4>2 DEF InFlight
    <3> QED BY <3>1
  <2>2. Cardinality(InFlight(u)') <= Cardinality(InFlight(u)) /\ Cardinality(InFlight(u)') \in Nat
    BY <2>1, InFlightIn, FS_Subset, FS_CardinalityType
  <2> QED BY <1>0, <2>2, CapNow
<1> QED BY <1>2, <1>3

\* Storing a row moves its hours from what is on its way to what is stored.
LEMMA CapStored ==
  ASSUME CInv, NEW r \in Requests, InsertEntry(r)
  PROVE  OverrunBounded'
<1> SUFFICES ASSUME NEW u \in Users
             PROVE  hours'[u] + Cardinality(InFlight(u)') <= DailyCap + Overrun
  BY DEF OverrunBounded
<1>0. /\ request \in [Requests -> RequestRecord] /\ request[r] \in RequestRecord
      /\ hours \in [Users -> Int] /\ DailyCap \in Int
  BY ConstantsAssumption DEF CInv, TypeOK
<1>1. PICK row \in request[r].row :
        /\ hours' = [hours EXCEPT ![row.user] = @ + row.hours]
        /\ Evaluate(r, row.project)
  BY DEF InsertEntry
<1>2. /\ row.user \in Users /\ row.hours \in Int /\ row.hours <= Largest
      /\ \A other \in request[r].row : other = row
  <2>1. row.hours <= Largest
    BY LargestIsMaximal DEF CInv, Rows
  <2>2. \A other \in request[r].row : other = row
    BY DEF CInv, Rows
  <2> QED BY <1>0, <2>1, <2>2 DEF RequestRecord, Row
<1>3. /\ \A q \in Requests \ {r} : request'[q] = request[q]
      /\ request'[r].pc = "burn" /\ request[r].pc = "insert"
  BY <1>0, <1>1 DEF Evaluate, Idle, InsertEntry
<1>4. InFlight(u)' \subseteq InFlight(u)
  BY <1>3 DEF InFlight
<1>5. Cardinality(InFlight(u)') <= Cardinality(InFlight(u)) /\ Cardinality(InFlight(u)') \in Nat
  BY <1>4, InFlightIn, FS_Subset, FS_CardinalityType
<1>7. CASE row.user # u \/ row.hours <= 0
  <2>1. hours'[u] <= hours[u] /\ hours'[u] \in Int
    BY <1>0, <1>1, <1>2, <1>7
  <2> QED BY <1>5, <2>1, CapNow
<1>8. CASE row.user = u /\ row.hours > 0
  <2> DEFINE own == {r} \X (1..row.hours)
  <2>1. IsFiniteSet(own) /\ Cardinality(own) = row.hours
    <3>1. Cardinality({r}) = 1
      BY FS_Singleton
    <3>2. row.hours \in Nat
      BY <1>2, <1>8
    <3> QED BY <3>1, <3>2, Room
  <2>2. own \subseteq InFlight(u)
    <3>1. ASSUME NEW n \in 1..row.hours PROVE <<r, n>> \in InFlight(u)
      <4>1. n \in 1..Largest
        BY <1>2, LargestIsMaximal
      <4> QED BY <1>2, <1>3, <1>8, <4>1 DEF InFlight
    <3> QED BY <3>1
  <2>3. own \cap InFlight(u)' = {}
    BY <1>3 DEF InFlight
  <2> HIDE DEF own
  <2>4. IsFiniteSet(own \cup InFlight(u)')
        /\ Cardinality(own \cup InFlight(u)') = Cardinality(own) + Cardinality(InFlight(u)')
    <3>1. IsFiniteSet(InFlight(u)')
      BY <1>4, InFlightIn, FS_Subset
    <3>2. Cardinality(own \cap InFlight(u)') = 0
      BY <2>3, FS_EmptySet
    <3>3. Cardinality(own) \in Nat /\ Cardinality(InFlight(u)') \in Nat
      BY <1>5, <2>1, FS_CardinalityType
    <3>4. Cardinality(own \cup InFlight(u)')
             = Cardinality(own) + Cardinality(InFlight(u)') - Cardinality(own \cap InFlight(u)')
      BY <2>1, <3>1, FS_Union
    <3>5. IsFiniteSet(own \cup InFlight(u)')
      BY <2>1, <3>1, FS_Union
    <3> QED BY <3>2, <3>3, <3>4, <3>5
  <2>5. Cardinality(own \cup InFlight(u)') <= Cardinality(InFlight(u))
    BY <1>4, <2>2, InFlightIn, FS_Subset
  <2>6. hours'[u] = hours[u] + row.hours
    BY <1>0, <1>1, <1>8
  <2> QED BY <1>2, <1>5, <2>1, <2>4, <2>5, <2>6, CapNow
<1> QED BY <1>2, <1>7, <1>8

\* Requests carry one row of an allowed amount, whatever step they take.
LEMMA RowsKept ==
  ASSUME CInv, [Next]_vars
  PROVE  Rows'
<1>0. request \in [Requests -> RequestRecord]
  BY DEF CInv, TypeOK
<1>1. ASSUME NEW r \in Requests,
             \A q \in Requests \ {r} : request'[q] = request[q],
             request'[r].row \subseteq request[r].row
      PROVE  Rows'
  BY <1>1 DEF CInv, Rows
<1>2. ASSUME NEW r \in Requests, NEW row, Begin(r, row), row.hours \in Hours \cup Deltas
      PROVE  Rows'
  <2>1. /\ \A q \in Requests \ {r} : request'[q] = request[q]
        /\ request'[r].row = {row}
    BY <1>0, <1>2 DEF Begin, Idle
  <2> QED BY <1>2, <2>1 DEF CInv, Rows
<1>3. ASSUME NEW r \in Requests, Return(r) PROVE Rows'
  BY <1>0, <1>1, <1>3 DEF Return, Idle
<1>4. ASSUME NEW r \in Requests, NEW p, Evaluate(r, p) PROVE Rows'
  BY <1>0, <1>1, <1>4 DEF Evaluate, Idle
<1>5. ASSUME NEW r \in Requests, RequestStep(r) PROVE Rows'
  <2>0. request[r] \in RequestRecord
    BY <1>0
  <2>1. CASE CreateTimeEntry(r)
    BY <1>2, <2>1 DEF CreateTimeEntry
  <2>2. CASE AdjustTimeEntry(r)
    BY <1>2, <2>2 DEF AdjustTimeEntry
  <2>3. CASE \E p \in Projects : AddProjectCosts(r, p)
    BY <1>4, <2>3 DEF AddProjectCosts
  <2>4. CASE AssertDailyCap(r)
    <3>1. CASE request' = [request EXCEPT ![r].pc = "insert"]
      BY <1>0, <1>1, <2>0, <3>1 DEF RequestRecord
    <3> QED BY <1>3, <2>4, <3>1 DEF AssertDailyCap
  <2>5. CASE InsertEntry(r)
    BY <1>4, <2>5 DEF InsertEntry
  <2>6. CASE ReadBurn(r)
    <3>1. /\ \A q \in Requests \ {r} : request'[q] = request[q]
          /\ request'[r].row = request[r].row
      BY <1>0, <2>0, <2>6 DEF ReadBurn, RequestRecord
    <3> QED BY <1>1, <3>1
  <2>7. CASE ReadAlerts(r)
    BY <1>0, <1>1, <2>0, <2>7 DEF ReadAlerts, RequestRecord
  <2>8. CASE RaiseAlert(r)
    <3>1. ASSUME NEW t, request' = [request EXCEPT ![r].due = @ \ {t}] PROVE Rows'
      BY <1>0, <1>1, <2>0, <3>1 DEF RequestRecord
    <3> QED BY <1>3, <2>8, <3>1 DEF RaiseAlert
  <2>9. CASE LoseRequest(r)
    BY <1>3, <2>9 DEF LoseRequest
  <2> QED BY <1>5, <2>1, <2>2, <2>3, <2>4, <2>5, <2>6, <2>7, <2>8, <2>9
          DEF RequestStep, HandlerStep
<1>6. CASE UNCHANGED request
  BY <1>6 DEF CInv, Rows
<1> QED BY <1>5, <1>6 DEF Next, vars, ApproveExpense, UnlockTimeEntry, DateLocks

LEMMA NextCap ==
  ASSUME CInv, [Next]_vars
  PROVE  OverrunBounded'
<1>0. request \in [Requests -> RequestRecord]
  BY DEF CInv, TypeOK
<1>1. ASSUME NEW r \in Requests, NEW row, Begin(r, row) PROVE OverrunBounded'
  <2>1. /\ \A q \in Requests \ {r} : request'[q] = request[q]
        /\ request'[r].pc = "cap" /\ hours' = hours
    BY <1>0, <1>1 DEF Begin, Idle
  <2> QED BY <2>1, CapFrame
<1>2. ASSUME NEW r \in Requests, Return(r), hours' = hours PROVE OverrunBounded'
  <2>1. /\ \A q \in Requests \ {r} : request'[q] = request[q]
        /\ request'[r].pc = "idle"
    BY <1>0, <1>2 DEF Return, Idle
  <2> QED BY <1>2, <2>1, CapFrame
<1>3. ASSUME NEW r \in Requests, RequestStep(r) PROVE OverrunBounded'
  <2>0. request[r] \in RequestRecord
    BY <1>0
  <2>1. CASE CreateTimeEntry(r) \/ AdjustTimeEntry(r)
    BY <1>1, <2>1 DEF CreateTimeEntry, AdjustTimeEntry
  <2>2. ASSUME NEW p \in Projects, AddProjectCosts(r, p) PROVE OverrunBounded'
    <3>1. /\ \A q \in Requests \ {r} : request'[q] = request[q]
          /\ request'[r].pc = "burn" /\ hours' = hours
      BY <1>0, <2>2 DEF AddProjectCosts, Evaluate, Idle
    <3> QED BY <3>1, CapFrame
  <2>3. CASE AssertDailyCap(r)
    BY <1>2, <2>3, CapChecked DEF AssertDailyCap
  <2>4. CASE InsertEntry(r)
    BY <2>4, CapStored
  <2>5. CASE ReadBurn(r)
    <3>1. /\ \A q \in Requests \ {r} : request'[q] = request[q]
          /\ request'[r].pc # "insert" /\ hours' = hours
      BY <1>0, <2>0, <2>5 DEF ReadBurn, RequestRecord
    <3> QED BY <3>1, CapFrame
  <2>6. CASE ReadAlerts(r)
    <3>1. /\ \A q \in Requests \ {r} : request'[q] = request[q]
          /\ request'[r].pc # "insert" /\ hours' = hours
      BY <1>0, <2>0, <2>6 DEF ReadAlerts, RequestRecord
    <3> QED BY <3>1, CapFrame
  <2>7. CASE RaiseAlert(r)
    <3>1. ASSUME NEW t, request' = [request EXCEPT ![r].due = @ \ {t}] PROVE OverrunBounded'
      <4>1. /\ \A q \in Requests \ {r} : request'[q] = request[q]
            /\ request'[r].pc # "insert" /\ hours' = hours
        BY <1>0, <2>0, <2>7, <3>1 DEF RaiseAlert, RequestRecord
      <4> QED BY <4>1, CapFrame
    <3> QED BY <1>2, <2>7, <3>1 DEF RaiseAlert
  <2>8. CASE LoseRequest(r)
    BY <1>2, <2>8 DEF LoseRequest
  <2> QED BY <1>3, <2>1, <2>2, <2>3, <2>4, <2>5, <2>6, <2>7, <2>8 DEF RequestStep, HandlerStep
<1>4. CASE UNCHANGED <<request, hours>>
  BY <1>4 DEF CInv, OverrunBounded, InFlight
<1> QED BY <1>3, <1>4 DEF Next, vars, ApproveExpense, UnlockTimeEntry, DateLocks

\* However many requests of a user overlap, each passing the cap check before
\* another has stored its row: the day exceeds the cap by at most one largest
\* entry for each of the others, the hours still on their way included.
THEOREM OverrunStaysBounded == Spec => []OverrunBounded
<1>1. Init => CInv
  <2> SUFFICES ASSUME Init PROVE Rows /\ OverrunBounded
    BY InitTypeOK DEF CInv
  <2>1. \A r \in Requests : request[r].row = {} /\ request[r].pc = "idle"
    BY DEF Init, Idle
  <2>2. Rows
    BY <2>1 DEF Rows
  <2>3. ASSUME NEW u \in Users PROVE hours[u] + Cardinality(InFlight(u)) <= DailyCap + Overrun
    <3>1. InFlight(u) = {}
      BY <2>1 DEF InFlight
    <3>2. Cardinality(InFlight(u)) = 0
      BY <3>1, FS_EmptySet
    <3>3. hours[u] = 0
      BY DEF Init
    <3>4. PICK r \in Requests : TRUE
      BY AmountsAssumption
    <3>5. Overrun \in Nat
      BY OthersRoom
    <3> QED BY <3>2, <3>3, <3>5, ConstantsAssumption
  <2> QED BY <2>2, <2>3 DEF OverrunBounded
<1>2. CInv /\ [Next]_vars => CInv'
  <2>1. ASSUME CInv, [Next]_vars PROVE TypeOK'
    BY <2>1, NextTypeOK DEF CInv
  <2> QED BY <2>1, RowsKept, NextCap DEF CInv
<1>3. CInv => OverrunBounded
  BY DEF CInv
<1> QED BY <1>1, <1>2, <1>3, PTL DEF Spec

-----------------------------------------------------------------------------
\* An evaluation that nothing disturbed: it is the only one of its project, what
\* it has read are the costs there still are, and what it has to raise is what is
\* missing.
Undisturbed(r, p) ==
    /\ Evaluating(p) = {r}
    /\ request[r].pc \in {"burn", "alerts", "raise"}
    /\ request[r].pc = "burn" =>
          request[r].burn = (IF "entries" \in request[r].unread THEN 0 ELSE labor[p])
                          + (IF "costs" \in request[r].unread THEN 0 ELSE CostsOf(p))
    /\ request[r].pc = "alerts" => request[r].burn = labor[p] + CostsOf(p)
    /\ request[r].pc = "raise" =>
          /\ request[r].due \cap alerts[p] = {}
          /\ Reached(labor[p] + CostsOf(p)) \subseteq request[r].due \cup alerts[p]

\* A project that is not behind is being caught up with, or needs no alert.
Covered(p) ==
    /\ \A r \in Evaluating(p) : Undisturbed(r, p)
    /\ Evaluating(p) = {} => Reached(labor[p] + CostsOf(p)) \subseteq alerts[p]

\* What AlertsComplete needs.
AInv == TypeOK /\ OneProject /\ \A p \in Projects \ behind : Covered(p)

\* A step that does not concern a project.
LEMMA CoveredFrame ==
  ASSUME AInv, NEW p \in Projects \ behind,
         labor'[p] = labor[p], costs'[p] = costs[p], alerts'[p] = alerts[p],
         \A q \in Requests : p \in request[q].project \cup request'[q].project =>
            request'[q] = request[q]
  PROVE  Covered(p)'
<1>1. Covered(p)
  BY DEF AInv
<1>2. CostsOf(p)' = CostsOf(p)
  BY DEF CostsOf
<1>3. Evaluating(p)' = Evaluating(p)
  BY DEF Evaluating
<1>4. ASSUME NEW r \in Evaluating(p)' PROVE Undisturbed(r, p)'
  <2>1. request'[r] = request[r] /\ Undisturbed(r, p)
    BY <1>1, <1>3, <1>4 DEF Covered, Evaluating
  <2> QED BY <1>2, <1>3, <2>1 DEF Undisturbed, Reached
<1> QED BY <1>1, <1>2, <1>3, <1>4 DEF Covered, Reached

\* An evaluation begins: alone, it will see everything.
LEMMA EvaluateCovered ==
  ASSUME AInv, NEW r \in Requests, request[r].pc \in {"idle", "insert"},
         NEW p \in Projects, Evaluate(r, p), alerts' = alerts,
         \A o \in Projects \ {p} : labor'[o] = labor[o] /\ costs'[o] = costs[o],
         NEW o \in Projects \ behind'
  PROVE  Covered(o)'
<1>0. request \in [Requests -> RequestRecord]
  BY DEF AInv, TypeOK
<1>1. /\ \A q \in Requests \ {r} : request'[q] = request[q]
      /\ request'[r] = [Idle EXCEPT !.pc = "burn", !.project = {p},
                                    !.unread = {"entries", "costs"}]
  BY <1>0 DEF Evaluate
<1>2. /\ request'[r].pc = "burn" /\ request'[r].project = {p} /\ request'[r].burn = 0
      /\ request'[r].unread = {"entries", "costs"}
  BY <1>1 DEF Idle
<1>3. CASE o = p
  <2>1. Evaluating(p) = {}
    BY <1>3 DEF Evaluate
  <2>2. Evaluating(p)' = {r}
    <3>1. ASSUME NEW q \in Requests PROVE p \in request'[q].project <=> q = r
      <4>1. CASE q = r
        BY <1>2, <4>1
      <4>2. CASE q # r
        BY <1>1, <2>1, <4>2 DEF Evaluating
      <4> QED BY <4>1, <4>2
    <3> QED BY <3>1 DEF Evaluating
  <2>3. Undisturbed(r, p)'
    BY <1>2, <2>2 DEF Undisturbed
  <2> QED BY <1>3, <2>2, <2>3 DEF Covered
<1>4. CASE o # p
  <2>1. o \notin behind
    BY <1>4 DEF Evaluate
  <2>2. o \notin request[r].project
    BY <2>1 DEF AInv, Covered, Undisturbed, Evaluating
  <2> QED BY <1>1, <1>2, <1>4, <2>1, <2>2, CoveredFrame
<1> QED BY <1>3, <1>4

\* A request that evaluates nothing before and after its step.
LEMMA OutsideCovered ==
  ASSUME AInv, NEW r \in Requests, request[r].pc \in {"idle", "cap", "insert"},
         \A q \in Requests \ {r} : request'[q] = request[q],
         request'[r].project \subseteq request[r].project,
         UNCHANGED <<labor, costs, alerts, behind>>,
         NEW p \in Projects \ behind'
  PROVE  Covered(p)'
<1>1. p \notin request[r].project
  BY DEF AInv, Covered, Undisturbed, Evaluating
<1> QED BY <1>1, CoveredFrame

\* An evaluation goes on: it concerns its own project only.
LEMMA InsideCovered ==
  ASSUME AInv, NEW r \in Requests, NEW p \in request[r].project,
         \A q \in Requests \ {r} : request'[q] = request[q],
         request'[r].project \subseteq request[r].project,
         UNCHANGED <<labor, costs, behind>>,
         \A o \in Projects \ {p} : alerts'[o] = alerts[o],
         p \notin behind => Covered(p)',
         NEW o \in Projects \ behind'
  PROVE  Covered(o)'
<1>1. CASE o = p
  BY <1>1
<1>2. CASE o # p
  <2>1. o \notin request[r].project
    BY <1>2 DEF AInv, OneProject
  <2> QED BY <1>2, <2>1, CoveredFrame
<1> QED BY <1>1, <1>2

LEMMA ReadBurnCovered ==
  ASSUME AInv, NEW r \in Requests, ReadBurn(r), NEW o \in Projects \ behind'
  PROVE  Covered(o)'
<1>0. request \in [Requests -> RequestRecord] /\ request[r] \in RequestRecord
  BY DEF AInv, TypeOK
<1>1. PICK part \in request[r].unread, p \in request[r].project :
        request' = [request EXCEPT
           ![r].unread = @ \ {part},
           ![r].burn = @ + (IF part = "entries" THEN labor[p] ELSE CostsOf(p)),
           ![r].pc = IF request[r].unread = {part} THEN "alerts" ELSE "burn"]
  BY DEF ReadBurn
<1>2. /\ \A q \in Requests \ {r} : request'[q] = request[q]
      /\ request'[r].unread = request[r].unread \ {part}
      /\ request'[r].burn = request[r].burn + (IF part = "entries" THEN labor[p] ELSE CostsOf(p))
      /\ request'[r].pc = (IF request[r].unread = {part} THEN "alerts" ELSE "burn")
      /\ request'[r].project = request[r].project
  BY <1>0, <1>1 DEF RequestRecord
<1>3. /\ request[r].unread \subseteq {"entries", "costs"} /\ request[r].pc = "burn"
      /\ p \in Projects /\ UNCHANGED <<labor, costs, alerts, behind>>
  BY <1>0 DEF RequestRecord, ReadBurn
<1>4. labor[p] \in Int /\ CostsOf(p) \in Int
  BY <1>3, ConstantsAssumption DEF AInv, TypeOK, CostsOf
<1>5. CostsOf(p)' = CostsOf(p)
  BY <1>3 DEF CostsOf
<1>6. ASSUME p \notin behind PROVE Covered(p)'
  <2>1. Undisturbed(r, p)
    BY <1>3, <1>6 DEF AInv, Covered, Evaluating
  <2>2. Evaluating(p)' = {r}
    BY <1>2, <2>1 DEF Undisturbed, Evaluating
  <2>3. request[r].burn = (IF "entries" \in request[r].unread THEN 0 ELSE labor[p])
                        + (IF "costs" \in request[r].unread THEN 0 ELSE CostsOf(p))
    BY <1>3, <2>1 DEF Undisturbed
  <2>4. CASE request[r].unread = {part}
    <3>1. request'[r].burn = labor[p] + CostsOf(p) /\ request'[r].pc = "alerts"
      BY <1>2, <1>3, <1>4, <2>3, <2>4
    <3> QED BY <1>3, <1>5, <2>2, <3>1 DEF Covered, Undisturbed
  <2>5. CASE request[r].unread # {part}
    <3>1. /\ request'[r].pc = "burn"
          /\ request'[r].burn = (IF "entries" \in request'[r].unread THEN 0 ELSE labor[p])
                              + (IF "costs" \in request'[r].unread THEN 0 ELSE CostsOf(p))
      <4>1. request[r].unread = {"entries", "costs"} /\ request[r].burn = 0
        BY <1>1, <1>3, <2>3, <2>5
      <4>2. /\ request'[r].pc = "burn" /\ request'[r].unread = {"entries", "costs"} \ {part}
            /\ request'[r].burn = IF part = "entries" THEN labor[p] ELSE CostsOf(p)
        BY <1>2, <1>4, <2>5, <4>1
      <4>3. part = "entries" \/ part = "costs"
        BY <1>1, <1>3
      <4> QED BY <1>4, <4>2, <4>3
    <3> QED BY <1>3, <1>5, <2>2, <3>1 DEF Covered, Undisturbed
  <2> QED BY <2>4, <2>5
<1> QED BY <1>2, <1>3, <1>6, InsideCovered

LEMMA ReadAlertsCovered ==
  ASSUME AInv, NEW r \in Requests, ReadAlerts(r), NEW o \in Projects \ behind'
  PROVE  Covered(o)'
<1>0. request \in [Requests -> RequestRecord] /\ request[r] \in RequestRecord
  BY DEF AInv, TypeOK
<1>1. PICK p \in request[r].project :
        request' = [request EXCEPT ![r].pc = "raise",
                                   ![r].due = Reached(request[r].burn) \ alerts[p]]
  BY DEF ReadAlerts
<1>2. /\ \A q \in Requests \ {r} : request'[q] = request[q]
      /\ request'[r].due = Reached(request[r].burn) \ alerts[p]
      /\ request'[r].pc = "raise" /\ request'[r].project = request[r].project
  BY <1>0, <1>1 DEF RequestRecord
<1>3. /\ request[r].pc = "alerts" /\ p \in Projects
      /\ UNCHANGED <<labor, costs, alerts, behind>>
  BY <1>0 DEF RequestRecord, ReadAlerts
<1>4. CostsOf(p)' = CostsOf(p)
  BY <1>3 DEF CostsOf
<1>5. ASSUME p \notin behind PROVE Covered(p)'
  <2>1. Undisturbed(r, p)
    BY <1>3, <1>5 DEF AInv, Covered, Evaluating
  <2>2. Evaluating(p)' = {r}
    BY <1>2, <2>1 DEF Undisturbed, Evaluating
  <2>3. request'[r].due = Reached(labor[p] + CostsOf(p)) \ alerts[p]
    BY <1>2, <1>3, <2>1 DEF Undisturbed
  <2>4. Reached(labor[p] + CostsOf(p))' = Reached(labor[p] + CostsOf(p))
    BY <1>3, <1>4 DEF Reached
  <2> QED BY <1>2, <1>3, <2>2, <2>3, <2>4 DEF Covered, Undisturbed
<1> QED BY <1>2, <1>3, <1>5, InsideCovered

\* Alone, an evaluation meets no alert that it has not seen, and so ends only
\* when nothing is left to raise.
LEMMA RaiseAlertCovered ==
  ASSUME AInv, NEW r \in Requests, RaiseAlert(r), NEW o \in Projects \ behind'
  PROVE  Covered(o)'
<1>0. request \in [Requests -> RequestRecord] /\ request[r] \in RequestRecord
  BY DEF AInv, TypeOK
<1>1. UNCHANGED <<labor, costs, behind>> /\ request[r].pc = "raise"
  BY DEF RaiseAlert
<1>2. ASSUME Return(r), alerts' = alerts,
             \A p \in request[r].project : request[r].due = {} \/ request[r].due \cap alerts[p] # {}
      PROVE  Covered(o)'
  <2>1. /\ \A q \in Requests \ {r} : request'[q] = request[q]
        /\ request'[r].project = {}
    BY <1>0, <1>2 DEF Return, Idle
  <2>2. CASE o \in request[r].project
    <3>1. Undisturbed(r, o)
      BY <1>1, <2>2 DEF AInv, Covered, Evaluating
    <3>2. Reached(labor[o] + CostsOf(o)) \subseteq alerts[o]
      BY <1>1, <1>2, <2>2, <3>1 DEF Undisturbed
    <3>3. Evaluating(o)' = {}
      BY <2>1, <3>1 DEF Undisturbed, Evaluating
    <3>4. CostsOf(o)' = CostsOf(o)
      BY <1>1 DEF CostsOf
    <3>5. Reached(labor[o] + CostsOf(o))' = Reached(labor[o] + CostsOf(o))
      BY <1>1, <3>4 DEF Reached
    <3> QED BY <1>2, <3>2, <3>3, <3>5 DEF Covered
  <2>3. CASE o \notin request[r].project
    BY <1>1, <1>2, <2>1, <2>3, CoveredFrame
  <2> QED BY <2>2, <2>3
<1>3. ASSUME NEW p \in request[r].project, NEW t \in NextDue(request[r].due),
             alerts' = [alerts EXCEPT ![p] = @ \cup {t}],
             request' = [request EXCEPT ![r].due = @ \ {t}]
      PROVE  Covered(o)'
  <2>1. /\ \A q \in Requests \ {r} : request'[q] = request[q]
        /\ request'[r].due = request[r].due \ {t}
        /\ request'[r].pc = "raise" /\ request'[r].project = request[r].project
    BY <1>0, <1>1, <1>3 DEF RequestRecord
  <2>2. p \in Projects /\ t \in request[r].due
    BY <1>0 DEF RequestRecord, NextDue
  <2>3. /\ alerts'[p] = alerts[p] \cup {t}
        /\ \A q \in Projects \ {p} : alerts'[q] = alerts[q]
    BY <1>3, <2>2 DEF AInv, TypeOK
  <2>4. ASSUME p \notin behind PROVE Covered(p)'
    <3>1. Undisturbed(r, p)
      BY <2>2, <2>4 DEF AInv, Covered, Evaluating
    <3>2. Evaluating(p)' = {r}
      BY <2>1, <3>1 DEF Undisturbed, Evaluating
    <3>3. CostsOf(p)' = CostsOf(p)
      BY <1>1 DEF CostsOf
    <3>4. Reached(labor[p] + CostsOf(p))' = Reached(labor[p] + CostsOf(p))
      BY <1>1, <3>3 DEF Reached
    <3>5. /\ request[r].due \cap alerts[p] = {}
          /\ Reached(labor[p] + CostsOf(p)) \subseteq request[r].due \cup alerts[p]
      BY <1>1, <3>1 DEF Undisturbed
    <3>6. /\ request'[r].due \cap alerts'[p] = {}
          /\ Reached(labor[p] + CostsOf(p))' \subseteq request'[r].due \cup alerts'[p]
      BY <2>1, <2>2, <2>3, <3>4, <3>5
    <3> QED BY <2>1, <3>2, <3>6 DEF Covered, Undisturbed
  <2> QED BY <1>1, <2>1, <2>3, <2>4, InsideCovered
<1>4. CASE Return(r) /\ request[r].due = {} /\ UNCHANGED alerts
  BY <1>2, <1>4
<1>5. ASSUME NEW p \in request[r].project, NEW t \in NextDue(request[r].due),
             t \in alerts[p], Return(r), UNCHANGED alerts
      PROVE  Covered(o)'
  <2>1. \A q \in request[r].project : q = p
    BY DEF AInv, OneProject
  <2>2. t \in request[r].due \cap alerts[p]
    BY <1>5 DEF NextDue
  <2> QED BY <1>2, <1>5, <2>1, <2>2
<1> QED BY <1>3, <1>4, <1>5 DEF RaiseAlert

LEMMA RequestCovered ==
  ASSUME AInv, NEW r \in Requests, RequestStep(r), NEW o \in Projects \ behind'
  PROVE  Covered(o)'
<1>0. request \in [Requests -> RequestRecord] /\ request[r] \in RequestRecord
  BY DEF AInv, TypeOK
<1>1. CASE CreateTimeEntry(r) \/ AdjustTimeEntry(r)
  <2>1. PICK row : Begin(r, row)
    BY <1>1 DEF CreateTimeEntry, AdjustTimeEntry
  <2>2. /\ \A q \in Requests \ {r} : request'[q] = request[q]
        /\ request'[r].project = {}
    BY <1>0, <2>1 DEF Begin, Idle
  <2> QED BY <2>1, <2>2, OutsideCovered DEF Begin
<1>2. ASSUME NEW p \in Projects, AddProjectCosts(r, p) PROVE Covered(o)'
  <2>1. \A q \in Projects \ {p} : labor'[q] = labor[q] /\ costs'[q] = costs[q]
    BY <1>2 DEF AddProjectCosts, AInv, TypeOK
  <2> QED BY <1>2, <2>1, EvaluateCovered DEF AddProjectCosts
<1>3. CASE AssertDailyCap(r)
  <2>1. /\ \A q \in Requests \ {r} : request'[q] = request[q]
        /\ request'[r].project \subseteq request[r].project
    BY <1>0, <1>3 DEF AssertDailyCap, Return, Idle, RequestRecord
  <2> QED BY <1>3, <2>1, OutsideCovered DEF AssertDailyCap
<1>4. CASE InsertEntry(r)
  <2>1. PICK row \in request[r].row :
          /\ labor' = [labor EXCEPT ![row.project] = @ + row.hours]
          /\ Evaluate(r, row.project)
    BY <1>4 DEF InsertEntry
  <2>2. row.project \in Projects
    BY <1>0 DEF RequestRecord, Row
  <2>3. \A q \in Projects \ {row.project} : labor'[q] = labor[q] /\ costs'[q] = costs[q]
    BY <1>4, <2>1, <2>2 DEF InsertEntry, AInv, TypeOK
  <2> QED BY <1>4, <2>1, <2>2, <2>3, EvaluateCovered DEF InsertEntry
<1>5. CASE LoseRequest(r)
  <2>1. /\ \A q \in Requests \ {r} : request'[q] = request[q]
        /\ request'[r].project = {}
    BY <1>0, <1>5 DEF LoseRequest, Return, Idle
  <2>2. o \notin request[r].project /\ o \notin behind
    BY <1>5 DEF LoseRequest
  <2> QED BY <1>5, <2>1, <2>2, CoveredFrame DEF LoseRequest
<1> QED BY <1>1, <1>2, <1>3, <1>4, <1>5, ReadBurnCovered, ReadAlertsCovered, RaiseAlertCovered
        DEF RequestStep, HandlerStep

\* A request keeps to its project.
LEMMA ProjectKept ==
  ASSUME TypeOK, OneProject, [Next]_vars
  PROVE  OneProject'
<1>0. request \in [Requests -> RequestRecord]
  BY DEF TypeOK
<1>1. ASSUME NEW r \in Requests, \A q \in Requests \ {r} : request'[q] = request[q],
             \A p, q \in request'[r].project : p = q
      PROVE  OneProject'
  BY <1>1 DEF OneProject
<1>2. ASSUME NEW r \in Requests, NEW row, Begin(r, row) PROVE OneProject'
  BY <1>0, <1>1, <1>2 DEF Begin, Idle
<1>3. ASSUME NEW r \in Requests, Return(r) PROVE OneProject'
  BY <1>0, <1>1, <1>3 DEF Return, Idle
<1>4. ASSUME NEW r \in Requests, NEW p, Evaluate(r, p) PROVE OneProject'
  <2>1. \A q \in Requests \ {r} : request'[q] = request[q]
    BY <1>0, <1>4 DEF Evaluate
  <2>2. request'[r].project = {p}
    BY <1>0, <1>4 DEF Evaluate, Idle
  <2> QED BY <1>1, <2>1, <2>2
<1>5. ASSUME NEW r \in Requests, RequestStep(r) PROVE OneProject'
  <2>0. request[r] \in RequestRecord /\ \A p, q \in request[r].project : p = q
    BY <1>0 DEF OneProject
  <2>1. CASE AssertDailyCap(r)
    <3>1. CASE request' = [request EXCEPT ![r].pc = "insert"]
      BY <1>0, <1>1, <2>0, <3>1 DEF RequestRecord
    <3> QED BY <1>3, <2>1, <3>1 DEF AssertDailyCap
  <2>2. CASE ReadBurn(r)
    <3>1. /\ \A q \in Requests \ {r} : request'[q] = request[q]
          /\ request'[r].project = request[r].project
      BY <1>0, <2>0, <2>2 DEF ReadBurn, RequestRecord
    <3> QED BY <1>1, <2>0, <3>1
  <2>3. CASE ReadAlerts(r)
    BY <1>0, <1>1, <2>0, <2>3 DEF ReadAlerts, RequestRecord
  <2>4. CASE RaiseAlert(r)
    <3>1. ASSUME NEW t, request' = [request EXCEPT ![r].due = @ \ {t}] PROVE OneProject'
      BY <1>0, <1>1, <2>0, <3>1 DEF RequestRecord
    <3> QED BY <1>3, <2>4, <3>1 DEF RaiseAlert
  <2> QED BY <1>2, <1>3, <1>4, <1>5, <2>1, <2>2, <2>3, <2>4
          DEF RequestStep, HandlerStep, CreateTimeEntry, AdjustTimeEntry, AddProjectCosts,
              InsertEntry, LoseRequest
<1>6. CASE UNCHANGED request
  BY <1>6 DEF OneProject
<1> QED BY <1>5, <1>6 DEF Next, vars, ApproveExpense, UnlockTimeEntry, DateLocks

\* However evaluations overlap, fail on each other's alerts or are lost, one
\* undisturbed evaluation raises every alert the burn of its project has reached.
THEOREM AlertsCatchUp == Spec => []AlertsComplete
<1>1. Init => AInv
  <2> SUFFICES ASSUME Init PROVE OneProject /\ \A p \in Projects \ behind : Covered(p)
    BY InitTypeOK DEF AInv
  <2>1. OneProject
    BY DEF Init, Idle, OneProject
  <2>2. ASSUME NEW p \in Projects PROVE Covered(p)
    <3>1. Evaluating(p) = {}
      BY DEF Init, Idle, Evaluating
    <3>2. labor[p] + CostsOf(p) = 0
      BY DEF Init, CostsOf
    <3>3. Reached(0) = {}
      <4>1. ASSUME NEW t \in Thresholds PROVE ~(0 * 100 >= t * Budget)
        <5>1. t \in Nat /\ t > 0 /\ Budget \in Nat /\ Budget > 0
          BY ConstantsAssumption
        <5>2. t * Budget > 0
          BY <5>1
        <5> QED BY <5>1, <5>2
      <4> QED BY <4>1 DEF Reached
    <3> QED BY <3>1, <3>2, <3>3 DEF Covered
  <2> QED BY <2>1, <2>2
<1>2. AInv /\ [Next]_vars => AInv'
  <2> SUFFICES ASSUME AInv, [Next]_vars PROVE AInv'
    OBVIOUS
  <2>1. TypeOK'
    BY NextTypeOK DEF AInv
  <2>2. OneProject'
    BY ProjectKept DEF AInv
  <2>3. ASSUME NEW p \in Projects, ApproveExpense(p), NEW o \in Projects \ behind'
        PROVE  Covered(o)'
    <3>1. o # p /\ o \notin behind /\ costs'[o] = costs[o]
      BY <2>3 DEF ApproveExpense, AInv, TypeOK
    <3> QED BY <2>3, <3>1, CoveredFrame DEF ApproveExpense
  <2>4. ASSUME UNCHANGED <<labor, costs, alerts, request, behind>>, NEW o \in Projects \ behind'
        PROVE  Covered(o)'
    BY <2>4, CoveredFrame
  <2>5. ASSUME NEW o \in Projects \ behind' PROVE Covered(o)'
    BY <2>3, <2>4, <2>5, RequestCovered DEF Next, vars, UnlockTimeEntry, DateLocks
  <2> QED BY <2>1, <2>2, <2>5 DEF AInv
<1>3. AInv => AlertsComplete
  BY DEF AInv, Covered, AlertsComplete, Reached
<1> QED BY <1>1, <1>2, <1>3, PTL DEF Spec

-----------------------------------------------------------------------------
\* The dashboards

\* A task, and what a request holds.
TaskRecord ==
    [status: Status \cup {"none", "deleted"}, assignee: User, created: Nat,
     reopened: BOOLEAN, since: Nat, tracked: BOOLEAN]
ChangeRecord ==
    [pc: {"idle", "read"}, task: Task \cup {NoChange.task}, seen: Status \cup {"none"},
     to: Status \cup {"none"}]
TransitionDays == [Status -> Nat \cup {Never}]
OpenTasks == UNION {[S -> Status] : S \in SUBSET Task}
FiguresTold == UNION {[Q -> Nat \cup OpenTasks] : Q \in SUBSET Figure}
AgesTold == UNION {[S -> Nat] : S \in SUBSET Task}
DashboardCall ==
    [kind: {"none", "tenant", "lead", "user", "user by admin", "project", "project by admin"},
     of: User,
     pc: {"idle", "users", "access", "members", "teams", "overlap", "exists", "count", "age", "reply"},
     leads: BOOLEAN, scope: SUBSET User, to: Nat, newer: SUBSET Task, unread: SUBSET Figure,
     day: Nat, figures: FiguresTold, age: AgesTold,
     touched: SUBSET Task, wereIn: SUBSET User, wereOn: SUBSET User]

DashboardsTypeOK ==
    /\ day \in Nat
    /\ active \subseteq User /\ team \subseteq User /\ member \subseteq User
    /\ task \in [Task -> TaskRecord]
    /\ entered \in [Task -> TransitionDays]
    /\ change \in [Changer -> ChangeRecord]
    /\ \A c \in Changer : change[c].pc = "read" =>
          change[c].task \in Task /\ change[c].seen \in Status /\ change[c].to \in Status
    /\ call \in DashboardCall

\* The figures that have been read.
FiguresTyped ==
    /\ Reading => DOMAIN call.figures = Figure \ call.unread
    /\ ~Reading => call.figures = [q \in {} |-> {}]
    /\ call.pc \in {"age", "reply"} => call.unread = {}
    /\ \A q \in DOMAIN call.figures :
          call.figures[q] \in IF q = "active" THEN OpenTasks ELSE Nat

-----------------------------------------------------------------------------
LEMMA NoCallTyped == NoCall \in DashboardCall
<1>1. [q \in {} |-> {}] \in FiguresTold
  <2>1. [q \in {} |-> {}] \in [{} -> Nat \cup OpenTasks]
    OBVIOUS
  <2> QED BY <2>1 DEF FiguresTold
<1>2. [t \in {} |-> 0] \in AgesTold
  <2>1. [t \in {} |-> 0] \in [{} -> Nat]
    OBVIOUS
  <2> QED BY <2>1 DEF AgesTold
<1> QED BY <1>1, <1>2, DashboardsAssumption DEF NoCall, DashboardCall

LEMMA DashboardsInitTyped == DashboardsInit => DashboardsTypeOK
<1> SUFFICES ASSUME DashboardsInit PROVE DashboardsTypeOK
  OBVIOUS
<1>1. NoTask \in TaskRecord
  BY DashboardsAssumption DEF NoTask, TaskRecord
<1>2. NoChange \in ChangeRecord /\ NoChange.pc # "read"
  BY DEF NoChange, ChangeRecord
<1>3. [s \in Status |-> Never] \in TransitionDays
  BY DEF TransitionDays
<1> QED BY <1>1, <1>2, <1>3, NoCallTyped DEF DashboardsInit, DashboardsTypeOK

\* The steps of the others, which a request only notes in its history.
Elsewhere ==
    \/ \E t \in Task :
          \/ CreateTask(t) \/ DeleteTask(t)
          \/ \E u \in User : Reassign(t, u)
          \/ \E to \in Status : CommandStatus(t, to) \/ \E c \in Changer : BeginChange(c, t, to)
    \/ \E c \in Changer : CommitChange(c)
    \/ \E u \in User : ChangeTeam(u) \/ ChangeProject(u) \/ DeleteUser(u)
    \/ NextDay

\* The request
Own ==
    \/ AskFigures \/ ReadScope
    \/ \E q \in Figure : Count(q)
    \/ Age \/ Reply

\* One more transition row.
LEMMA TransitionTyped ==
  ASSUME entered \in [Task -> TransitionDays], NEW t \in Task, NEW s \in Status, day \in Nat,
         entered' = [entered EXCEPT ![t][s] = day]
  PROVE  entered' \in [Task -> TransitionDays]
<1>1. entered[t] \in TransitionDays
  OBVIOUS
<1>2. [entered[t] EXCEPT ![s] = day] \in TransitionDays
  BY <1>1 DEF TransitionDays
<1>3. entered' = [entered EXCEPT ![t] = [entered[t] EXCEPT ![s] = day]]
  OBVIOUS
<1> QED BY <1>2, <1>3

LEMMA ElsewhereTyped == DashboardsTypeOK /\ Elsewhere => DashboardsTypeOK'
<1> SUFFICES ASSUME DashboardsTypeOK, Elsewhere PROVE DashboardsTypeOK'
  OBVIOUS
<1> USE DEF DashboardsTypeOK
<1>1. ASSUME NEW t \in Task, CreateTask(t) PROVE DashboardsTypeOK'
  <2>1. task' \in [Task -> TaskRecord]
    <3>1. PICK u \in User : task' = [task EXCEPT ![t] =
              [NoTask EXCEPT !.status = "todo", !.assignee = u, !.created = day, !.since = day]]
      BY <1>1 DEF CreateTask
    <3>2. [NoTask EXCEPT !.status = "todo", !.assignee = u, !.created = day, !.since = day]
            \in TaskRecord
      BY DEF NoTask, TaskRecord, Status
    <3> QED BY <3>1, <3>2
  <2>2. entered' \in [Task -> TransitionDays]
    <3>1. entered' = [entered EXCEPT ![t]["todo"] = day] /\ "todo" \in Status
      BY <1>1 DEF CreateTask, Status
    <3>2. t \in Task /\ day \in Nat /\ entered \in [Task -> TransitionDays]
      OBVIOUS
    <3> QED BY ONLY <3>1, <3>2, TransitionTyped
  <2>3. call' \in DashboardCall
    <3>1. call' = call \/ call' = [call EXCEPT !.newer = @ \cup {t}]
      BY <1>1 DEF CreateTask
    <3>2. \A X \in SUBSET Task : [call EXCEPT !.newer = X] \in DashboardCall
      BY DEF DashboardCall
    <3>3. call.newer \cup {t} \in SUBSET Task
      BY DEF DashboardCall
    <3>4. call \in DashboardCall
      OBVIOUS
    <3> QED BY ONLY <3>1, <3>2, <3>3, <3>4
  <2> QED BY <1>1, <2>1, <2>2, <2>3 DEF CreateTask
<1>2. ASSUME NEW t \in Task, DeleteTask(t) PROVE DashboardsTypeOK'
  <2>1. task' \in [Task -> TaskRecord]
    BY <1>2, DashboardsAssumption DEF DeleteTask, TaskRecord, NoTask
  <2>2. call' \in DashboardCall
    BY <1>2 DEF DeleteTask, Touch, DashboardCall
  <2> QED BY <1>2, <2>1, <2>2 DEF DeleteTask
<1>3. ASSUME NEW t \in Task, NEW u \in User, Reassign(t, u) PROVE DashboardsTypeOK'
  <2>1. task' \in [Task -> TaskRecord]
    BY <1>3 DEF Reassign, TaskRecord
  <2>2. call' \in DashboardCall
    BY <1>3 DEF Reassign, Touch, DashboardCall
  <2> QED BY <1>3, <2>1, <2>2 DEF Reassign
<1>4. ASSUME NEW t \in Task, NEW to \in Status, CommandStatus(t, to) PROVE DashboardsTypeOK'
  <2>1. task' \in [Task -> TaskRecord]
    <3>0. task[t] \in TaskRecord /\ day \in Nat /\ to \in Status
      OBVIOUS
    <3>1. [task[t] EXCEPT !.status = to, !.since = day, !.tracked = FALSE] \in TaskRecord
      BY ONLY <3>0 DEF TaskRecord
    <3>2. task' = [task EXCEPT ![t] = [task[t] EXCEPT !.status = to, !.since = day, !.tracked = FALSE]]
      BY <1>4 DEF CommandStatus
    <3> QED BY <3>1, <3>2
  <2>2. call' \in DashboardCall
    BY <1>4 DEF CommandStatus, Touch, DashboardCall
  <2> QED BY <1>4, <2>1, <2>2 DEF CommandStatus
<1>5. ASSUME NEW t \in Task, NEW to \in Status, NEW c \in Changer, BeginChange(c, t, to)
      PROVE DashboardsTypeOK'
  <2>1. change' \in [Changer -> ChangeRecord]
    BY <1>5 DEF BeginChange, ChangeRecord, Exists
  <2>2. \A d \in Changer : change'[d].pc = "read" =>
          change'[d].task \in Task /\ change'[d].seen \in Status /\ change'[d].to \in Status
    BY <1>5 DEF BeginChange, Exists
  <2> QED BY <1>5, <2>1, <2>2 DEF BeginChange
<1>6. ASSUME NEW c \in Changer, CommitChange(c) PROVE DashboardsTypeOK'
  <2> DEFINE t == change[c].task
  <2>1. t \in Task /\ change[c].to \in Status
    BY <1>6 DEF CommitChange
  <2>2. task' \in [Task -> TaskRecord]
    <3>1. \A x \in Task \ {t} : task'[x] = task[x]
      BY <1>6, <2>1 DEF CommitChange
    <3>2. \E o, w \in BOOLEAN, d \in Nat :
            task'[t] = [task[t] EXCEPT !.status = change[c].to, !.reopened = o, !.since = d, !.tracked = w]
      BY <1>6, <2>1 DEF CommitChange, TaskRecord
    <3>3. task'[t] \in TaskRecord
      BY <2>1, <3>2 DEF TaskRecord
    <3>4. task' \in [Task -> TaskRecord] <=> \A x \in Task : task'[x] \in TaskRecord
      BY <1>6 DEF CommitChange
    <3> QED BY <3>1, <3>3, <3>4
  <2>3. entered' \in [Task -> TransitionDays]
    <3>1. entered' = entered \/ entered' = [entered EXCEPT ![t][change[c].to] = day]
      BY <1>6 DEF CommitChange
    <3>2. entered \in [Task -> TransitionDays] /\ day \in Nat
      OBVIOUS
    <3> QED BY ONLY <2>1, <3>1, <3>2, TransitionTyped
  <2>4. change' \in [Changer -> ChangeRecord]
    BY <1>6 DEF CommitChange, ChangeRecord, NoChange
  <2>5. \A d \in Changer : change'[d].pc = "read" => change'[d] = change[d]
    BY <1>6 DEF CommitChange, NoChange
  <2>6. call' \in DashboardCall
    BY <1>6, <2>1 DEF CommitChange, Touch, DashboardCall
  <2> QED BY <1>6, <2>2, <2>3, <2>4, <2>5, <2>6 DEF CommitChange
<1>7. ASSUME NEW u \in User, ChangeTeam(u) \/ ChangeProject(u) \/ DeleteUser(u)
      PROVE DashboardsTypeOK'
  <2>1. \A in, on \in SUBSET User : Witness(in, on) => call' \in DashboardCall
    <3> SUFFICES ASSUME NEW in \in SUBSET User, NEW on \in SUBSET User, Witness(in, on)
                 PROVE call' \in DashboardCall
      OBVIOUS
    <3>1. call.wereIn \cup in \subseteq User /\ call.wereOn \cup on \subseteq User
      BY DEF DashboardCall
    <3>2. \A S, R \in SUBSET User : [call EXCEPT !.wereIn = S, !.wereOn = R] \in DashboardCall
      BY DEF DashboardCall
    <3> QED BY <3>1, <3>2 DEF Witness
  <2>2. (team \cup {u}) \ (team \cap {u}) \subseteq User /\ member \cup {u} \subseteq User
    BY <1>7
  <2> QED BY <1>7, <2>1, <2>2 DEF ChangeTeam, ChangeProject, DeleteUser
<1>8. CASE NextDay
  BY <1>8 DEF NextDay
<1> QED BY <1>1, <1>2, <1>3, <1>4, <1>5, <1>6, <1>7, <1>8 DEF Elsewhere

LEMMA OwnTyped == DashboardsTypeOK /\ FiguresTyped /\ Own => DashboardsTypeOK'
<1> SUFFICES ASSUME DashboardsTypeOK, FiguresTyped, Own PROVE call' \in DashboardCall
  BY DEF DashboardsTypeOK, Own, AskFigures, ReadScope, Count, Age, Reply
<1> USE NoCallTyped DEF DashboardsTypeOK
<1>1. CASE AskFigures
  <2>1. \A k \in {"tenant", "lead", "user", "user by admin", "project", "project by admin"},
           u \in User, pc \in {"users", "access", "members", "teams", "exists"} :
              Begun(k, u, pc) => call' \in DashboardCall
    <3> SUFFICES ASSUME NEW k \in {"tenant", "lead", "user", "user by admin", "project", "project by admin"},
                        NEW u \in User, NEW pc \in {"users", "access", "members", "teams", "exists"},
                        Begun(k, u, pc)
                 PROVE call' \in DashboardCall
      OBVIOUS
    <3>1. call' = [NoCall EXCEPT !.kind = k, !.of = u, !.pc = pc, !.to = day,
                                 !.wereIn = team, !.wereOn = member]
      BY DEF Begun
    <3> QED BY <3>1 DEF DashboardCall
  <2> QED BY <1>1, <2>1, DashboardsAssumption DEF AskFigures
<1>2. CASE ReadScope
  <2>1. \A S \in SUBSET User : Counting(S) => call' \in DashboardCall
    <3> SUFFICES ASSUME NEW S \in SUBSET User, Counting(S) PROVE call' \in DashboardCall
      OBVIOUS
    <3>1. PICK pc \in {"idle", "count"} :
            call' = [call EXCEPT !.scope = S, !.pc = pc, !.day = day, !.unread = Figure]
      BY DEF Counting
    <3> QED BY <3>1 DEF DashboardCall
  <2>2. ASSUME NEW pc \in {"members", "overlap", "exists"}, call' = [call EXCEPT !.pc = pc]
        PROVE  call' \in DashboardCall
    BY <2>2 DEF DashboardCall
  <2>5. ASSUME NEW S \in SUBSET User, call' = [call EXCEPT !.scope = S, !.pc = "teams"]
        PROVE  call' \in DashboardCall
    BY <2>5 DEF DashboardCall
  <2>6. ASSUME call' = [call EXCEPT !.leads = TRUE, !.pc = "overlap"]
        PROVE  call' \in DashboardCall
    BY <2>6 DEF DashboardCall
  <2>3. {Lead} \subseteq User /\ {call.of} \subseteq User /\ call.scope \cap team \subseteq User
    BY DashboardsAssumption DEF DashboardCall
  <2>4. Refused => call' \in DashboardCall
    BY DEF Refused
  <2> QED BY <1>2, <2>1, <2>2, <2>3, <2>4, <2>5, <2>6 DEF ReadScope
<1>3. ASSUME NEW q \in Figure, Count(q) PROVE call' \in DashboardCall
  <2> DEFINE found == Counted(q)
             read == IF q = "active" THEN [t \in found |-> task[t].status] ELSE Cardinality(found)
             rest == call.unread \ {q}
             figures == [x \in DOMAIN call.figures \cup {q} |-> IF x = q THEN read ELSE call.figures[x]]
  <2>1. found \subseteq Task /\ IsFiniteSet(found)
    BY DashboardsAssumption, FS_Subset DEF Counted
  <2>2. Cardinality(found) \in Nat
    BY <2>1, FS_CardinalityType
  <2>3. \A t \in found : task[t].status \in Status
    BY DEF Counted, Scoped, Exists
  <2>4. [t \in found |-> task[t].status] \in [found -> Status]
    BY <2>3
  <2>5. read \in Nat \cup OpenTasks
    BY <2>1, <2>2, <2>4 DEF OpenTasks
  <2>6. PICK Q \in SUBSET Figure : call.figures \in [Q -> Nat \cup OpenTasks]
    BY DEF DashboardCall, FiguresTold
  <2>7. figures \in [Q \cup {q} -> Nat \cup OpenTasks]
    BY <2>5, <2>6
  <2>8. figures \in FiguresTold
    <3>1. Q \cup {q} \in SUBSET Figure
      OBVIOUS
    <3> HIDE DEF figures
    <3> QED BY <2>7, <3>1 DEF FiguresTold
  <2>9. call' = [call EXCEPT !.unread = rest, !.figures = figures,
                             !.pc = IF rest = {} THEN "age" ELSE "count",
                             !.touched = IF call.unread = Figure THEN {} ELSE @]
    BY <1>3 DEF Count
  <2> HIDE DEF figures, rest
  <2>10. rest \in SUBSET Figure
    BY DEF DashboardCall, rest
  <2>11. ASSUME NEW f \in FiguresTold, NEW unread \in SUBSET Figure, NEW pc \in {"age", "count"},
                NEW X \in SUBSET Task
         PROVE  [call EXCEPT !.unread = unread, !.figures = f, !.pc = pc, !.touched = X] \in DashboardCall
    <3>1. [call EXCEPT !.unread = unread, !.figures = f] \in DashboardCall
      BY DEF DashboardCall
    <3>2. \A c \in DashboardCall : [c EXCEPT !.pc = pc, !.touched = X] \in DashboardCall
      BY DEF DashboardCall
    <3> QED BY <3>1, <3>2
  <2>12. call.touched \in SUBSET Task
    BY DEF DashboardCall
  <2> QED BY <2>8, <2>9, <2>10, <2>11, <2>12
<1>4. CASE Age
  <2> DEFINE open == call.figures["active"]
             age == [t \in DOMAIN open |-> Stay(Baseline(t, open[t]))]
  <2>1. call.pc = "age" /\ call' = [call EXCEPT !.pc = "reply", !.age = age]
    BY <1>4 DEF Age
  <2>2. open \in OpenTasks
    BY <2>1 DEF FiguresTyped, Reading, Figure
  <2>3. PICK S \in SUBSET Task : open \in [S -> Status]
    BY <2>2 DEF OpenTasks
  <2>4. \A t \in S : Baseline(t, open[t]) \in Nat
    BY <2>3 DEF Baseline, Never, TaskRecord, TransitionDays
  <2>5. \A n \in Nat : Stay(n) \in Nat
    <3>1. call.day \in Nat
      BY DEF DashboardCall
    <3> QED BY <3>1 DEF Stay
  <2>6. age \in [S -> Nat]
    BY <2>3, <2>4, <2>5
  <2>7. \A a \in AgesTold :
           [call EXCEPT !.pc = "reply", !.age = a] \in DashboardCall
    BY DEF DashboardCall
  <2> HIDE DEF age
  <2>8. age \in AgesTold
    BY <2>6 DEF AgesTold
  <2> QED BY <2>1, <2>7, <2>8
<1>5. CASE Reply
  BY <1>5 DEF Reply
<1> QED BY <1>1, <1>2, <1>3, <1>4, <1>5 DEF Own

-----------------------------------------------------------------------------
\* FiguresHold

\* The figures that have been read are those of the tasks there are now, but for
\* the tasks that changed meanwhile: each is the number of a set of tasks.
Agrees(S, q) == \A t \in Task \ call.touched : t \in S <=> t \in Counted(q)
FiguresFollow ==
    Reading =>
        /\ \A q \in DOMAIN call.figures \ {"active"} :
              \E S \in SUBSET Task : call.figures[q] = Cardinality(S) /\ Agrees(S, q)
        /\ "active" \in DOMAIN call.figures =>
              /\ Agrees(DOMAIN call.figures["active"], "active")
              /\ \A t \in DOMAIN call.figures["active"] \ call.touched :
                    call.figures["active"][t] = task[t].status

\* The stay of a task began with the last transition row to its status, if it has
\* one, and not before it otherwise.
StaysFollow ==
    \A t \in Task :
        /\ task[t].status = "none" => \A s \in Status : entered[t][s] = Never
        /\ Exists(t) =>
              /\ task[t].since <= day /\ task[t].created <= day
              /\ \A s \in Status : entered[t][s] <= day
              /\ Baseline(t, task[t].status) <= task[t].since
              /\ task[t].tracked => Baseline(t, task[t].status) = task[t].since

\* The ages that have been told are those of the tasks there are now.
AgesFollow ==
    call.pc = "reply" =>
        /\ DOMAIN call.age = DOMAIN call.figures["active"]
        /\ \A t \in DOMAIN call.age \ call.touched :
              call.age[t] = Stay(Baseline(t, task[t].status))

\* What each check of a request has established.
ScopeFollows ==
    /\ call.pc # "idle" => team \subseteq call.wereIn /\ member \subseteq call.wereOn
    /\ call.pc = "overlap" => Lead \in call.wereIn
    /\ call.pc = "exists" /\ call.kind = "user" => call.of = Lead \/ {call.of, Lead} \subseteq call.wereIn
    /\ call.pc \in {"teams", "overlap"} /\ call.kind = "project" => call.scope \subseteq call.wereOn
    /\ call.pc = "users" => call.kind = "tenant"
    /\ call.pc = "access" => call.kind = "project"
    /\ call.pc = "exists" => call.kind \in {"user", "user by admin"}
    /\ call.pc = "members" => call.kind \in {"project", "project by admin"}

DashboardsInv ==
    DashboardsTypeOK /\ FiguresTyped /\ FiguresFollow /\ StaysFollow /\ AgesFollow
    /\ ScopeFollows /\ FiguresOfOwnTeam

LEMMA DashboardsInitInv == DashboardsInit => DashboardsInv
<1> SUFFICES ASSUME DashboardsInit PROVE DashboardsInv
  OBVIOUS
<1>1. DashboardsTypeOK
  BY DashboardsInitTyped
<1>2. call = NoCall /\ call.pc = "idle"
  BY DEF DashboardsInit, NoCall
<1>3. FiguresTyped /\ FiguresFollow /\ AgesFollow /\ ScopeFollows /\ FiguresOfOwnTeam
  BY <1>2 DEF NoCall, FiguresTyped, FiguresFollow, AgesFollow, ScopeFollows, FiguresOfOwnTeam, Reading
<1>4. StaysFollow
  BY DEF DashboardsInit, StaysFollow, Exists, NoTask, Status, Never
<1> QED BY <1>1, <1>3, <1>4 DEF DashboardsInv

\* What the others' steps leave of a request, and of the tasks it counts.
Meanwhile ==
    /\ call'.kind = call.kind /\ call'.of = call.of /\ call'.pc = call.pc
    /\ call'.scope = call.scope /\ call'.to = call.to /\ call'.unread = call.unread
    /\ call'.day = call.day /\ call'.figures = call.figures /\ call'.age = call.age
    /\ call.touched \subseteq call'.touched /\ call.newer \subseteq call'.newer
    /\ call.wereIn \subseteq call'.wereIn /\ call.wereOn \subseteq call'.wereOn
    /\ call.pc # "idle" => team' \subseteq call'.wereIn /\ member' \subseteq call'.wereOn
    /\ Reading => \A t \in Task :
          \/ t \in call'.touched
          \/ task[t].status = "none" /\ t \in call'.newer
          \/ task'[t] = task[t] /\ entered'[t] = entered[t] /\ (t \in call'.newer => t \in call.newer)

LEMMA ElsewhereMeanwhile == DashboardsTypeOK /\ ScopeFollows /\ Elsewhere => Meanwhile
<1> SUFFICES ASSUME DashboardsTypeOK, ScopeFollows, Elsewhere PROVE Meanwhile
  OBVIOUS
<1> USE DEF DashboardsTypeOK
<1> DEFINE Same(t) == task'[t] = task[t] /\ entered'[t] = entered[t]
<1>1. ASSUME NEW t \in Task, CreateTask(t) PROVE Meanwhile
  <2>1. \A x \in Task \ {t} : Same(x)
    BY <1>1 DEF CreateTask
  <2>2. UNCHANGED <<team, member>> /\ task[t].status = "none"
    BY <1>1 DEF CreateTask
  <2> HIDE DEF Same
  <2>3. CASE call.pc = "idle"
    BY <1>1, <2>3, <2>2 DEF CreateTask, Meanwhile, Reading
  <2>4. CASE call.pc # "idle"
    <3>1. call' = [call EXCEPT !.newer = @ \cup {t}]
      BY <1>1, <2>4 DEF CreateTask
    <3> QED BY <2>1, <2>2, <3>1, <2>4 DEF Same, DashboardCall, Meanwhile, ScopeFollows
  <2> QED BY <2>3, <2>4
<1>2. ASSUME NEW t \in Task, Touch(t), UNCHANGED <<team, member>>,
             \A x \in Task \ {t} : Same(x)
      PROVE Meanwhile
  <2> HIDE DEF Same
  <2>1. CASE ~Reading
    BY <1>2, <2>1 DEF Touch, Meanwhile, ScopeFollows
  <2>2. CASE Reading
    <3>1. call' = [call EXCEPT !.touched = @ \cup {t}]
      BY <1>2, <2>2 DEF Touch
    <3> QED BY <1>2, <3>1 DEF Same, DashboardCall, Meanwhile, ScopeFollows
  <2> QED BY <2>1, <2>2
<1>3. ASSUME NEW t \in Task, DeleteTask(t) PROVE Meanwhile
  BY <1>2, <1>3 DEF DeleteTask
<1>4. ASSUME NEW t \in Task, NEW u \in User, Reassign(t, u) PROVE Meanwhile
  BY <1>2, <1>4 DEF Reassign
<1>5. ASSUME NEW t \in Task, NEW to \in Status, CommandStatus(t, to) PROVE Meanwhile
  BY <1>2, <1>5 DEF CommandStatus
<1>6. ASSUME NEW t \in Task, NEW to \in Status, NEW c \in Changer, BeginChange(c, t, to)
      PROVE Meanwhile
  BY <1>6 DEF BeginChange, Meanwhile, ScopeFollows
<1>7. ASSUME NEW c \in Changer, CommitChange(c) PROVE Meanwhile
  <2>1. change[c].task \in Task
    BY <1>7 DEF CommitChange
  <2>2. \A x \in Task \ {change[c].task} : Same(x)
    BY <1>7, <2>1 DEF CommitChange
  <2>3. Touch(change[c].task) /\ UNCHANGED <<team, member>>
    BY <1>7 DEF CommitChange
  <2> HIDE DEF Same
  <2> QED BY <1>2, <2>1, <2>2, <2>3
<1>8. ASSUME NEW in \in SUBSET User, NEW on \in SUBSET User, Witness(in, on),
             UNCHANGED <<task, entered>>,
             team' = team \/ team' \subseteq in, member' = member \/ member' \subseteq on
      PROVE Meanwhile
  <2>1. CASE call.pc = "idle"
    BY <1>8, <2>1 DEF Witness, Meanwhile
  <2>2. CASE call.pc # "idle"
    BY <1>8, <2>2 DEF Witness, Meanwhile, DashboardCall, ScopeFollows
  <2> QED BY <2>1, <2>2
<1>9. ASSUME NEW u \in User, ChangeTeam(u) PROVE Meanwhile
  <2>1. team' \in SUBSET User /\ Witness(team', {}) /\ UNCHANGED <<member, task, entered>>
    BY <1>9 DEF ChangeTeam
  <2> QED BY <1>8, <2>1
<1>10. ASSUME NEW u \in User, ChangeProject(u) PROVE Meanwhile
  <2>1. member' \in SUBSET User /\ Witness({}, member') /\ UNCHANGED <<team, task, entered>>
    BY <1>10 DEF ChangeProject
  <2> QED BY <1>8, <2>1
<1>11. ASSUME NEW u \in User, DeleteUser(u) PROVE Meanwhile
  BY <1>11 DEF DeleteUser, Meanwhile, ScopeFollows
<1>12. CASE NextDay
  BY <1>12 DEF NextDay, Meanwhile, ScopeFollows
<1> QED BY <1>1, <1>3, <1>4, <1>5, <1>6, <1>7, <1>9, <1>10, <1>11, <1>12 DEF Elsewhere

LEMMA StillCounted ==
  ASSUME Meanwhile, Reading, NEW t \in Task \ call'.touched, NEW q \in Figure
  PROVE  t \in Counted(q)' <=> t \in Counted(q)
<1>1. Scoped(t)' <=> Scoped(t)
  BY DEF Meanwhile, Scoped, Exists, Status
<1>2. Scoped(t) => task'[t] = task[t]
  BY DEF Meanwhile, Scoped, Exists, Status
<1>3. call'.day = call.day
  BY DEF Meanwhile
<1> HIDE DEF Scoped
<1> QED BY <1>1, <1>2, <1>3 DEF Counted, Done, Figure

LEMMA MeanwhileKeeps ==
  ASSUME DashboardsInv, DashboardsTypeOK', Meanwhile
  PROVE  FiguresTyped' /\ FiguresFollow' /\ AgesFollow' /\ ScopeFollows' /\ FiguresOfOwnTeam'
<1>1. Reading' <=> Reading
  BY DEF Meanwhile, Reading
<1>2. FiguresTyped'
  BY <1>1 DEF Meanwhile, DashboardsInv, FiguresTyped, Reading
<1>3. FiguresFollow'
  <2> SUFFICES ASSUME Reading PROVE FiguresFollow'
    BY <1>1 DEF FiguresFollow
  <2>1. \A S \in SUBSET Task, q \in Figure : Agrees(S, q) => Agrees(S, q)'
    <3> SUFFICES ASSUME NEW S \in SUBSET Task, NEW q \in Figure, Agrees(S, q),
                        NEW t \in Task \ call'.touched
                 PROVE  t \in S <=> t \in Counted(q)'
      BY DEF Agrees
    <3>1. t \in Task \ call.touched
      BY DEF Meanwhile
    <3> QED BY <3>1, StillCounted DEF Agrees
  <2>2. DOMAIN call.figures \subseteq Figure
    BY DEF DashboardsInv, FiguresTyped
  <2>3. ASSUME NEW q \in DOMAIN call.figures \ {"active"}
        PROVE  \E S \in SUBSET Task : call.figures[q] = Cardinality(S) /\ Agrees(S, q)'
    BY <2>1, <2>2, <2>3 DEF DashboardsInv, FiguresFollow
  <2>4. ASSUME "active" \in DOMAIN call.figures
        PROVE  /\ Agrees(DOMAIN call.figures["active"], "active")'
               /\ \A t \in DOMAIN call.figures["active"] \ call'.touched :
                     call.figures["active"][t] = task'[t].status
    <3> DEFINE open == call.figures["active"]
    <3>1. open \in OpenTasks
      BY <2>4 DEF DashboardsInv, FiguresTyped
    <3>2. DOMAIN open \subseteq Task
      BY <3>1 DEF OpenTasks
    <3>3. Agrees(DOMAIN open, "active")
      BY <2>4 DEF DashboardsInv, FiguresFollow
    <3>4. Agrees(DOMAIN open, "active")'
      BY <2>1, <3>2, <3>3, "active" \in Figure DEF Figure, Meanwhile
    <3>5. ASSUME NEW t \in DOMAIN open \ call'.touched PROVE open[t] = task'[t].status
      <4>1. t \in Task \ call.touched /\ open[t] = task[t].status
        BY <2>4, <3>2 DEF Meanwhile, DashboardsInv, FiguresFollow
      <4>2. task[t].status # "none"
        BY <4>1, <3>3 DEF Agrees, Counted, Scoped, Exists, Status
      <4> QED BY <4>1, <4>2 DEF Meanwhile
    <3> QED BY <3>4, <3>5
  <2>5. call'.figures = call.figures
    BY DEF Meanwhile
  <2> HIDE DEF Agrees
  <2> QED BY <2>3, <2>4, <2>5 DEF FiguresFollow
<1>4. AgesFollow'
  <2> SUFFICES ASSUME call.pc = "reply" PROVE AgesFollow'
    BY DEF Meanwhile, AgesFollow
  <2>1. Reading /\ "active" \in DOMAIN call.figures
    BY DEF Reading, DashboardsInv, FiguresTyped, Figure
  <2>2. ASSUME NEW t \in DOMAIN call.age \ call'.touched
        PROVE  call.age[t] = Stay(Baseline(t, task[t].status))'
    <3>1. t \in Task \ call.touched
      <4>1. call.age \in AgesTold
        BY DEF DashboardsInv, DashboardsTypeOK, DashboardCall
      <4>2. call.touched \subseteq call'.touched
        BY DEF Meanwhile
      <4> QED BY <4>1, <4>2, <2>2 DEF AgesTold
    <3>2. t \in Counted("active")
      BY <2>1, <3>1, <2>2 DEF DashboardsInv, FiguresFollow, AgesFollow, Agrees
    <3>3. task[t].status # "none"
      BY <3>2 DEF Counted, Scoped, Exists, Status
    <3>4. task'[t] = task[t] /\ entered'[t] = entered[t] /\ call'.day = call.day
      BY <2>1, <3>1, <3>3, <2>2 DEF Meanwhile
    <3>5. call.age[t] = Stay(Baseline(t, task[t].status))
      BY <2>2, <3>1 DEF DashboardsInv, AgesFollow
    <3> QED BY <3>4, <3>5 DEF Stay, Baseline
  <2> QED BY <2>2 DEF Meanwhile, DashboardsInv, AgesFollow
<1>5. ScopeFollows' /\ FiguresOfOwnTeam'
  BY DEF Meanwhile, DashboardsInv, ScopeFollows, FiguresOfOwnTeam, Reading
<1> QED BY <1>2, <1>3, <1>4, <1>5

LEMMA StaysStep ==
  ASSUME DashboardsTypeOK, StaysFollow, DashboardsNext PROVE StaysFollow'
<1> DEFINE Of(t) ==
        /\ task[t].status = "none" => \A s \in Status : entered[t][s] = Never
        /\ Exists(t) =>
              /\ task[t].since <= day /\ task[t].created <= day
              /\ \A s \in Status : entered[t][s] <= day
              /\ Baseline(t, task[t].status) <= task[t].since
              /\ task[t].tracked => Baseline(t, task[t].status) = task[t].since
<1>1. StaysFollow <=> \A t \in Task : Of(t)
  BY DEF StaysFollow
<1>2. StaysFollow' <=> \A t \in Task : Of(t)'
  BY DEF StaysFollow
<1>3. ASSUME NEW t \in Task, task'[t] = task[t], entered'[t] = entered[t], day' = day
      PROVE  Of(t)'
  BY <1>1, <1>3 DEF Exists, Baseline
<1> USE DEF DashboardsTypeOK
<1>4. ASSUME NEW x \in Task, CreateTask(x) PROVE StaysFollow'
  <2>1. Of(x)'
    BY <1>4, <1>1 DEF CreateTask, Exists, Baseline, TaskRecord, NoTask, Status, Never
  <2>2. ASSUME NEW t \in Task, t # x PROVE Of(t)'
    BY <1>3, <1>4, <2>2 DEF CreateTask
  <2> QED BY <1>2, <2>1, <2>2
<1>5. ASSUME NEW x \in Task, DeleteTask(x) PROVE StaysFollow'
  <2>1. Of(x)'
    BY <1>5 DEF DeleteTask, Exists, NoTask, Status
  <2>2. ASSUME NEW t \in Task, t # x PROVE Of(t)'
    BY <1>3, <1>5, <2>2 DEF DeleteTask
  <2> QED BY <1>2, <2>1, <2>2
<1>6. ASSUME NEW x \in Task, NEW u \in User, Reassign(x, u) PROVE StaysFollow'
  <2>1. Of(x)'
    BY <1>6, <1>1 DEF Reassign, Exists, Baseline, TaskRecord
  <2>2. ASSUME NEW t \in Task, t # x PROVE Of(t)'
    BY <1>3, <1>6, <2>2 DEF Reassign
  <2> QED BY <1>2, <2>1, <2>2
<1>7. ASSUME NEW x \in Task, NEW to \in Status, CommandStatus(x, to) PROVE StaysFollow'
  <2>1. Of(x)'
    <3>1. /\ task'[x].status = to /\ task'[x].since = day /\ task'[x].tracked = FALSE
          /\ task'[x].created = task[x].created
      BY <1>7 DEF CommandStatus, TaskRecord
    <3>2. Exists(x) /\ to # "none" /\ entered' = entered /\ day' = day
      BY <1>7 DEF CommandStatus, Status
    <3> QED BY <1>1, <3>1, <3>2 DEF Exists, Baseline, TaskRecord, Never
  <2>2. ASSUME NEW t \in Task, t # x PROVE Of(t)'
    BY <1>3, <1>7, <2>2 DEF CommandStatus
  <2> QED BY <1>2, <2>1, <2>2
<1>8. ASSUME NEW c \in Changer, CommitChange(c) PROVE StaysFollow'
  <2> PICK x \in Task, to \in Status, seen \in Status :
              x = change[c].task /\ to = change[c].to /\ seen = change[c].seen
    BY <1>8 DEF CommitChange
  <2>1. Exists(x) /\ day' = day
    BY <1>8 DEF CommitChange
  <2>2. task'[x].status = to /\ task'[x].created = task[x].created
    BY <1>8, <2>1 DEF CommitChange, TaskRecord
  <2>3. ASSUME seen # to PROVE Of(x)'
    <3>1. task'[x].since = day /\ entered'[x][to] = day
      BY <1>8, <2>1, <2>3 DEF CommitChange, TaskRecord, TransitionDays
    <3>2. \A s \in Status : s # to => entered'[x][s] = entered[x][s]
      BY <1>8, <2>1, <2>3 DEF CommitChange
    <3>3. Of(x)
      BY <1>1, <2>1
    <3>4. task[x].created \in Nat /\ day # Never
      BY <2>1 DEF TaskRecord, Never
    <3>5. (Baseline(x, task[x].status))' = day
      BY <2>2, <3>1, <3>4, <2>1 DEF Baseline
    <3>6. task'[x].status # "none"
      BY <2>1, <2>2 DEF Status
    <3>7. \A s \in Status : entered'[x][s] <= day
      BY <3>1, <3>2, <3>3, <2>1
    <3>8. task[x].created <= day
      BY <3>3, <2>1
    <3> QED BY <2>1, <2>2, <3>1, <3>5, <3>6, <3>7, <3>8
  <2>4. ASSUME seen = to PROVE Of(x)'
    <3>1. entered' = entered
      BY <1>8, <2>4 DEF CommitChange
    <3>2. /\ task'[x].since = IF task[x].status # to THEN day ELSE task[x].since
          /\ task'[x].tracked = (task[x].tracked /\ task[x].status = to)
      <4>1. task' = [task EXCEPT
                ![x].status = to, ![x].reopened = @ \/ (seen = "done" /\ to # "done"),
                ![x].since = IF seen # to \/ task[x].status # to THEN day ELSE @,
                ![x].tracked = IF seen # to THEN TRUE ELSE @ /\ task[x].status = to]
        BY <1>8 DEF CommitChange
      <4>2. task[x] \in TaskRecord /\ DOMAIN task = Task
        OBVIOUS
      <4> QED BY <2>4, <4>1, <4>2 DEF TaskRecord
    <3>3. Of(x)
      BY <1>1, <2>1
    <3>4. task[x].created \in Nat /\ \A s \in Status : entered[x][s] \in Int
      BY DEF TaskRecord, TransitionDays, Never
    <3>5. task'[x].status # "none"
      BY <2>2 DEF Status
    <3>6. CASE task[x].status = to
      BY <2>1, <2>2, <3>1, <3>2, <3>3, <3>5, <3>6 DEF Baseline
    <3>7. CASE task[x].status # to
      <4>1. task'[x].since = day /\ ~task'[x].tracked
        BY <3>2, <3>7
      <4>2. (Baseline(x, task[x].status))' <= day
        BY <2>1, <2>2, <3>1, <3>3, <3>4 DEF Baseline
      <4> QED BY <2>1, <2>2, <3>1, <3>3, <3>5, <4>1, <4>2
    <3> QED BY <3>6, <3>7
  <2>5. ASSUME NEW t \in Task, t # x PROVE Of(t)'
    <3>1. task'[t] = task[t] /\ entered'[t] = entered[t] /\ day' = day
      BY <1>8, <2>1, <2>5 DEF CommitChange
    <3> QED BY <1>3, <3>1
  <2> HIDE DEF Of
  <2> QED BY <1>2, <2>3, <2>4, <2>5
<1>9. CASE NextDay
  <2> SUFFICES ASSUME NEW t \in Task PROVE Of(t)'
    BY <1>2
  <2>1. Of(t) /\ task' = task /\ entered' = entered /\ day' = day + 1
    BY <1>1, <1>9 DEF NextDay
  <2>2. task[t] \in TaskRecord /\ entered[t] \in TransitionDays
    OBVIOUS
  <2>3. task[t].since \in Nat /\ task[t].created \in Nat /\ \A s \in Status : entered[t][s] \in Int
    BY <2>2 DEF TaskRecord, TransitionDays, Never
  <2> QED BY <2>1, <2>3 DEF Exists, Baseline
<1>10. ASSUME UNCHANGED <<task, entered, day>> PROVE StaysFollow'
  BY <1>2, <1>3, <1>10
<1>11. ASSUME NEW t \in Task, NEW to \in Status, NEW c \in Changer, BeginChange(c, t, to)
       PROVE StaysFollow'
  BY <1>10, <1>11 DEF BeginChange
<1>12. ASSUME NEW u \in User, ChangeTeam(u) \/ ChangeProject(u) \/ DeleteUser(u)
       PROVE StaysFollow'
  BY <1>10, <1>12 DEF ChangeTeam, ChangeProject, DeleteUser
<1>13. CASE Own
  BY <1>10, <1>13 DEF Own, AskFigures, ReadScope, Count, Age, Reply
<1> HIDE DEF Of
<1> QED BY <1>4, <1>5, <1>6, <1>7, <1>8, <1>9, <1>11, <1>12, <1>13 DEF DashboardsNext, Own

\* The request's own steps.
LEMMA OwnKeeps ==
  ASSUME DashboardsInv, DashboardsTypeOK', Own
  PROVE  FiguresTyped' /\ FiguresFollow' /\ AgesFollow' /\ ScopeFollows' /\ FiguresOfOwnTeam'
<1> DEFINE Kept == FiguresTyped' /\ FiguresFollow' /\ AgesFollow' /\ ScopeFollows' /\ FiguresOfOwnTeam'
<1> SUFFICES Kept
  OBVIOUS
<1>1. ASSUME Refused PROVE Kept
  BY <1>1 DEF Refused, NoCall, FiguresTyped, FiguresFollow, AgesFollow, ScopeFollows,
              FiguresOfOwnTeam, Reading
<1>2. CASE Reply
  BY <1>1, <1>2 DEF Reply, Refused
<1>3. CASE AskFigures
  <2>1. PICK k \in {"tenant", "lead", "user", "user by admin", "project", "project by admin"},
             u \in User, pc \in {"users", "access", "members", "teams", "exists"} :
          /\ call' = [NoCall EXCEPT !.kind = k, !.of = u, !.pc = pc, !.to = day,
                                    !.wereIn = team, !.wereOn = member]
          /\ pc = "users" => k = "tenant"
          /\ pc = "exists" => k = "user by admin" \/ (k = "user" /\ u = Lead)
          /\ pc = "members" => k = "project by admin"
          /\ pc = "access" => k = "project"
          /\ pc = "teams" => k \in {"lead", "user"}
    BY <1>3, DashboardsAssumption DEF AskFigures, Begun
  <2>2. /\ call'.pc = pc /\ call'.kind = k /\ call'.of = u /\ call'.wereIn = team
        /\ call'.wereOn = member /\ call'.figures = [q \in {} |-> {}]
    BY <2>1 DEF NoCall
  <2>3. UNCHANGED <<team, member>>
    BY <1>3 DEF AskFigures
  <2> QED BY <2>1, <2>2, <2>3 DEF FiguresTyped, FiguresFollow, AgesFollow, ScopeFollows,
              FiguresOfOwnTeam, Reading
<1>4. ASSUME NEW S \in SUBSET User, Counting(S), ~Reading, call.pc # "idle", UNCHANGED <<team, member>>,
             call.kind \in {"lead", "user", "project"} =>
                \A u \in S \ {Lead} : /\ {u, Lead} \subseteq call.wereIn
                                      /\ call.kind = "project" => u \in call.wereOn
      PROVE  Kept
  <2>1. call \in DashboardCall
    BY DEF DashboardsInv, DashboardsTypeOK
  <2>2. /\ call'.pc \in {"idle", "count"} /\ call'.scope = S /\ call'.unread = Figure
        /\ call'.kind = call.kind /\ call'.wereIn = call.wereIn /\ call'.wereOn = call.wereOn
        /\ call'.figures = call.figures
    BY <1>4, <2>1 DEF Counting, DashboardCall
  <2>3. call.figures = [q \in {} |-> {}]
    BY <1>4 DEF DashboardsInv, FiguresTyped
  <2> QED BY <1>4, <2>2, <2>3 DEF DashboardsInv, FiguresTyped, FiguresFollow, AgesFollow, ScopeFollows,
              FiguresOfOwnTeam, Reading
<1>5. ASSUME NEW pc \in {"members", "overlap", "exists", "teams"}, ~Reading, call.pc # "idle",
             UNCHANGED <<team, member>>,
             call'.pc = pc, call'.figures = call.figures, call'.kind = call.kind, call'.of = call.of,
             call'.wereIn = call.wereIn, call'.wereOn = call.wereOn,
             pc = "members" => call.kind = "project",
             pc = "teams" => call'.scope = member,
             pc = "overlap" => Lead \in team /\ call'.scope = call.scope /\ call.pc = "teams",
             pc = "exists" => call.kind = "user" /\ call.of \in team /\ call.pc = "overlap"
      PROVE  Kept
  BY <1>5 DEF DashboardsInv, FiguresTyped, FiguresFollow, AgesFollow, ScopeFollows,
              FiguresOfOwnTeam, Reading
<1>6. CASE ReadScope
  <2>1. call \in DashboardCall /\ active \subseteq User /\ team \subseteq User /\ member \subseteq User
    BY DEF DashboardsInv, DashboardsTypeOK
  <2>2. UNCHANGED <<team, member>> /\ ~Reading /\ call.pc # "idle"
    BY <1>6 DEF ReadScope, Reading
  <2>3. ScopeFollows
    BY DEF DashboardsInv
  <2> HIDE DEF Kept
  <2>4. CASE call.pc = "users"
    <3>1. Counting(active)
      BY <1>6, <2>4 DEF ReadScope
    <3> QED BY <1>4, <2>1, <2>2, <2>3, <2>4, <3>1 DEF ScopeFollows
  <2>5. CASE call.pc = "access"
    <3>1. call' = [call EXCEPT !.pc = "members"] \/ Refused
      BY <1>6, <2>5 DEF ReadScope
    <3>2. call.kind = "project"
      BY <2>3, <2>5 DEF ScopeFollows
    <3>3. ASSUME call' = [call EXCEPT !.pc = "members"] PROVE Kept
      <4>1. /\ call'.pc = "members" /\ call'.figures = call.figures /\ call'.kind = call.kind
            /\ call'.of = call.of /\ call'.wereIn = call.wereIn /\ call'.wereOn = call.wereOn
        BY <2>1, <3>3 DEF DashboardCall
      <4> QED BY <1>5, <2>2, <3>2, <4>1
    <3> QED BY <1>1, <3>1, <3>3
  <2>6. CASE call.pc = "members"
    <3>1. \/ call.kind = "project by admin" /\ Counting(member)
          \/ call' = [call EXCEPT !.scope = member, !.pc = "teams"]
      BY <1>6, <2>6 DEF ReadScope
    <3> QED BY <1>4, <1>5, <2>1, <2>2, <3>1 DEF DashboardCall
  <2>7. CASE call.pc = "teams"
    <3>1. \/ Lead \in team /\ call' = [call EXCEPT !.leads = TRUE, !.pc = "overlap"]
          \/ Counting({}) \/ Refused \/ Counting({Lead})
      BY <1>6, <2>7 DEF ReadScope
    <3> QED BY <1>1, <1>4, <1>5, <2>1, <2>2, <2>7, <3>1, DashboardsAssumption DEF DashboardCall
  <2>8. CASE call.pc = "overlap"
    <3>1. Lead \in call.wereIn /\ team \subseteq call.wereIn
      BY <2>3, <2>8 DEF ScopeFollows
    <3>2. CASE call.kind = "lead" /\ Counting(team)
      BY <1>4, <2>1, <2>2, <3>1, <3>2
    <3>3. CASE call.kind = "user"
      <4>1. (call' = [call EXCEPT !.pc = "exists"] /\ call.of \in team) \/ Refused
        BY <1>6, <2>8, <3>3 DEF ReadScope
      <4> QED BY <1>1, <1>5, <2>1, <2>2, <2>8, <3>3, <4>1 DEF DashboardCall
    <3>4. CASE call.kind = "project"
      <4>1. PICK S \in {{Lead}, call.scope \cap team} : Counting(S)
        BY <1>6, <2>8, <3>4 DEF ReadScope
      <4>2. call.scope \subseteq call.wereOn
        BY <2>3, <2>8, <3>4 DEF ScopeFollows
      <4>3. S \in SUBSET User
        BY <2>1, <4>1, DashboardsAssumption
      <4>4. \A u \in S \ {Lead} : {u, Lead} \subseteq call.wereIn /\ u \in call.wereOn
        BY <3>1, <4>1, <4>2
      <4> QED BY <1>4, <2>2, <4>1, <4>3, <4>4
    <3> QED BY <1>6, <2>8, <3>2, <3>3, <3>4 DEF ReadScope
  <2>9. CASE call.pc = "exists"
    <3>1. Counting({call.of}) \/ Refused
      BY <1>6, <2>9 DEF ReadScope
    <3>2. {call.of} \in SUBSET User
      BY <2>1 DEF DashboardCall
    <3>3. \A u \in {call.of} \ {Lead} : call.kind = "user" => {u, Lead} \subseteq call.wereIn
      BY <2>3, <2>9 DEF ScopeFollows
    <3>4. call.kind \in {"user", "user by admin"}
      BY <2>3, <2>9 DEF ScopeFollows
    <3> QED BY <1>1, <1>4, <2>2, <3>1, <3>2, <3>3, <3>4
  <2> QED BY <1>6, <2>4, <2>5, <2>6, <2>7, <2>8, <2>9 DEF ReadScope
<1>7. ASSUME NEW q \in Figure, Count(q) PROVE Kept
  <2> PICK found : found = Counted(q)
    OBVIOUS
  <2> PICK read :
        read = IF q = "active" THEN [t \in found |-> task[t].status] ELSE Cardinality(found)
    OBVIOUS
  <2> PICK rest : rest = call.unread \ {q}
    OBVIOUS
  <2> PICK figures : figures =
        [x \in DOMAIN call.figures \cup {q} |-> IF x = q THEN read ELSE call.figures[x]]
    OBVIOUS
  <2>1. call \in DashboardCall
    BY DEF DashboardsInv, DashboardsTypeOK
  <2>2. /\ call'.pc = IF rest = {} THEN "age" ELSE "count"
        /\ call'.unread = rest /\ call'.figures = figures
        /\ call'.touched = IF call.unread = Figure THEN {} ELSE call.touched
        /\ call'.scope = call.scope /\ call'.to = call.to /\ call'.newer = call.newer
        /\ call'.day = call.day /\ call'.kind = call.kind /\ call'.wereIn = call.wereIn
        /\ call'.wereOn = call.wereOn
    BY <1>7, <2>1 DEF Count, DashboardCall
  <2>3. UNCHANGED <<task, team, member, day>> /\ call.pc = "count" /\ q \in call.unread
    BY <1>7 DEF Count
  <2>4. \A x \in Figure : Counted(x)' = Counted(x)
    BY <2>2, <2>3 DEF Counted, Scoped, Exists, Done
  <2>5. DOMAIN call.figures = Figure \ call.unread
    BY <2>3 DEF DashboardsInv, FiguresTyped, Reading
  <2>6. found \subseteq Task
    BY DEF Counted
  <2>7. read \in IF q = "active" THEN OpenTasks ELSE Nat
    <3>1. IsFiniteSet(found)
      BY <2>6, FS_Subset, DashboardsAssumption
    <3>2. Cardinality(found) \in Nat
      BY <3>1, FS_CardinalityType
    <3>3. [t \in found |-> task[t].status] \in [found -> Status]
      BY DEF Counted, Scoped, Exists
    <3> QED BY <2>6, <3>2, <3>3 DEF OpenTasks
  <2>8. /\ DOMAIN figures = Figure \ rest /\ figures[q] = read
        /\ \A x \in DOMAIN call.figures : figures[x] = call.figures[x]
    BY <2>3, <2>5
  <2>9. Agrees(found, q)'
    BY <2>4 DEF Agrees
  <2>10. ASSUME NEW S, NEW x \in DOMAIN call.figures, Agrees(S, x) PROVE Agrees(S, x)'
    <3>1. call.unread # Figure /\ x \in Figure
      BY <2>5
    <3>2. call'.touched = call.touched /\ Counted(x)' = Counted(x)
      BY <2>2, <2>4, <3>1
    <3> QED BY <2>10, <3>2 DEF Agrees
  <2>11. FiguresTyped'
    <3>1. \A x \in DOMAIN figures : figures[x] \in IF x = "active" THEN OpenTasks ELSE Nat
      BY <2>5, <2>7, <2>8 DEF DashboardsInv, FiguresTyped
    <3> QED BY <2>2, <2>8, <3>1 DEF FiguresTyped, Reading
  <2>12. FiguresFollow'
    <3>1. ASSUME NEW x \in DOMAIN figures \ {"active"}
          PROVE  \E S \in SUBSET Task : figures[x] = Cardinality(S) /\ Agrees(S, x)'
      <4>1. CASE x = q
        BY <2>6, <2>8, <2>9, <3>1, <4>1
      <4>2. CASE x # q
        <5>1. x \in DOMAIN call.figures
          BY <2>5, <2>8, <3>1, <4>2
        <5>2. PICK S \in SUBSET Task : call.figures[x] = Cardinality(S) /\ Agrees(S, x)
          BY <2>3, <3>1, <5>1 DEF DashboardsInv, FiguresFollow, Reading
        <5> QED BY <2>8, <2>10, <5>1, <5>2
      <4> QED BY <4>1, <4>2
    <3>2. ASSUME "active" \in DOMAIN figures
          PROVE  /\ Agrees(DOMAIN figures["active"], "active")'
                 /\ \A t \in DOMAIN figures["active"] \ call'.touched :
                       figures["active"][t] = task'[t].status
      <4>1. CASE q = "active"
        <5>1. DOMAIN read = found /\ \A t \in found : read[t] = task[t].status
          BY <4>1
        <5>2. Agrees(found, "active")'
          BY <2>9, <4>1
        <5> QED BY <2>3, <2>8, <4>1, <5>1, <5>2
      <4>2. CASE q # "active"
        <5>1. "active" \in DOMAIN call.figures /\ figures["active"] = call.figures["active"]
          BY <2>5, <2>8, <3>2, <4>2
        <5>2. /\ Agrees(DOMAIN figures["active"], "active")
              /\ \A t \in DOMAIN figures["active"] \ call.touched :
                    figures["active"][t] = task[t].status
          BY <2>3, <5>1 DEF DashboardsInv, FiguresFollow, Reading
        <5>3. Agrees(DOMAIN figures["active"], "active")'
          BY <2>10, <5>1, <5>2
        <5>4. call'.touched = call.touched
          BY <2>2, <2>5, <5>1
        <5> QED BY <2>3, <5>2, <5>3, <5>4
      <4> QED BY <4>1, <4>2
    <3>3. call'.figures = figures
      BY <2>2
    <3> HIDE DEF Agrees
    <3> QED BY <3>1, <3>2, <3>3 DEF FiguresFollow
  <2>13. AgesFollow'
    BY <2>2 DEF AgesFollow
  <2>14. ScopeFollows' /\ FiguresOfOwnTeam'
    BY <2>2, <2>3 DEF DashboardsInv, ScopeFollows, FiguresOfOwnTeam, Reading
  <2> QED BY <2>11, <2>12, <2>13, <2>14
<1>8. CASE Age
  <2> PICK open : open = call.figures["active"]
    OBVIOUS
  <2>1. call \in DashboardCall
    BY DEF DashboardsInv, DashboardsTypeOK
  <2>2. /\ call'.pc = "reply" /\ call.pc = "age"
        /\ call'.age = [t \in DOMAIN open |-> Stay(Baseline(t, open[t]))]
        /\ call'.unread = call.unread /\ call'.figures = call.figures
        /\ call'.touched = call.touched
        /\ call'.scope = call.scope /\ call'.to = call.to /\ call'.newer = call.newer
        /\ call'.day = call.day /\ call'.kind = call.kind /\ call'.wereIn = call.wereIn
        /\ call'.wereOn = call.wereOn
    BY <1>8, <2>1 DEF Age, DashboardCall
  <2>3. UNCHANGED <<task, entered, team, member, day>>
    BY <1>8 DEF Age
  <2>4. \A x \in Figure : Counted(x)' = Counted(x)
    BY <2>2, <2>3 DEF Counted, Scoped, Exists, Done
  <2>5. FiguresTyped'
    BY <2>2 DEF DashboardsInv, FiguresTyped, Reading
  <2>6. FiguresFollow'
    <3>1. \A S, x : x \in Figure /\ Agrees(S, x) => Agrees(S, x)'
      BY <2>2, <2>4 DEF Agrees
    <3> HIDE DEF Agrees
    <3>2. DOMAIN call.figures \subseteq Figure /\ "active" \in Figure
      BY DEF DashboardsInv, FiguresTyped, Figure
    <3>3. FiguresFollow /\ Reading
      BY <2>2 DEF DashboardsInv, Reading
    <3>4. ASSUME NEW x \in DOMAIN call.figures \ {"active"}
          PROVE \E S \in SUBSET Task : call.figures[x] = Cardinality(S) /\ Agrees(S, x)'
      BY <3>1, <3>2, <3>3 DEF FiguresFollow
    <3>5. ASSUME "active" \in DOMAIN call.figures
          PROVE /\ Agrees(DOMAIN open, "active")'
                /\ \A t \in DOMAIN open \ call.touched : open[t] = task[t].status
      BY <3>1, <3>2, <3>3, <3>5 DEF FiguresFollow
    <3> QED BY <2>2, <2>3, <3>4, <3>5 DEF FiguresFollow
  <2>7. AgesFollow'
    <3>1. ASSUME NEW t \in DOMAIN open \ call.touched
          PROVE  Stay(Baseline(t, open[t])) = Stay(Baseline(t, task[t].status))'
      <4>1. open[t] = task[t].status
        BY <2>2, <3>1 DEF DashboardsInv, FiguresTyped, FiguresFollow, Reading, Figure
      <4> QED BY <2>2, <2>3, <4>1 DEF Stay, Baseline
    <3> QED BY <2>2, <3>1 DEF AgesFollow
  <2>8. ScopeFollows' /\ FiguresOfOwnTeam'
    BY <2>2, <2>3 DEF DashboardsInv, ScopeFollows, FiguresOfOwnTeam, Reading
  <2> QED BY <2>5, <2>6, <2>7, <2>8
<1> HIDE DEF Kept
<1>9. Kept
  BY <1>2, <1>3, <1>6, <1>7, <1>8 DEF Own
<1> QED BY <1>9 DEF Kept

LEMMA DashboardsStep == DashboardsInv /\ [DashboardsNext]_dashboardVars => DashboardsInv'
<1> SUFFICES ASSUME DashboardsInv, [DashboardsNext]_dashboardVars PROVE DashboardsInv'
  OBVIOUS
<1>1. CASE UNCHANGED dashboardVars
  <2>1. DashboardsTypeOK'
    BY <1>1 DEF dashboardVars, DashboardsInv, DashboardsTypeOK
  <2>2. StaysFollow'
    BY <1>1 DEF dashboardVars, DashboardsInv, StaysFollow, Exists, Baseline
  <2>3. Meanwhile
    BY <1>1 DEF dashboardVars, Meanwhile, DashboardsInv, ScopeFollows
  <2> QED BY <2>1, <2>2, <2>3, MeanwhileKeeps DEF DashboardsInv
<1>2. CASE Elsewhere
  <2>1. DashboardsTypeOK' /\ Meanwhile
    BY <1>2, ElsewhereTyped, ElsewhereMeanwhile DEF DashboardsInv
  <2>2. StaysFollow'
    BY <1>2, StaysStep DEF DashboardsInv, DashboardsNext, Elsewhere
  <2> QED BY <2>1, <2>2, MeanwhileKeeps DEF DashboardsInv
<1>3. CASE Own
  <2>1. DashboardsTypeOK'
    BY <1>3, OwnTyped DEF DashboardsInv
  <2>2. StaysFollow'
    BY <1>3, StaysStep DEF DashboardsInv, DashboardsNext, Own
  <2> QED BY <1>3, <2>1, <2>2, OwnKeeps DEF DashboardsInv
<1> QED BY <1>1, <1>2, <1>3 DEF DashboardsNext, Elsewhere, Own

\* Two sets that agree but for some elements.
LEMMA NearlyIncluded ==
  ASSUME NEW A, NEW B, NEW X, IsFiniteSet(A), IsFiniteSet(B), IsFiniteSet(X), A \ X \subseteq B
  PROVE  Cardinality(A) <= Cardinality(B) + Cardinality(X)
<1>1. IsFiniteSet(B \cup X)
  BY FS_Union
<1>2. Cardinality(A) <= Cardinality(B \cup X)
  BY <1>1, FS_Subset, A \subseteq B \cup X
<1>3. Cardinality(B \cup X) = Cardinality(B) + Cardinality(X) - Cardinality(B \cap X)
  BY FS_Union
<1>4. IsFiniteSet(A) /\ IsFiniteSet(B \cap X)
  BY FS_Intersection
<1>5. /\ Cardinality(A) \in Nat /\ Cardinality(B) \in Nat /\ Cardinality(X) \in Nat
      /\ Cardinality(B \cap X) \in Nat
  BY <1>4, FS_CardinalityType
<1> QED BY <1>2, <1>3, <1>5

\* A set and its two parts, each read with the elements of X in it or not.
LEMMA PartsWithin ==
  ASSUME NEW A, NEW B, NEW C, NEW X, IsFiniteSet(A), IsFiniteSet(B), IsFiniteSet(C), IsFiniteSet(X),
         (A \cup B) \ X = C \ X, (A \cap B) \subseteq X
  PROVE  /\ Cardinality(A) + Cardinality(B) - Cardinality(C) <= 2 * Cardinality(X)
         /\ Cardinality(A) + Cardinality(B) - Cardinality(C) >= -Cardinality(X)
<1>1. IsFiniteSet(A \cup B) /\ IsFiniteSet(A \cap B)
  BY FS_Union, FS_Intersection
<1>2. Cardinality(A \cup B) = Cardinality(A) + Cardinality(B) - Cardinality(A \cap B)
  BY FS_Union
<1>3. Cardinality(A \cap B) <= Cardinality(X)
  BY FS_Subset
<1>4. Cardinality(A \cup B) <= Cardinality(C) + Cardinality(X)
  BY <1>1, NearlyIncluded
<1>5. Cardinality(C) <= Cardinality(A \cup B) + Cardinality(X)
  BY <1>1, NearlyIncluded
<1>6. /\ Cardinality(A) \in Nat /\ Cardinality(B) \in Nat /\ Cardinality(C) \in Nat
      /\ Cardinality(X) \in Nat /\ Cardinality(A \cap B) \in Nat /\ Cardinality(A \cup B) \in Nat
  BY <1>1, FS_CardinalityType
<1> QED BY <1>2, <1>3, <1>4, <1>5, <1>6

LEMMA InvFiguresAgree == DashboardsInv => FiguresAgree
<1> SUFFICES ASSUME DashboardsInv, call.pc = "reply" PROVE FiguresAgree
  BY DEF FiguresAgree
<1> PICK X : X = call.touched
  OBVIOUS
<1> PICK open : open = call.figures["active"]
  OBVIOUS
<1>1. DOMAIN call.figures = Figure /\ Reading
  BY DEF DashboardsInv, FiguresTyped, Reading
<1>2. ASSUME NEW q \in Figure \ {"active"}
      PROVE  \E S \in SUBSET Task : /\ call.figures[q] = Cardinality(S)
                                    /\ \A t \in Task \ X : t \in S <=> t \in Counted(q)
  BY <1>1, <1>2 DEF DashboardsInv, FiguresFollow, Agrees
<1>3. DOMAIN open \subseteq Task
  <2>1. open \in OpenTasks
    BY <1>1 DEF DashboardsInv, FiguresTyped, Figure
  <2> QED BY <2>1 DEF OpenTasks
<1>4. \A t \in Task \ X : t \in DOMAIN open <=> t \in Counted("active")
  BY <1>1 DEF DashboardsInv, FiguresFollow, Agrees, Figure
<1>5. PICK total \in SUBSET Task : /\ call.figures["total"] = Cardinality(total)
                                   /\ \A t \in Task \ X : t \in total <=> t \in Counted("total")
  BY <1>2 DEF Figure
<1>6. PICK completed \in SUBSET Task :
        /\ call.figures["completed"] = Cardinality(completed)
        /\ \A t \in Task \ X : t \in completed <=> t \in Counted("completed")
  BY <1>2 DEF Figure
<1>7. PICK delayed \in SUBSET Task :
        /\ call.figures["delayed"] = Cardinality(delayed)
        /\ \A t \in Task \ X : t \in delayed <=> t \in Counted("delayed")
  BY <1>2 DEF Figure
<1>8. PICK reopened \in SUBSET Task :
        /\ call.figures["reopened"] = Cardinality(reopened)
        /\ \A t \in Task \ X : t \in reopened <=> t \in Counted("reopened")
  BY <1>2 DEF Figure
<1>9. \A S \in SUBSET Task : IsFiniteSet(S)
  BY DashboardsAssumption, FS_Subset
<1>10. X \in SUBSET Task
  BY DEF DashboardsInv, DashboardsTypeOK, DashboardCall
<1>11. \A t \in Task :
         /\ t \in Counted("total") <=> t \in Counted("completed") \/ t \in Counted("active")
         /\ ~(t \in Counted("completed") /\ t \in Counted("active"))
         /\ t \in Counted("delayed") => t \in Counted("active")
         /\ t \in Counted("reopened") => t \in Counted("completed")
  BY DEF Counted
<1>12. /\ (completed \cup DOMAIN open) \ X = total \ X /\ (completed \cap DOMAIN open) \subseteq X
       /\ delayed \ X \subseteq DOMAIN open /\ reopened \ X \subseteq completed
  BY <1>3, <1>4, <1>5, <1>6, <1>7, <1>8, <1>11
<1>13. /\ Cardinality(completed) + Cardinality(DOMAIN open) - Cardinality(total) <= 2 * Cardinality(X)
       /\ Cardinality(completed) + Cardinality(DOMAIN open) - Cardinality(total) >= -Cardinality(X)
  BY <1>3, <1>9, <1>10, <1>12, PartsWithin
<1>14. /\ Cardinality(delayed) <= Cardinality(DOMAIN open) + Cardinality(X)
       /\ Cardinality(reopened) <= Cardinality(completed) + Cardinality(X)
  BY <1>3, <1>9, <1>10, <1>12, NearlyIncluded
<1>15. \A S \in SUBSET Task : Cardinality(S) \in Nat
  BY <1>9, FS_CardinalityType
<1>16. ASSUME NEW t \in DOMAIN open \ X
       PROVE  IF task[t].tracked THEN call.age[t] = Stay(task[t].since)
              ELSE call.age[t] >= Stay(task[t].since)
  <2>1. t \in Task /\ t \in Counted("active")
    BY <1>3, <1>4, <1>16
  <2>2. task[t].status \in Status
    BY <2>1 DEF Counted, Scoped, Exists
  <2>3. /\ Baseline(t, task[t].status) <= task[t].since
        /\ task[t].tracked => Baseline(t, task[t].status) = task[t].since
    BY <2>1, <2>2 DEF DashboardsInv, StaysFollow, Exists
  <2>4. call.age[t] = Stay(Baseline(t, task[t].status))
    BY <1>16 DEF DashboardsInv, AgesFollow
  <2>5. task[t].since \in Nat /\ Baseline(t, task[t].status) \in Int /\ call.day \in Nat
    <3>1. call.day \in Nat
      BY DEF DashboardsInv, DashboardsTypeOK, DashboardCall
    <3>2. task[t] \in TaskRecord /\ entered[t] \in TransitionDays
      BY <2>1 DEF DashboardsInv, DashboardsTypeOK
    <3> QED BY <2>2, <3>1, <3>2 DEF TaskRecord, TransitionDays, Baseline, Never
  <2> QED BY <2>3, <2>4, <2>5 DEF Stay
<1> QED BY <1>3, <1>5, <1>6, <1>7, <1>8, <1>10, <1>13, <1>14, <1>15, <1>16 DEF FiguresAgree

\* The figures of a dashboard agree but for the tasks that changed while they
\* were read, its ages are those of the stays, and a lead sees those of his own
\* team (buildScopedMetrics, getWipAging, resolveScopedProjectUsers), for any
\* tasks, users, changes under way and range.
THEOREM FiguresStayTrue == DashboardsSpec => []FiguresHold
<1>1. DashboardsInv => FiguresHold
  BY InvFiguresAgree DEF FiguresHold, DashboardsInv
<1> QED BY <1>1, DashboardsInitInv, DashboardsStep, PTL DEF DashboardsSpec
=============================================================================
