----------------------------- MODULE TimeEntries -----------------------------
(***************************************************************************)
(* Time entries of one date and the budget alerts of their projects:       *)
(* createTimeEntry, adjustTimeEntry, unlockTimeEntry, the items of         *)
(* managerBulkCreate, and evaluateProjectBudget, which every write calls   *)
(* after its row is stored.  Hours are counted in quarter hours, and an    *)
(* hour costs one unit, so hours stand for labor cost too.                 *)
(*                                                                         *)
(* Rows are only ever added, so what the queries sum up is kept as a sum.  *)
(* No transaction spans a request: each statement reads or writes the      *)
(* tables as they are at that moment.                                      *)
(***************************************************************************)
EXTENDS Integers, Sequences, FiniteSets

CONSTANTS
    Users, Projects,
    Requests,     \* concurrent executions of the handlers
    Hours,        \* the amounts a work entry may have, in quarter hours
    Deltas,       \* the amounts an adjustment may have
    DailyCap,     \* timeEntryDailyCapHours of the tenant, in quarter hours
    Budget,       \* budgetAmount of each project
    Thresholds,   \* percentages of the budget that raise an alert
    MaxEntries,   \* bound on the rows the requests create
    MaxCosts,     \* bound on the costs added by hand, each of one unit
    MaxExpenses,  \* bound on the approved expenses, each of one unit
    Faults        \* whether a request may be lost with its process

ASSUME ConstantsAssumption ==
    /\ Hours \subseteq Nat \ {0} /\ Deltas \subseteq Int \ {0}
    /\ Thresholds \subseteq Nat \ {0} /\ Budget \in Nat \ {0} /\ DailyCap \in Nat
    /\ MaxEntries \in Nat /\ MaxCosts \in Nat /\ MaxExpenses \in Nat /\ Faults \in BOOLEAN

\* The column of the hours holds no more than a work entry may have.
ASSUME AmountsAssumption ==
    /\ IsFiniteSet(Requests) /\ Requests # {}
    /\ \E h \in Hours : \A k \in Hours \cup Deltas : k <= h

VARIABLES
    entries,    \* TimeEntry rows in insertion order: [user, project, parent]
    hours,      \* sum of the hours of a user's rows
    labor,      \* sum of the labor cost of a project's rows
    unlocked,   \* entries with a TimeEntryUnlock row
    locked,     \* the date has left the tenant's lock window
    costs,      \* the ProjectCost rows of a project: [manual, expense]
    alerts,     \* thresholds of a project with a BudgetAlert row
    request,    \* the requests being executed
    behind      \* history: the projects with costs that no evaluation, or only
                \* one that was disturbed, has seen

vars == <<entries, hours, labor, unlocked, locked, costs, alerts, request, behind>>

\* parent is 0 for work, and the row it corrects for an adjustment.
EntryRow == [user: Users, project: Projects, parent: Nat]
Row == [user: Users, project: Projects, hours: Int, parent: Nat]

RequestRecord ==
    [pc: {"idle", "cap", "insert", "burn", "alerts", "raise"},
     row: SUBSET Row,              \* the row to insert, if any
     lockSeen: BOOLEAN,            \* the date was locked when that was checked
     project: SUBSET Projects,     \* the project to evaluate
     unread: SUBSET {"entries", "costs"}, burn: Int, due: SUBSET Thresholds]

Idle == [pc |-> "idle", row |-> {}, lockSeen |-> FALSE, project |-> {},
         unread |-> {}, burn |-> 0, due |-> {}]

TypeOK ==
    /\ entries \in Seq(EntryRow)
    /\ hours \in [Users -> Int] /\ labor \in [Projects -> Int]
    /\ unlocked \subseteq DOMAIN entries /\ locked \in BOOLEAN
    /\ costs \in [Projects -> [manual: 0..MaxCosts, expense: 0..MaxExpenses]]
    /\ alerts \in [Projects -> SUBSET Thresholds]
    /\ request \in [Requests -> RequestRecord]
    /\ behind \subseteq Projects

Init ==
    /\ entries = <<>> /\ unlocked = {} /\ locked = FALSE
    /\ hours = [u \in Users |-> 0] /\ labor = [p \in Projects |-> 0]
    /\ costs = [p \in Projects |-> [manual |-> 0, expense |-> 0]]
    /\ alerts = [p \in Projects |-> {}]
    /\ request = [r \in Requests |-> Idle]
    /\ behind = {}

-----------------------------------------------------------------------------
Begin(r, row) ==
    /\ request[r].pc = "idle" /\ Len(entries) < MaxEntries
    /\ request' = [request EXCEPT ![r] =
          [Idle EXCEPT !.pc = "cap", !.row = {row}, !.lockSeen = locked]]
    /\ UNCHANGED <<entries, hours, labor, unlocked, locked, costs, alerts, behind>>

Evaluating(p) == {q \in Requests : p \in request[q].project}

\* The evaluation starts from the costs there are now, and if no other is under
\* way it makes up for all that was missed.
Evaluate(r, p) ==
    /\ request' = [request EXCEPT ![r] =
          [Idle EXCEPT !.pc = "burn", !.project = {p}, !.unread = {"entries", "costs"}]]
    /\ behind' = IF Evaluating(p) = {} THEN behind \ {p} ELSE behind \cup {p}

Return(r) == request' = [request EXCEPT ![r] = Idle]

\* createTimeEntry, or an item of managerBulkCreate.
CreateTimeEntry(r) ==
    /\ ~locked
    /\ \E u \in Users, p \in Projects, h \in Hours :
          Begin(r, [user |-> u, project |-> p, hours |-> h, parent |-> 0])

\* Mutant: a locked entry may be adjusted without an unlock.
AdjustableAlways(e) == e \in DOMAIN entries

\* An entry of a locked date needs an unlock, which never expires.
Adjustable(e) == e \in DOMAIN entries /\ (locked => e \in unlocked)

AdjustTimeEntry(r) ==
    \E e \in DOMAIN entries, d \in Deltas :
        /\ Adjustable(e)
        /\ Begin(r, [user |-> entries[e].user, project |-> entries[e].project,
                     hours |-> d, parent |-> e])

\* Mutant: the cap is compared with the new hours alone.
WithinCapAlone(u, h) == h <= DailyCap

WithinCap(u, h) == hours[u] + h <= DailyCap

\* assertDailyCap; the project and the rate card read next may be missing too.
AssertDailyCap(r) ==
    /\ request[r].pc = "cap"
    /\ \/ /\ \A row \in request[r].row : WithinCap(row.user, row.hours)
          /\ request' = [request EXCEPT ![r].pc = "insert"]
       \/ Return(r)
    /\ UNCHANGED <<entries, hours, labor, unlocked, locked, costs, alerts, behind>>

InsertEntry(r) ==
    /\ request[r].pc = "insert"
    /\ \E row \in request[r].row :
          /\ entries' = Append(entries, [user |-> row.user, project |-> row.project,
                                         parent |-> row.parent])
          /\ hours' = [hours EXCEPT ![row.user] = @ + row.hours]
          /\ labor' = [labor EXCEPT ![row.project] = @ + row.hours]
          /\ Evaluate(r, row.project)
    /\ UNCHANGED <<unlocked, locked, costs, alerts>>

\* A manager opens an entry to adjustments.
UnlockTimeEntry ==
    /\ \E e \in DOMAIN entries \ unlocked : unlocked' = unlocked \cup {e}
    /\ UNCHANGED <<entries, hours, labor, locked, costs, alerts, request, behind>>

\* Costs added by hand are evaluated like hours ...
AddProjectCosts(r, p) ==
    /\ request[r].pc = "idle" /\ costs[p].manual < MaxCosts
    /\ costs' = [costs EXCEPT ![p].manual = @ + 1]
    /\ Evaluate(r, p)
    /\ UNCHANGED <<entries, hours, labor, unlocked, locked, alerts>>

\* ... the cost row of an approved expense is not.
ApproveExpense(p) ==
    /\ costs[p].expense < MaxExpenses
    /\ costs' = [costs EXCEPT ![p].expense = @ + 1]
    /\ behind' = behind \cup {p}
    /\ UNCHANGED <<entries, hours, labor, unlocked, locked, alerts, request>>

-----------------------------------------------------------------------------
\* evaluateProjectBudget

CostsOf(p) == costs[p].manual + costs[p].expense

\* Entries and costs are read by two queries in flight at once.
ReadBurn(r) ==
    /\ request[r].pc = "burn"
    /\ \E part \in request[r].unread, p \in request[r].project :
          request' = [request EXCEPT
             ![r].unread = @ \ {part},
             ![r].burn = @ + (IF part = "entries" THEN labor[p] ELSE CostsOf(p)),
             ![r].pc = IF request[r].unread = {part} THEN "alerts" ELSE "burn"]
    /\ UNCHANGED <<entries, hours, labor, unlocked, locked, costs, alerts, behind>>

\* Mutant: a threshold is due only when it is exceeded.
ReachedStrictly(burn) == {t \in Thresholds : burn * 100 > t * Budget}

Reached(burn) == {t \in Thresholds : burn * 100 >= t * Budget}

ReadAlerts(r) ==
    /\ request[r].pc = "alerts"
    /\ \E p \in request[r].project :
          request' = [request EXCEPT ![r].pc = "raise",
                                     ![r].due = Reached(request[r].burn) \ alerts[p]]
    /\ UNCHANGED <<entries, hours, labor, unlocked, locked, costs, alerts, behind>>

\* Mutant: the thresholds are raised in any order.
AnyDue(S) == S

\* The threshold the loop comes to next.
NextDue(S) == {t \in S : \A s \in S : t <= s}

\* Alerts are created one by one, lowest first; the unique key refuses one that
\* another request created meanwhile, and the error ends the request.
RaiseAlert(r) ==
    /\ request[r].pc = "raise"
    /\ \/ /\ request[r].due = {}
          /\ Return(r)
          /\ UNCHANGED alerts
       \/ \E p \in request[r].project, t \in NextDue(request[r].due) :
             \/ /\ t \in alerts[p]
                /\ Return(r)
                /\ UNCHANGED alerts
             \/ /\ t \notin alerts[p]
                /\ alerts' = [alerts EXCEPT ![p] = @ \cup {t}]
                /\ request' = [request EXCEPT ![r].due = @ \ {t}]
    /\ UNCHANGED <<entries, hours, labor, unlocked, locked, costs, behind>>

\* The process stops, or the database refuses a statement.
LoseRequest(r) ==
    /\ Faults /\ request[r].pc # "idle"
    /\ Return(r)
    /\ behind' = behind \cup request[r].project
    /\ UNCHANGED <<entries, hours, labor, unlocked, locked, costs, alerts>>

\* Days pass, and the date leaves the window in which it may be edited.
DateLocks ==
    /\ ~locked /\ locked' = TRUE
    /\ UNCHANGED <<entries, hours, labor, unlocked, costs, alerts, request, behind>>

-----------------------------------------------------------------------------
HandlerStep(r) ==
    \/ CreateTimeEntry(r) \/ AdjustTimeEntry(r) \/ (\E p \in Projects : AddProjectCosts(r, p))
    \/ AssertDailyCap(r) \/ InsertEntry(r)
    \/ ReadBurn(r) \/ ReadAlerts(r) \/ RaiseAlert(r)

RequestStep(r) == HandlerStep(r) \/ LoseRequest(r)

Next ==
    \/ \E r \in Requests : RequestStep(r)
    \/ \E p \in Projects : ApproveExpense(p)
    \/ UnlockTimeEntry \/ DateLocks

Spec == Init /\ [][Next]_vars

-----------------------------------------------------------------------------
\* Properties

\* assertDailyCap: the hours of a user on a date never exceed the cap.
DailyCapHolds == \A u \in Users : hours[u] <= DailyCap

\* The largest amount an entry or an adjustment may have.
Largest == CHOOSE h \in Hours : \A k \in Hours \cup Deltas : k <= h

\* The quarter hours that the requests which passed the cap check are about to
\* add to a user's day.
InFlight(u) ==
    {quarter \in Requests \X (1..Largest) :
        /\ request[quarter[1]].pc = "insert"
        /\ \E row \in request[quarter[1]].row : row.user = u /\ quarter[2] <= row.hours}

\* One such amount for each of the other requests.
Overrun == (Cardinality(Requests) - 1) * Largest

\* The check is not in a transaction, so requests that overlap may pass it
\* together; but stored and still on its way, the hours of a user exceed the cap
\* by at most one entry for each of the other requests.
OverrunBounded ==
    \A u \in Users : hours[u] + Cardinality(InFlight(u)) <= DailyCap + Overrun

\* Alerts of a project come in the order of the thresholds, whoever raises them:
\* there is never one at 100% without the one at 80%.
AlertLadder ==
    \A p \in Projects : \A t \in alerts[p], s \in Thresholds : s < t => s \in alerts[p]

\* Once the date is locked, a row is stored only for a request that passed the
\* lock check while it was open, or as the adjustment of an unlocked entry.
LockedDateClosed ==
    [][locked /\ entries' # entries =>
          \E r \in Requests :
             /\ request[r].pc = "insert"
             /\ request[r].lockSeen => entries'[Len(entries) + 1].parent \in unlocked]_vars

\* A project that nothing left behind and that nobody evaluates has an alert for
\* every threshold its burn has reached: one undisturbed evaluation is enough to
\* make up for an approved expense, a lost request or evaluations that overlapped.
AlertsComplete ==
    \A p \in Projects \ behind : Evaluating(p) = {} =>
        \A t \in Thresholds :
            t * Budget <= (labor[p] + CostsOf(p)) * 100 => t \in alerts[p]
=============================================================================
