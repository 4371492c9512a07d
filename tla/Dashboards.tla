------------------------------ MODULE Dashboards ------------------------------
(***************************************************************************)
(* The figures of the dashboards: whose tasks a request counts             *)
(* (dashboard.service, project-dashboard.service and the checks of         *)
(* tenant-rbac-scope.service), and the statements that count them          *)
(* (user-performance.service) while tasks, teams and projects change.      *)
(*                                                                         *)
(* One lead, one team, one project; time in days.  Tasks all belong to the *)
(* project.  The sums of hours, of attendance minutes and of estimates,    *)
(* which statements of their own read, are left out, and so are the        *)
(* quotients: each is a figure divided by another.                         *)
(***************************************************************************)
EXTENDS Integers, FiniteSets

CONSTANTS
    User, Lead,   \* Lead \in User
    Task,
    Changer,      \* status changes under way at once
    From,         \* first day of the range
    DueDay,       \* dueDate of every task
    MaxDay        \* bound on the days

ASSUME DashboardsAssumption ==
    /\ IsFiniteSet(Task) /\ Lead \in User
    /\ From \in Nat /\ DueDay \in Nat /\ MaxDay \in Nat

Status == {"todo", "doing", "done"}
Figure == {"total", "completed", "delayed", "reopened", "active"}
Day == 0..MaxDay
Never == -1

VARIABLES
    day,
    active,    \* users that are neither deleted nor inactive
    team,      \* members of the team
    member,    \* members of the project
    task,      \* Task rows, with history: since when in its status, and whether
               \* a transition row says so
    entered,   \* day of the last transition row of a task to a status
    change,    \* status changes under way: [pc, task, seen, to]
    call       \* the dashboard request

dashboardVars == <<day, active, team, member, task, entered, change, call>>

NoTask == [status |-> "none", assignee |-> Lead, created |-> 0, reopened |-> FALSE,
           since |-> 0, tracked |-> TRUE]
NoChange == [pc |-> "idle", task |-> CHOOSE t \in Task : TRUE, seen |-> "none", to |-> "none"]
NoCall == [kind |-> "none", of |-> Lead, pc |-> "idle", leads |-> FALSE, scope |-> {},
           to |-> 0, newer |-> {}, unread |-> {}, day |-> 0, figures |-> [q \in {} |-> {}], age |-> [t \in {} |-> 0],
           touched |-> {}, wereIn |-> {}, wereOn |-> {}]

DashboardsInit ==
    /\ day = 0
    /\ active = User
    /\ team \in SUBSET User /\ member \in SUBSET User
    /\ task = [t \in Task |-> NoTask]
    /\ entered = [t \in Task |-> [s \in Status |-> Never]]
    /\ change = [c \in Changer |-> NoChange]
    /\ call = NoCall

Exists(t) == task[t].status \in Status
Reading == call.pc \in {"count", "age", "reply"}

\* History of the request: tasks that change while it reads, and who was in the
\* team and on the project at some time since it began.
Touch(t) == call' = IF Reading THEN [call EXCEPT !.touched = @ \cup {t}] ELSE call
Witness(in, on) ==
    call' = IF call.pc = "idle" THEN call
            ELSE [call EXCEPT !.wereIn = @ \cup in, !.wereOn = @ \cup on]

-----------------------------------------------------------------------------
\* What changes meanwhile

\* A new task's first transition row is written with it.  The range of a request
\* that has begun ends before it.
CreateTask(t) ==
    /\ task[t].status = "none"
    /\ \E u \in User :
          task' = [task EXCEPT ![t] = [NoTask EXCEPT !.status = "todo", !.assignee = u,
                                                     !.created = day, !.since = day]]
    /\ entered' = [entered EXCEPT ![t]["todo"] = day]
    /\ call' = IF call.pc = "idle" THEN call ELSE [call EXCEPT !.newer = @ \cup {t}]
    /\ UNCHANGED <<day, active, team, member, change>>

\* changeStatus reads the task ...
BeginChange(c, t, to) ==
    /\ change[c].pc = "idle" /\ Exists(t)
    /\ change' = [change EXCEPT ![c] = [pc |-> "read", task |-> t, seen |-> task[t].status, to |-> to]]
    /\ UNCHANGED <<day, active, team, member, task, entered, call>>

\* ... and writes the status, with a transition row if it has read another one.
CommitChange(c) ==
    LET t == change[c].task
        to == change[c].to
        seen == change[c].seen
    IN
    /\ change[c].pc = "read" /\ Exists(t)
    /\ task' = [task EXCEPT
          ![t].status = to,
          ![t].reopened = @ \/ (seen = "done" /\ to # "done"),
          ![t].since = IF seen # to \/ task[t].status # to THEN day ELSE @,
          ![t].tracked = IF seen # to THEN TRUE ELSE @ /\ task[t].status = to]
    /\ entered' = IF seen = to THEN entered ELSE [entered EXCEPT ![t][to] = day]
    /\ change' = [change EXCEPT ![c] = NoChange]
    /\ Touch(t)
    /\ UNCHANGED <<day, active, team, member>>

\* A WhatsApp command stores the status and nothing else.
CommandStatus(t, to) ==
    /\ Exists(t) /\ task[t].status # to
    /\ task' = [task EXCEPT ![t].status = to, ![t].since = day, ![t].tracked = FALSE]
    /\ Touch(t)
    /\ UNCHANGED <<day, active, team, member, entered, change>>

Reassign(t, u) ==
    /\ Exists(t) /\ task' = [task EXCEPT ![t].assignee = u]
    /\ Touch(t)
    /\ UNCHANGED <<day, active, team, member, entered, change>>

DeleteTask(t) ==
    /\ Exists(t) /\ task' = [task EXCEPT ![t] = [NoTask EXCEPT !.status = "deleted"]]
    /\ Touch(t)
    /\ UNCHANGED <<day, active, team, member, entered, change>>

ChangeTeam(u) ==
    /\ team' = (team \cup {u}) \ (team \cap {u})
    /\ Witness(team', {})
    /\ UNCHANGED <<day, active, member, task, entered, change>>

\* Nobody leaves a project.
ChangeProject(u) ==
    /\ u \notin member /\ member' = member \cup {u}
    /\ Witness({}, member')
    /\ UNCHANGED <<day, active, team, task, entered, change>>

DeleteUser(u) ==
    /\ u \in active /\ active' = active \ {u}
    /\ UNCHANGED <<day, team, member, task, entered, change, call>>

NextDay ==
    /\ day < MaxDay /\ day' = day + 1
    /\ UNCHANGED <<active, team, member, task, entered, change, call>>

-----------------------------------------------------------------------------
\* Whose figures

Begun(kind, u, pc) ==
    /\ call.pc = "idle"
    /\ call' = [NoCall EXCEPT !.kind = kind, !.of = u, !.pc = pc, !.to = day,
                              !.wereIn = team, !.wereOn = member]

\* getSuperAdminDashboard, getTeamLeadDashboard, getUserPerformance and
\* getProjectDashboard; the range ends today.
AskFigures ==
    /\ \/ Begun("tenant", Lead, "users")
       \/ Begun("lead", Lead, "teams")
       \/ \E u \in User : Begun("user", u, IF u = Lead THEN "exists" ELSE "teams")
       \/ \E u \in User : Begun("user by admin", u, "exists")
       \/ Begun("project", Lead, "access")
       \/ Begun("project by admin", Lead, "members")
    /\ UNCHANGED <<day, active, team, member, task, entered, change>>

Refused == call' = NoCall

\* buildScopedMetrics answers zeros for nobody, without a statement.
Counting(scope) ==
    call' = [call EXCEPT !.scope = scope,
                         !.pc = IF scope = {} THEN "idle" ELSE "count",
                         !.day = day,
                         !.unread = Figure]

ReadScope ==
    /\ \/ call.pc = "users" /\ Counting(active)
       \/ /\ call.pc = "access"            \* ensureProjectReadAccess
          /\ IF Lead \in member THEN call' = [call EXCEPT !.pc = "members"] ELSE Refused
       \/ /\ call.pc = "members"           \* resolveScopedProjectUsers
          /\ IF call.kind = "project by admin" THEN Counting(member)
             ELSE call' = [call EXCEPT !.scope = member, !.pc = "teams"]
       \/ /\ call.pc = "teams"             \* getLeadTeamIds
          /\ \/ /\ Lead \in team
                /\ call' = [call EXCEPT !.leads = TRUE, !.pc = "overlap"]
             \/ /\ Lead \notin team
                /\ \/ call.kind = "lead" /\ Counting({})
                   \/ call.kind = "user" /\ Refused
                   \/ call.kind = "project" /\ Counting({Lead})
       \/ /\ call.pc = "overlap"           \* the members of those teams
          /\ \/ call.kind = "lead" /\ Counting(team)
             \/ /\ call.kind = "user"
                /\ IF call.of \in team THEN call' = [call EXCEPT !.pc = "exists"] ELSE Refused
             \/ /\ call.kind = "project"
                /\ LET both == call.scope \cap team IN
                   Counting(IF both = {} THEN {Lead} ELSE both)
       \/ /\ call.pc = "exists"
          /\ IF call.of \in active THEN Counting({call.of}) ELSE Refused
    /\ UNCHANGED <<day, active, team, member, task, entered, change>>

-----------------------------------------------------------------------------
\* The figures

\* taskWhere: the range is that of the creation.
Scoped(t) ==
    /\ Exists(t) /\ task[t].assignee \in call.scope
    /\ task[t].created \in From..call.to /\ t \notin call.newer

Done(t) == task[t].status = "done"

Counted(q) ==
    {t \in Task : Scoped(t) /\ CASE q = "total" -> TRUE
                                 [] q = "completed" -> Done(t)
                                 [] q = "delayed" -> DueDay < call.day /\ ~Done(t)
                                 [] q = "reopened" -> task[t].reopened /\ Done(t)
                                 [] q = "active" -> ~Done(t)}

\* The counts are statements in flight at once.  The open tasks are read with
\* their statuses, which the reply keeps; the others as numbers.
Count(q) ==
    /\ call.pc = "count" /\ q \in call.unread
    /\ LET rest == call.unread \ {q}
           found == Counted(q)
           read == IF q = "active" THEN [t \in found |-> task[t].status] ELSE Cardinality(found)
       IN call' = [call EXCEPT
             !.unread = rest,
             !.figures = [x \in DOMAIN @ \cup {q} |-> IF x = q THEN read ELSE @[x]],
             !.pc = IF rest = {} THEN "age" ELSE "count",
             !.touched = IF call.unread = Figure THEN {} ELSE @]
    /\ UNCHANGED <<day, active, team, member, task, entered, change>>

\* Mutant: the age of the task, not that of its stay in the status.
CreationDay(t, status) == task[t].created

\* The last transition row to the status that was read, or else the creation.
Baseline(t, status) ==
    IF entered[t][status] = Never THEN task[t].created ELSE entered[t][status]

\* getWipAging; no stay counts as less than nothing, though a change may be later
\* than the request's now.
Stay(since) == IF since > call.day THEN 0 ELSE call.day - since

Age ==
    /\ call.pc = "age"
    /\ LET open == call.figures["active"] IN
       call' = [call EXCEPT
          !.pc = "reply",
          !.age = [t \in DOMAIN open |-> Stay(Baseline(t, open[t]))]]
    /\ UNCHANGED <<day, active, team, member, task, entered, change>>

Reply ==
    /\ call.pc = "reply" /\ call' = NoCall
    /\ UNCHANGED <<day, active, team, member, task, entered, change>>

DashboardsNext ==
    \/ \E t \in Task :
          \/ CreateTask(t) \/ DeleteTask(t)
          \/ \E u \in User : Reassign(t, u)
          \/ \E to \in Status : CommandStatus(t, to) \/ \E c \in Changer : BeginChange(c, t, to)
    \/ \E c \in Changer : CommitChange(c)
    \/ \E u \in User : ChangeTeam(u) \/ ChangeProject(u) \/ DeleteUser(u)
    \/ NextDay
    \/ AskFigures \/ ReadScope
    \/ \E q \in Figure : Count(q)
    \/ Age \/ Reply

DashboardsSpec == DashboardsInit /\ [][DashboardsNext]_dashboardVars

-----------------------------------------------------------------------------
\* Properties

\* The figures come from statements of different moments, yet they contradict
\* each other at most by the tasks that changed between the first count and the
\* last: the finished and the open tasks make up the total, from which such a
\* task may be missing while it is in both; delayed tasks are open and reopened
\* ones finished.  The age of an open task that did not change
\* meanwhile is that of its stay in the status; it is longer only for a task that
\* got there without a transition row.
FiguresAgree ==
    call.pc = "reply" =>
        LET open == call.figures["active"]
            slack == Cardinality(call.touched)
            parts == call.figures["completed"] + Cardinality(DOMAIN open)
        IN
        /\ parts - call.figures["total"] \in -slack..2 * slack
        /\ call.figures["delayed"] <= Cardinality(DOMAIN open) + slack
        /\ call.figures["reopened"] <= call.figures["completed"] + slack
        /\ \A t \in DOMAIN open \ call.touched :
              IF task[t].tracked THEN call.age[t] = Stay(task[t].since)
              ELSE call.age[t] >= Stay(task[t].since)

\* A lead gets the figures of users who, as he, were in the team at some time
\* since the request began, and of a project those who were on it; or his own.
FiguresOfOwnTeam ==
    call.kind \in {"lead", "user", "project"} /\ Reading =>
        \A u \in call.scope \ {Lead} :
            /\ {u, Lead} \subseteq call.wereIn
            /\ call.kind = "project" => u \in call.wereOn

\* The figures of a dashboard contradict each other at most by the tasks that
\* changed while they were read, a task's age is that of its stay in the status,
\* and a lead sees the figures of his own team (buildScopedMetrics, getWipAging,
\* resolveScopedProjectUsers).
FiguresHold == FiguresAgree /\ FiguresOfOwnTeam
=============================================================================
