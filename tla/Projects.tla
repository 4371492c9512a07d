------------------------------- MODULE Projects -------------------------------
(***************************************************************************)
(* Projects and what hangs on them: members, milestones, task statuses and *)
(* workflows.  Every request checks that the caller may manage the project *)
(* (ensureProjectManageAccess) and writes in a later statement; projects,  *)
(* milestones and statuses are deleted by setting deletedAt.               *)
(*                                                                         *)
(* A request that makes a status or workflow the default clears the others *)
(* in the same transaction.  The statement locks the project's rows and    *)
(* the gaps between them until the transaction ends (InnoDB, REPEATABLE    *)
(* READ); over no rows at all the locks of two transactions do not         *)
(* conflict until each wants to insert.                                    *)
(***************************************************************************)
EXTENDS Naturals, FiniteSets

CONSTANTS
    Project,    \* projects, each with its code
    Milestone, Status, Workflow,    \* rows that may be created
    SuperAdmin, \* callers with the role SUPER_ADMIN
    TeamLead,   \* callers with the role TEAM_LEAD
    ProjectCalls,   \* concurrent requests
    None

ASSUME ProjectsAssumption ==
    /\ None \notin Project \cup Milestone \cup Status \cup Workflow
    /\ Milestone \cap Status = {} /\ Milestone \cap Workflow = {} /\ Status \cap Workflow = {}

Caller == SuperAdmin \cup TeamLead
Row == Status \cup Workflow

VARIABLES
    project,    \* the Project rows of a tenant
    member,     \* the ProjectMember rows: the role of each member
    milestone,  \* the Milestone rows
    row,        \* the TaskStatus and TaskWorkflow rows
    uses,       \* the statuses in the transitions of each workflow
    request     \* the requests

projectVars == <<project, member, milestone, row, uses, request>>

NoProject == [status |-> None, deleted |-> FALSE]
NoMilestone == [project |-> None, status |-> None, deleted |-> FALSE]
NoRow == [project |-> None, default |-> FALSE, deleted |-> FALSE]
NoRequest == [pc |-> "idle", op |-> "none", by |-> None, of |-> None, item |-> None,
         default |-> "keep", names |-> {}, letIn |-> FALSE]

RequestRecord ==
    [pc: {"idle", "access", "statuses", "write", "locked"},
     op: {"none", "update project", "delete project", "add members", "create milestone",
          "update milestone", "delete milestone", "create status", "update status",
          "delete status", "create workflow"},
     by: Caller \cup {None},
     of: Project \cup {None},            \* the project the request is about
     item: Milestone \cup Row \cup {None},   \* and the row
     default: {"set", "unset", "keep"},  \* what it makes of isDefault
     names: SUBSET Status,               \* statuses in a new workflow's transitions
     letIn: BOOLEAN]                     \* all this was there when checked (history)

ProjectsTypeOK ==
    /\ project \in [Project -> [status: {None, "ACTIVE", "ARCHIVED"}, deleted: BOOLEAN]]
    /\ member \in [Project -> [Caller -> {None, "OWNER", "MEMBER"}]]
    /\ milestone \in [Milestone -> [project: Project \cup {None}, deleted: BOOLEAN,
                                    status: {None, "PLANNED", "COMPLETED", "CANCELLED"}]]
    /\ row \in [Row -> [project: Project \cup {None}, default: BOOLEAN, deleted: BOOLEAN]]
    /\ uses \in [Workflow -> SUBSET Status]
    /\ request \in [ProjectCalls -> RequestRecord]

ProjectsInit ==
    /\ project = [p \in Project |-> NoProject]
    /\ member = [p \in Project |-> [u \in Caller |-> None]]
    /\ milestone = [m \in Milestone |-> NoMilestone]
    /\ row = [r \in Row |-> NoRow]
    /\ uses = [w \in Workflow |-> {}]
    /\ request = [c \in ProjectCalls |-> NoRequest]

Live(p) == project[p] # NoProject /\ ~project[p].deleted
Fresh(i) ==
    /\ IF i \in Milestone THEN milestone[i] = NoMilestone ELSE row[i] = NoRow
    /\ \A c \in ProjectCalls : request[c].item # i
Exists(i) == IF i \in Milestone THEN milestone[i] # NoMilestone /\ ~milestone[i].deleted
             ELSE row[i] # NoRow /\ ~row[i].deleted

-----------------------------------------------------------------------------
\* How a request proceeds

\* ensureProjectManageAccess: the project is not deleted, a lead is a member.
ManageAccess(p, u) == Live(p) /\ (u \in SuperAdmin \/ member[p][u] # None)

\* The input names a project, or a row that has been found; the id of a row to
\* create is fixed in advance.
Begin(c, u, p, op, i, default, names) ==
    /\ request[c] = NoRequest
    /\ request' = [request EXCEPT ![c] =
          [pc |-> "access", op |-> op, by |-> u, of |-> p, item |-> i, default |-> default,
           names |-> names, letIn |-> i \in Milestone => ~milestone[i].deleted]]
    /\ UNCHANGED <<project, member, milestone, row, uses>>

Refuse(c) ==
    /\ request' = [request EXCEPT ![c] = NoRequest]
    /\ UNCHANGED <<project, member, milestone, row, uses>>

CheckAccess(c) ==
    /\ request[c].pc = "access"
    /\ LET d == request[c] IN
       \/ ~ManageAccess(d.of, d.by) /\ Refuse(c)
       \/ /\ ManageAccess(d.of, d.by)
          /\ request' = [request EXCEPT ![c].letIn = @ /\ Live(d.of),
                                  ![c].pc = IF d.op = "create workflow" THEN "statuses" ELSE "write"]
          /\ UNCHANGED <<project, member, milestone, row, uses>>

\* The request op writes now.
Writes(c, op) ==
    /\ request[c].pc = "write" /\ request[c].op = op
    /\ request' = [request EXCEPT ![c] = NoRequest]

-----------------------------------------------------------------------------
\* ProjectsService

\* The project and its owner are stored in one transaction; a code that is in
\* use is refused, also that of a deleted project.
CreateProject(u, p, status) ==
    /\ project[p] = NoProject
    /\ project' = [project EXCEPT ![p].status = status]
    /\ member' = [member EXCEPT ![p][u] = "OWNER"]
    /\ UNCHANGED <<milestone, row, uses, request>>

\* The status is written whatever has become of the project.
UpdateProject(c) ==
    /\ Writes(c, "update project")
    /\ \E status \in {"ACTIVE", "ARCHIVED"} :
          project' = [project EXCEPT ![request[c].of].status = status]
    /\ UNCHANGED <<member, milestone, row, uses>>

DeleteProject(c) ==
    /\ Writes(c, "delete project")
    /\ project' = [project EXCEPT ![request[c].of] = [status |-> "ARCHIVED", deleted |-> TRUE]]
    /\ UNCHANGED <<member, milestone, row, uses>>

\* Who is a member already keeps his role (skipDuplicates).
AddProjectMembers(c) ==
    /\ Writes(c, "add members")
    /\ \E new \in [Caller -> {None, "OWNER", "MEMBER"}] :
          member' = [member EXCEPT ![request[c].of] =
                        [u \in Caller |-> IF @[u] = None THEN new[u] ELSE @[u]]]
    /\ UNCHANGED <<project, milestone, row, uses>>

-----------------------------------------------------------------------------
\* MilestonesService

CreateMilestone(c) ==
    /\ Writes(c, "create milestone")
    /\ \E status \in {"PLANNED", "COMPLETED"} :
          milestone' = [milestone EXCEPT ![request[c].item] =
              [project |-> request[c].of, status |-> status, deleted |-> FALSE]]
    /\ UNCHANGED <<project, member, row, uses>>

UpdateMilestone(c) ==
    /\ Writes(c, "update milestone")
    /\ \E status \in {"PLANNED", "COMPLETED", "CANCELLED"} :
          milestone' = [milestone EXCEPT ![request[c].item].status = status]
    /\ UNCHANGED <<project, member, row, uses>>

DeleteMilestone(c) ==
    /\ Writes(c, "delete milestone")
    /\ milestone' = [milestone EXCEPT ![request[c].item].status = "CANCELLED",
                                      ![request[c].item].deleted = TRUE]
    /\ UNCHANGED <<project, member, row, uses>>

-----------------------------------------------------------------------------
\* TaskStatusesService, TaskWorkflowsService

\* The table a request writes to, and its rows of a project, deleted or not.
TableOf(d) == IF d.op = "create workflow" THEN Workflow ELSE Status
RowsOf(p, table) == {r \in table : row[r].project = p}

\* Transactions that hold the locks of their table and project.
Locking(c) ==
    {d \in ProjectCalls \ {c} : /\ request[d].pc = "locked" /\ request[d].of = request[c].of
                               /\ TableOf(request[d]) = TableOf(request[c])}

\* 'One or more transition statuses are invalid'
FindStatuses(c) ==
    /\ request[c].pc = "statuses"
    /\ LET found == {s \in request[c].names : Exists(s) /\ row[s].project = request[c].of} IN
       \/ found # request[c].names /\ Refuse(c)
       \/ /\ found = request[c].names
          /\ request' = [request EXCEPT ![c].pc = "write"]
          /\ UNCHANGED <<project, member, milestone, row, uses>>

\* updateMany sets isDefault to false on every row of the table and project.
ClearDefaults(c) ==
    /\ request[c].pc = "write" /\ request[c].default = "set"
    /\ Locking(c) = {} \/ RowsOf(request[c].of, TableOf(request[c])) = {}
    /\ request' = [request EXCEPT ![c].pc = "locked"]
    /\ UNCHANGED <<project, member, milestone, row, uses>>

\* The request may store its row: nobody else holds the locks.
Stores(c, op) ==
    /\ request[c].op = op
    /\ request[c].pc = IF request[c].default = "set" THEN "locked" ELSE "write"
    /\ Locking(c) = {}
    /\ request' = [request EXCEPT ![c] = NoRequest]
    /\ UNCHANGED <<project, member, milestone>>

\* Mutant: the others are left as they are.
OthersKept(c, rows) == rows

\* The rows after updateMany, when the request has called it.
Others(c, rows) ==
    [r \in DOMAIN rows |->
        IF /\ request[c].default = "set" /\ r \in TableOf(request[c]) /\ rows[r].project = request[c].of
        THEN [rows[r] EXCEPT !.default = FALSE] ELSE rows[r]]

\* createStatus and createWorkflow; a code or name in use, even by a deleted
\* status, rolls the transaction back.
CreateRow(c, op) ==
    /\ Stores(c, op)
    /\ \/ /\ row' = [Others(c, row) EXCEPT ![request[c].item] =
                [project |-> request[c].of, default |-> request[c].default = "set", deleted |-> FALSE]]
          /\ uses' = [w \in Workflow |-> IF w = request[c].item THEN request[c].names ELSE uses[w]]
       \/ RowsOf(request[c].of, TableOf(request[c])) # {} /\ UNCHANGED <<row, uses>>

UpdateStatus(c) ==
    /\ Stores(c, "update status")
    /\ row' = [Others(c, row) EXCEPT ![request[c].item].default =
                  IF request[c].default = "keep" THEN @ ELSE request[c].default = "set"]
    /\ UNCHANGED uses

\* A status that tasks have is refused; which tasks there are is up to Tasks.
DeleteStatus(c) ==
    /\ Stores(c, "delete status")
    /\ \/ row' = [row EXCEPT ![request[c].item].deleted = TRUE]
       \/ UNCHANGED row
    /\ UNCHANGED uses

\* Two transactions that hold the locks over no rows wait for each other's
\* insertion; the database rolls one back.
Deadlock(c) ==
    /\ request[c].pc = "locked" /\ Locking(c) # {}
    /\ Refuse(c)

-----------------------------------------------------------------------------
Request(c, u) ==
    \/ \E p \in Project :
          \/ \E op \in {"update project", "delete project", "add members"} :
                Begin(c, u, p, op, None, "keep", {})
          \/ \E m \in Milestone : Fresh(m) /\ Begin(c, u, p, "create milestone", m, "keep", {})
          \/ \E r \in Row, default \in {"set", "unset"} :
                /\ Fresh(r)
                /\ \/ r \in Status /\ Begin(c, u, p, "create status", r, default, {})
                   \/ /\ r \in Workflow
                      /\ \E names \in SUBSET Status \ {{}} :
                            Begin(c, u, p, "create workflow", r, default, names)
    \/ \E m \in Milestone, op \in {"update milestone", "delete milestone"} :
          Exists(m) /\ Begin(c, u, milestone[m].project, op, m, "keep", {})
    \/ \E s \in Status :
          /\ Exists(s)
          /\ \/ Begin(c, u, row[s].project, "delete status", s, "keep", {})
             \/ \E default \in {"set", "unset", "keep"} :
                   Begin(c, u, row[s].project, "update status", s, default, {})

Proceed(c) ==
    \/ CheckAccess(c) \/ FindStatuses(c)
    \/ UpdateProject(c) \/ DeleteProject(c) \/ AddProjectMembers(c)
    \/ CreateMilestone(c) \/ UpdateMilestone(c) \/ DeleteMilestone(c)
    \/ ClearDefaults(c) \/ Deadlock(c) \/ UpdateStatus(c) \/ DeleteStatus(c)
    \/ \E op \in {"create status", "create workflow"} : CreateRow(c, op)

ProjectsNext ==
    \/ \E u \in Caller, p \in Project, s \in {"ACTIVE", "ARCHIVED"} : CreateProject(u, p, s)
    \/ \E c \in ProjectCalls : Proceed(c) \/ \E u \in Caller : Request(c, u)

ProjectsSpec == ProjectsInit /\ [][ProjectsNext]_projectVars

-----------------------------------------------------------------------------
\* Properties

\* What hangs on a project.
Holdings(p) ==
    <<project[p], member[p], {m \in Milestone : milestone[m].project = p},
      [r \in RowsOf(p, Row) |-> row[r]]>>

DeletedIsLeft ==
    /\ \A p \in Project : project[p].deleted /\ Holdings(p)' # Holdings(p) =>
          \E d \in ProjectCalls : request[d].letIn /\ request[d].of = p /\ request'[d] = NoRequest
    /\ \A m \in Milestone : milestone[m].deleted /\ milestone'[m] # milestone[m] =>
          \E d \in ProjectCalls : request[d].letIn /\ request[d].item = m /\ request'[d] = NoRequest

OneDefault ==
    \A p \in Project, table \in {Status, Workflow} :
        Cardinality({r \in RowsOf(p, table) : row[r].default}) <= 1

\* What is deleted changes only by a request that found it before the deletion:
\* of a deleted project the row, its members, milestones, statuses and
\* workflows, and a deleted milestone (ensureProjectManageAccess, and the
\* deletedAt in the first query of each service).  And of the statuses of a
\* project at most one is the default, and of its workflows, however requests
\* that set it overlap (createStatus, updateStatus, createWorkflow).
ProjectInOrder == [][DeletedIsLeft /\ OneDefault']_projectVars
=============================================================================
