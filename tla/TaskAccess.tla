------------------------------ MODULE TaskAccess ------------------------------
(***************************************************************************)
(* Who sees a task, and what follows from it: ensureTaskReadAccess and     *)
(* applyTaskVisibilityWhere, the requests that create or update a task     *)
(* with an assignee, a milestone and a parent, each looked up in           *)
(* statements of its own before the row is written, the list and the       *)
(* detail of a task, and comments, whose mentions become notification      *)
(* events and jobs.                                                        *)
(*                                                                         *)
(* One project.  Status and the other columns of a task are those of       *)
(* Tasks.                                                                  *)
(***************************************************************************)
EXTENDS Naturals, FiniteSets

CONSTANTS
    User, Team, Task, Milestone, Call,
    RoleOf,       \* [User -> {"SUPER_ADMIN", "TEAM_LEAD", "USER"}]
    Matching,     \* tasks that match the search of a list request
    Creates, Updates,   \* what requests ask for: [assignee, milestone, parent]
    Mentions,     \* sets of users that comments mention
    Queries,      \* what list requests ask for: [search, deleted, assignee, milestone]
    None, Keep    \* no value; and a column the request leaves alone

VARIABLES
    active,       \* users neither deleted nor inactive
    member,       \* members of the project
    teams,        \* the teams of a user
    milestones,   \* milestones that are not deleted
    task,         \* Task rows: [state, assignee, milestone, parent]
    call,         \* requests
    event,        \* the NotificationEvent of a mention, by author and mentioned user
    job,          \* its job in the queue notification-events: [pc, stalls]
    hurt          \* history: mentions on whose way a process stopped or a statement failed

vars == <<active, member, teams, milestones, task, call, event, job, hurt>>
org == <<active, member, teams, milestones>>
mail == <<event, job, hurt>>

Mention == User \X User
Wish == [assignee: User \cup {None, Keep}, milestone: Milestone \cup {None, Keep},
         parent: Task \cup {None, Keep}]

\* The roles of the users, and what a request may ask for.
RequestsAreWishes ==
    /\ User # {} /\ RoleOf \in [User -> {"SUPER_ADMIN", "TEAM_LEAD", "USER"}]
    /\ None \notin User \cup Team \cup Task \cup Milestone \cup {Keep}
    /\ Keep \notin User \cup Milestone \cup Task
    /\ Updates \subseteq Wish
    /\ Creates \subseteq {want \in Wish : \A col \in DOMAIN want : want[col] # Keep}
    /\ Mentions \subseteq SUBSET User
    /\ Queries \subseteq [search: BOOLEAN, deleted: BOOLEAN, assignee: User \cup {Keep},
                           milestone: Milestone \cup {Keep}]

IsLead(u) == RoleOf[u] = "TEAM_LEAD"
IsAdmin(u) == RoleOf[u] = "SUPER_ADMIN"

NoTask == [state |-> "none", assignee |-> None, milestone |-> None, parent |-> None]
NoWant == [assignee |-> Keep, milestone |-> Keep, parent |-> Keep]
Idle == [op |-> "none", by |-> CHOOSE u \in User : TRUE, task |-> None, want |-> NoWant,
         todo |-> {}, theirs |-> {}, mentioned |-> {}, queue |-> {}, calm |-> TRUE,
         hadTeams |-> [u \in User |-> {}], wasMember |-> {}]

Item == {"task", "member", "teams", "assignee", "ownMember", "ownTeams", "milestone",
         "parent", "mentioned"}

TaskRecord == [state: {"none", "open", "deleted"}, assignee: User \cup {None},
               milestone: Milestone \cup {None}, parent: Task \cup {None}]
CallRecord == [op: {"none", "create", "update", "get", "comment", "queue"}, by: User,
               task: Task \cup {None}, want: Wish, todo: SUBSET Item, theirs: SUBSET Team,
               mentioned: SUBSET User, queue: SUBSET User, calm: BOOLEAN,
               hadTeams: [User -> SUBSET Team], wasMember: SUBSET User]

TypeOK ==
    /\ active \subseteq User /\ member \subseteq User
    /\ teams \in [User -> SUBSET Team]
    /\ milestones \subseteq Milestone
    /\ task \in [Task -> TaskRecord]
    /\ call \in [Call -> CallRecord]
    /\ event \in [Mention -> {"none", "PENDING", "SENT", "FAILED"}]
    /\ job \in [Mention -> [pc: {"none", "waiting", "active", "done", "failed"}, stalls: Nat]]
    /\ hurt \subseteq Mention

Init ==
    /\ active = User
    /\ member \in SUBSET User
    /\ teams \in [User -> SUBSET Team]
    /\ milestones = Milestone
    /\ task = [t \in Task |-> NoTask]
    /\ call = [c \in Call |-> Idle]
    /\ event = [m \in Mention |-> "none"]
    /\ job = [m \in Mention |-> [pc |-> "none", stalls |-> 0]]
    /\ hurt = {}

Open(t) == t \in Task /\ task[t].state = "open"

\* History of the requests: what they may have read, and whether something they
\* read has changed.
Witnessed ==
    call' = [c \in Call |->
               IF call[c].op = "none" THEN call[c]
               ELSE [call[c] EXCEPT !.calm = FALSE, !.wasMember = @ \cup member',
                                    !.hadTeams = [u \in User |-> @[u] \cup teams'[u]]]]

-----------------------------------------------------------------------------
\* The organisation

AddProjectMember(u) ==
    /\ u \notin member /\ member' = member \cup {u}
    /\ UNCHANGED <<active, teams, milestones, task, mail>> /\ Witnessed

ChangeTeam(u, x) ==
    /\ teams' = [teams EXCEPT ![u] = IF x \in @ THEN @ \ {x} ELSE @ \cup {x}]
    /\ UNCHANGED <<active, member, milestones, task, mail>> /\ Witnessed

DeleteUser(u) ==
    /\ u \in active /\ active' = active \ {u}
    /\ UNCHANGED <<member, teams, milestones, task, mail>> /\ Witnessed

\* Its tasks keep it.
DeleteMilestone(m) ==
    /\ m \in milestones /\ milestones' = milestones \ {m}
    /\ UNCHANGED <<active, member, teams, task, mail>> /\ Witnessed

DeleteTask(t) ==
    /\ Open(t) /\ task' = [task EXCEPT ![t].state = "deleted"]
    /\ UNCHANGED <<org, mail>> /\ Witnessed

-----------------------------------------------------------------------------
\* Access

Shared(mine, theirs) == mine \cap theirs # {}

\* ensureTaskReadAccess, with all its rows read at once.
Readable(u, t) ==
    /\ Open(t)
    /\ \/ IsAdmin(u)
       \/ RoleOf[u] = "USER" /\ task[t].assignee = u
       \/ /\ IsLead(u) /\ u \in member
          /\ task[t].assignee # None => Shared(teams[u], teams[task[t].assignee])

\* The conditions of listTasks.
Asked(t, query) ==
    /\ task[t].state \in (IF query.deleted THEN {"open", "deleted"} ELSE {"open"})
    /\ query.search => t \in Matching
    /\ \A col \in {"assignee", "milestone"} : query[col] # Keep => task[t][col] = query[col]

\* Those of them that applyTaskVisibilityWhere leaves: its own condition on the
\* assignee takes the place of an end user's, and its own alternatives that of a
\* lead's search.
Left(u, query) ==
    CASE RoleOf[u] = "USER" -> [query EXCEPT !.assignee = Keep]
      [] IsLead(u) -> [query EXCEPT !.search = FALSE]
      [] OTHER -> query

Visible(u, t) ==
    CASE IsAdmin(u) -> TRUE
      [] RoleOf[u] = "USER" -> task[t].assignee = u
      [] IsLead(u) -> /\ u \in member
                      /\ \/ task[t].assignee = None
                         \/ task[t].assignee \in {v \in User : Shared(teams[u], teams[v])}

Listed(u, query) == {t \in Task : Asked(t, Left(u, query)) /\ Visible(u, t)}

-----------------------------------------------------------------------------
\* Creating and updating a task

Begin(c, op, u, t, want, mentioned, todo) ==
    /\ call[c].op = "none"
    /\ call' = [call EXCEPT ![c] =
          [Idle EXCEPT !.op = op, !.by = u, !.task = t, !.want = want, !.mentioned = mentioned,
                       !.todo = todo, !.hadTeams = teams, !.wasMember = member]]
    /\ UNCHANGED <<org, task, mail>>

Wanted(want) == {col \in DOMAIN want : want[col] \notin {Keep, None}}

\* assertUserUpdateFields keeps these columns from end users.
BeginUpdate(c, u, t, want) ==
    /\ RoleOf[u] # "USER"
    /\ Begin(c, "update", u, t, want, {}, {"task"} \cup Wanted(want))

BeginCreate(c, u, want) ==
    /\ RoleOf[u] # "USER"
    /\ Begin(c, "create", u, None, want, {},
             Wanted(want) \cup (IF IsLead(u) THEN {"member"} ELSE {}))

BeginGet(c, u, t) == Begin(c, "get", u, t, NoWant, {}, {"task"})

BeginComment(c, u, t, mentioned) ==
    Begin(c, "comment", u, t, NoWant, mentioned,
          {"task"} \cup (IF mentioned = {} THEN {} ELSE {"mentioned"}))

\* The order of the lookups.  updateTask awaits one after the other, createTask
\* has those of the columns in flight at once.
Rank(op, item) ==
    LET rank == CASE item = "task" -> 1
                  [] item \in {"member", "teams"} -> 2
                  [] item = "assignee" -> 3
                  [] item \in {"ownMember", "ownTeams"} -> 4
                  [] item = "milestone" -> 5
                  [] OTHER -> 6
    IN IF op = "create" /\ rank > 3 THEN 3 ELSE rank

Due(c, item) ==
    /\ item \in call[c].todo
    /\ \A i \in call[c].todo : Rank(call[c].op, item) <= Rank(call[c].op, i)

Refused(c) == call' = [call EXCEPT ![c] = Idle]
Done(c, item, more) == call' = [call EXCEPT ![c].todo = (@ \ {item}) \cup more]

\* The first query of ensureTaskReadAccess has the assignee's teams.
ReadTask(c) ==
    LET u == call[c].by
        t == call[c].task
        a == task[t].assignee
    IN
    /\ Due(c, "task")
    /\ IF ~Open(t) \/ (RoleOf[u] = "USER" /\ a # u) THEN Refused(c)
       ELSE IF ~IsLead(u) THEN Done(c, "task", {})
       ELSE call' = [call EXCEPT ![c].todo = (@ \ {"task"}) \cup {"member"}
                                                \cup (IF a = None THEN {} ELSE {"teams"}),
                                 ![c].theirs = IF a = None THEN {} ELSE teams[a]]

ReadAssignee(c) ==
    LET a == call[c].want.assignee IN
    /\ Due(c, "assignee")
    /\ IF a \notin active THEN Refused(c)
       ELSE call' = [call EXCEPT ![c].todo = (@ \ {"assignee"}) \cup
                                   (IF IsLead(call[c].by) THEN {"ownMember", "ownTeams"} ELSE {}),
                                 ![c].theirs = teams[a]]

\* The lead's membership of the project and his teams are read at once, for the
\* task as it is and again for its new assignee.
ReadMember(c, item) ==
    /\ Due(c, item)
    /\ IF call[c].by \in member THEN Done(c, item, {}) ELSE Refused(c)

\* Mutant: whoever has a team may assign to whoever has one.
SharedByNobody(mine, theirs) == mine # {} /\ theirs # {}

Overlap(mine, theirs) == Shared(mine, theirs)

ReadTeams(c, item) ==
    /\ Due(c, item)
    /\ IF Overlap(teams[call[c].by], call[c].theirs) THEN Done(c, item, {}) ELSE Refused(c)

ReadMilestone(c) ==
    /\ Due(c, "milestone")
    /\ IF call[c].want.milestone \in milestones THEN Done(c, "milestone", {}) ELSE Refused(c)

ReadParent(c) ==
    LET p == call[c].want.parent IN
    /\ Due(c, "parent")
    /\ IF Open(p) /\ p # call[c].task THEN Done(c, "parent", {}) ELSE Refused(c)

\* The row is written by id, deleted or not.
Write(c) ==
    LET want == call[c].want
        column(t, col) == IF want[col] = Keep THEN task[t][col] ELSE want[col]
    IN
    /\ call[c].op \in {"create", "update"} /\ call[c].todo = {}
    /\ \E t \in Task :
          /\ IF call[c].op = "create" THEN task[t].state = "none" ELSE t = call[c].task
          /\ task' = [task EXCEPT ![t] =
                [state |-> IF @.state = "none" THEN "open" ELSE @.state,
                 assignee |-> column(t, "assignee"), milestone |-> column(t, "milestone"),
                 parent |-> column(t, "parent")]]
          /\ call' = [d \in Call |->
                        IF d = c THEN Idle
                        ELSE IF call[d].task = t THEN [call[d] EXCEPT !.calm = FALSE] ELSE call[d]]
    /\ UNCHANGED <<org, mail>>

\* getTaskById reads the task again, with what hangs on it, and answers.
ReadDetail(c) ==
    /\ call[c].op = "get" /\ call[c].todo = {}
    /\ Refused(c)
    /\ UNCHANGED <<org, task, mail>>

-----------------------------------------------------------------------------
\* Comments and mentions

ReadMentioned(c) ==
    /\ Due(c, "mentioned")
    /\ IF call[c].mentioned \subseteq active THEN Done(c, "mentioned", {}) ELSE Refused(c)

\* The comment, its mentions and an event for each but the author, in one
\* transaction.  Of the comments of a user only the first is followed further.
StoreComment(c) ==
    LET notified == {u \in call[c].mentioned \ {call[c].by} : event[<<call[c].by, u>>] = "none"} IN
    /\ call[c].op = "comment" /\ call[c].todo = {}
    /\ event' = [m \in Mention |-> IF m[1] = call[c].by /\ m[2] \in notified THEN "PENDING" ELSE event[m]]
    /\ call' = [call EXCEPT ![c] =
          IF notified = {} THEN Idle
          ELSE [Idle EXCEPT !.op = "queue", !.by = call[c].by, !.queue = notified]]
    /\ UNCHANGED <<org, task, job, hurt>>

\* Mutant: one job is added, whoever else is mentioned.
WithoutAll(queue, u) == {}

Without(queue, u) == queue \ {u}

\* The jobs are added after the commit, one by one ...
AddJob(c) ==
    /\ call[c].op = "queue"
    /\ \E u \in call[c].queue :
          LET rest == Without(call[c].queue, u) IN
          /\ job' = [job EXCEPT ![<<call[c].by, u>>].pc = "waiting"]
          /\ IF rest = {} THEN Refused(c) ELSE call' = [call EXCEPT ![c].queue = rest]
    /\ UNCHANGED <<org, task, event, hurt>>

\* ... and not at all when the process stops or the queue is out of reach.
LoseCall(c) ==
    /\ call[c].op # "none"
    /\ Refused(c)
    /\ hurt' = hurt \cup {<<call[c].by, u>> : u \in call[c].queue}
    /\ UNCHANGED <<org, task, event, job>>

Take(m) ==
    /\ job[m].pc = "waiting" /\ job' = [job EXCEPT ![m].pc = "active"]
    /\ UNCHANGED <<org, task, call, event, hurt>>

\* TasksNotificationProcessor.process marks the event SENT; when that fails it
\* marks it FAILED, if it can, and the job, which has one attempt, is over.
ProcessMention(m) ==
    /\ job[m].pc = "active"
    /\ event' = [event EXCEPT ![m] = "SENT"] /\ job' = [job EXCEPT ![m].pc = "done"]
    /\ UNCHANGED <<org, task, call, hurt>>

ProcessFails(m) ==
    /\ job[m].pc = "active"
    /\ event' \in {event, [event EXCEPT ![m] = "FAILED"]}
    /\ job' = [job EXCEPT ![m].pc = "failed"] /\ hurt' = hurt \cup {m}
    /\ UNCHANGED <<org, task, call>>

\* A worker that stops leaves its job active, before or after the update; the
\* queue hands it out once more, and then gives it up.
Stall(m) ==
    /\ job[m].pc = "active"
    /\ event' \in {event, [event EXCEPT ![m] = "SENT"]}
    /\ job' = [job EXCEPT ![m] = [pc |-> IF @.stalls = 0 THEN "waiting" ELSE "failed",
                                  stalls |-> @.stalls + 1]]
    /\ hurt' = hurt \cup {m}
    /\ UNCHANGED <<org, task, call>>

-----------------------------------------------------------------------------
Lookup(c) ==
    /\ \/ ReadTask(c) \/ ReadAssignee(c) \/ ReadMilestone(c) \/ ReadParent(c) \/ ReadMentioned(c)
       \/ ReadMember(c, "member") \/ ReadMember(c, "ownMember")
       \/ ReadTeams(c, "teams") \/ ReadTeams(c, "ownTeams")
    /\ UNCHANGED <<org, task, mail>>

EditTask(c) ==
    \/ \E u \in User, t \in Task, want \in Updates : BeginUpdate(c, u, t, want)
    \/ \E u \in User, want \in Creates : BeginCreate(c, u, want)
    \/ \E u \in User, t \in Task : BeginGet(c, u, t)
    \/ Write(c) \/ ReadDetail(c)

Comment(c) ==
    \/ \E u \in User, t \in Task, mentioned \in Mentions : BeginComment(c, u, t, mentioned)
    \/ StoreComment(c) \/ AddJob(c)

Request(c) == EditTask(c) \/ Comment(c) \/ Lookup(c) \/ LoseCall(c)

Notify(m) == Take(m) \/ ProcessMention(m) \/ ProcessFails(m) \/ Stall(m)

Organise ==
    \/ \E u \in User : AddProjectMember(u) \/ DeleteUser(u) \/ \E x \in Team : ChangeTeam(u, x)
    \/ \E m \in Milestone : DeleteMilestone(m)
    \/ \E t \in Task : DeleteTask(t)

Next ==
    \/ \E c \in Call : Request(c)
    \/ \E m \in Mention : Notify(m)
    \/ Organise

Spec == Init /\ [][Next]_vars

-----------------------------------------------------------------------------
\* Properties

\* What a user asks for and may open is in his list, and the list has nothing
\* else but deleted tasks, when he asks for them; only an end user's choice of an
\* assignee and a lead's search change nothing (applyTaskVisibilityWhere and
\* ensureTaskReadAccess are written apart).
ListedIffReadable ==
    \A u \in User, query \in Queries :
        LET wanted == [query EXCEPT !.assignee = IF RoleOf[u] = "USER" THEN Keep ELSE @,
                                    !.search = @ /\ ~IsLead(u)]
        IN {t \in Listed(u, query) : Open(t)} = {t \in Task : Readable(u, t) /\ Asked(t, wanted)}

\* A lead assigns a task only to a user who was in one of his teams at some time
\* since the request began, and on a project he was on; and unless one of the
\* rows changed meanwhile, he may read the task as he is about to write it, and
\* its milestone and its parent are not deleted, and a task that is shown or
\* commented on is one the caller may read (resolveAssignee, resolveMilestone,
\* resolveParentTask, ensureTaskReadAccess).
WithinReach ==
    \A c \in Call :
        LET u == call[c].by
            want == call[c].want
            a == IF want.assignee = Keep THEN task[call[c].task].assignee ELSE want.assignee
        IN
        /\ call[c].op \in {"create", "update"} /\ call[c].todo = {} =>
            /\ IsLead(u) =>
                  /\ u \in call[c].wasMember
                  /\ want.assignee \in User =>
                        Shared(call[c].hadTeams[u], call[c].hadTeams[want.assignee])
            /\ call[c].calm =>
                  /\ IsLead(u) => u \in member /\ (a # None => Shared(teams[u], teams[a]))
                  /\ want.milestone \in Milestone => want.milestone \in milestones
                  /\ want.parent \in Task => Open(want.parent)
        /\ call[c].op \in {"get", "comment"} /\ call[c].todo = {} /\ call[c].calm =>
            Readable(u, call[c].task)

TasksWithinReach == ListedIffReadable /\ WithinReach

\* The event of a mention that nobody is going to handle any more is SENT, unless
\* a process stopped or a statement failed on its way; then it may be FAILED, or
\* stay PENDING for good (createComment adds the jobs after its transaction).
MentionsAccounted ==
    \A m \in Mention :
        event[m] \in {"PENDING", "FAILED"} =>
            \/ m \in hurt
            \/ job[m].pc \in {"waiting", "active"}
            \/ \E c \in Call : call[c].by = m[1] /\ m[2] \in call[c].queue
=============================================================================
