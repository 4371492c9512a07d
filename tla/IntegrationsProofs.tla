------------------------- MODULE IntegrationsProofs -------------------------
(***************************************************************************)
(* Theorems about TaskAccess, for any users, teams, tasks and requests,    *)
(* and about the assistant, for any processes, chats, plans and documents. *)
(*                                                                         *)
(* A request looks its rows up one statement after the other, so that what *)
(* its last check found is no more than the first saw; Sound says of each  *)
(* row what is known from the moment it was looked up.                     *)
(***************************************************************************)
EXTENDS TaskAccess, AiChat, FiniteSetTheorems, SequenceTheorems, TLAPS

\* The requests that look rows up.
Looking == {"create", "update", "get", "comment"}

\* The history of a request covers what it can have read.
Seen(r) ==
    r.op \in Looking =>
        /\ member \subseteq r.wasMember
        /\ \A v \in User : teams[v] \subseteq r.hadTeams[v]

\* Its wishes, the task it is about, and the order of its lookups.
Formed(r) ==
    r.op \in Looking =>
        /\ r.op = "create" => r.want.assignee # Keep
        /\ r.op # "create" => r.task \in Task
        /\ "ownTeams" \in r.todo => "task" \notin r.todo

\* A lead's membership of the project.
MemberRead(r) ==
    r.op \in Looking /\ IsLead(r.by) /\ "task" \notin r.todo /\ "member" \notin r.todo =>
        r.by \in r.wasMember /\ (r.calm => r.by \in member)

\* The task as it stands.
TaskRead(r) ==
    r.op \in Looking \ {"create"} /\ "task" \notin r.todo /\ r.calm =>
        LET a == task[r.task].assignee IN
        /\ Open(r.task)
        /\ RoleOf[r.by] = "USER" => a = r.by
        /\ IsLead(r.by) /\ a # None =>
              IF "teams" \in r.todo THEN r.theirs = teams[a] ELSE Shared(teams[r.by], teams[a])

\* The new assignee.
AssigneeRead(r) ==
    r.op \in Looking /\ IsLead(r.by) /\ r.want.assignee \in User /\ "assignee" \notin r.todo =>
        LET a == r.want.assignee IN
        IF "ownTeams" \in r.todo
        THEN r.theirs \subseteq r.hadTeams[a] /\ (r.calm => r.theirs = teams[a])
        ELSE /\ Shared(r.hadTeams[r.by], r.hadTeams[a])
             /\ r.calm => Shared(teams[r.by], teams[a])

\* The new milestone and the new parent.
ColumnsRead(r) ==
    r.op \in Looking /\ r.calm =>
        /\ r.want.milestone \in Milestone /\ "milestone" \notin r.todo =>
              r.want.milestone \in milestones
        /\ r.want.parent \in Task /\ "parent" \notin r.todo => Open(r.want.parent)

Sound(r) ==
    Seen(r) /\ Formed(r) /\ MemberRead(r) /\ TaskRead(r) /\ AssigneeRead(r) /\ ColumnsRead(r)

IInv == TypeOK /\ \A c \in Call : Sound(call[c])

-----------------------------------------------------------------------------
LEMMA IdleSound ==
  ASSUME RequestsAreWishes
  PROVE  Idle \in CallRecord /\ Idle.op = "none" /\ Sound(Idle)
<1>1. (CHOOSE u \in User : TRUE) \in User
  BY DEF RequestsAreWishes
<1>2. Idle \in CallRecord
  BY <1>1 DEF Idle, CallRecord, NoWant, Wish
<1>3. Idle.op = "none"
  BY DEF Idle
<1> QED BY <1>2, <1>3 DEF Sound, Seen, Formed, MemberRead, TaskRead, AssigneeRead, ColumnsRead, Looking

LEMMA InitIInv == RequestsAreWishes /\ Init => IInv
<1> SUFFICES ASSUME RequestsAreWishes, Init PROVE IInv
  OBVIOUS
<1>1. NoTask \in TaskRecord
  BY DEF NoTask, TaskRecord
<1> QED BY <1>1, IdleSound DEF Init, IInv, TypeOK

\* The columns of events and jobs.
MailOK ==
    /\ event \in [Mention -> {"none", "PENDING", "SENT", "FAILED"}]
    /\ job \in [Mention -> [pc: {"none", "waiting", "active", "done", "failed"}, stalls: Nat]]
    /\ hurt \subseteq Mention

\* What a request knows does not depend on events and jobs.
LEMMA MailStep ==
  ASSUME IInv, NEW c \in Call, NEW rec \in CallRecord, Sound(rec),
         call' = [call EXCEPT ![c] = rec], UNCHANGED <<org, task>>, MailOK'
  PROVE  IInv'
<1>1. TypeOK'
  BY DEF IInv, TypeOK, org, MailOK
<1>2. \A d \in Call : Sound(call'[d])
  BY DEF IInv, TypeOK
<1>3. UNCHANGED <<member, teams, milestones, task>>
  BY DEF org
<1>4. ASSUME NEW d \in Call PROVE Sound(call[d])'
  <2>1. Seen(call[d])' /\ Formed(call[d])'
    BY <1>2, <1>3 DEF Sound, Seen, Formed
  <2>2. MemberRead(call[d])' /\ TaskRead(call[d])'
    BY <1>2, <1>3 DEF Sound, MemberRead, TaskRead, Open
  <2>3. AssigneeRead(call[d])'
    BY <1>2, <1>3 DEF Sound, AssigneeRead
  <2>4. ColumnsRead(call[d])'
    BY <1>2, <1>3 DEF Sound, ColumnsRead, Open
  <2> QED BY <2>1, <2>2, <2>3, <2>4 DEF Sound
<1> QED BY <1>1, <1>4 DEF IInv

LEMMA LocalStep ==
  ASSUME IInv, NEW c \in Call, NEW rec \in CallRecord, Sound(rec),
         call' = [call EXCEPT ![c] = rec], UNCHANGED <<org, task, mail>>
  PROVE  IInv'
<1>1. MailOK'
  BY DEF IInv, TypeOK, MailOK, mail
<1> QED BY <1>1, MailStep

LEMMA Refusal ==
  ASSUME RequestsAreWishes, IInv, NEW c \in Call, Refused(c), UNCHANGED <<org, task, mail>>
  PROVE  IInv'
BY IdleSound, LocalStep DEF Refused

\* A request that begins has read nothing.
LEMMA BeginSound ==
  ASSUME RequestsAreWishes, IInv, NEW c \in Call, NEW op \in Looking, NEW u \in User,
         NEW t \in Task \cup {None}, NEW want \in Wish, NEW mentioned \in SUBSET User,
         NEW todo \in SUBSET Item, Begin(c, op, u, t, want, mentioned, todo),
         op = "create" => want.assignee # Keep, op # "create" => t \in Task /\ "task" \in todo,
         "ownTeams" \notin todo, IsLead(u) => "task" \in todo \/ "member" \in todo,
         want.assignee \in User => "assignee" \in todo,
         want.milestone \in Milestone => "milestone" \in todo,
         want.parent \in Task => "parent" \in todo
  PROVE  IInv'
<1> DEFINE rec == [Idle EXCEPT !.op = op, !.by = u, !.task = t, !.want = want,
                     !.mentioned = mentioned, !.todo = todo, !.hadTeams = teams,
                     !.wasMember = member]
<1>1. /\ rec.op = op /\ rec.by = u /\ rec.task = t /\ rec.want = want /\ rec.todo = todo
      /\ rec.hadTeams = teams /\ rec.wasMember = member
  BY DEF Idle
<1>2. rec \in CallRecord
  BY IdleSound DEF CallRecord, Looking, IInv, TypeOK
<1>3. call' = [call EXCEPT ![c] = rec] /\ UNCHANGED <<org, task, mail>>
  BY DEF Begin
<1> HIDE DEF rec
<1>4. Seen(rec)
  BY <1>1 DEF Seen
<1>6. Formed(rec)
  BY <1>1 DEF Formed
<1>7. MemberRead(rec)
  BY <1>1 DEF MemberRead
<1>5. TaskRead(rec) /\ AssigneeRead(rec) /\ ColumnsRead(rec)
  BY <1>1 DEF TaskRead, AssigneeRead, ColumnsRead
<1> QED BY <1>2, <1>3, <1>4, <1>5, <1>6, <1>7, LocalStep DEF Sound

LEMMA Beginnings ==
  ASSUME RequestsAreWishes, IInv, NEW c \in Call, NEW u \in User
  PROVE  /\ \A t \in Task, want \in Updates : BeginUpdate(c, u, t, want) => IInv'
         /\ \A want \in Creates : BeginCreate(c, u, want) => IInv'
         /\ \A t \in Task : BeginGet(c, u, t) => IInv'
         /\ \A t \in Task, mentioned \in Mentions : BeginComment(c, u, t, mentioned) => IInv'
<1>0. ASSUME NEW want \in Wish
      PROVE  /\ Wanted(want) \subseteq {"assignee", "milestone", "parent"}
             /\ want.assignee \in User => "assignee" \in Wanted(want)
             /\ want.milestone \in Milestone => "milestone" \in Wanted(want)
             /\ want.parent \in Task => "parent" \in Wanted(want)
  <2>1. DOMAIN want = {"assignee", "milestone", "parent"}
    BY DEF Wish
  <2>2. /\ want.assignee = want["assignee"] /\ want.milestone = want["milestone"]
        /\ want.parent = want["parent"]
    OBVIOUS
  <2> QED BY <2>1, <2>2 DEF Wanted, RequestsAreWishes
<1>1. ASSUME NEW t \in Task, NEW want \in Updates, BeginUpdate(c, u, t, want) PROVE IInv'
  <2>1. want \in Wish
    BY DEF RequestsAreWishes
  <2>2. {"task"} \cup Wanted(want) \in SUBSET Item /\ "ownTeams" \notin {"task"} \cup Wanted(want)
    BY <1>0, <2>1 DEF Item
  <2>3. Begin(c, "update", u, t, want, {}, {"task"} \cup Wanted(want))
    BY <1>1 DEF BeginUpdate
  <2>4. "update" \in Looking /\ "update" # "create"
    BY DEF Looking
  <2> QED BY <1>0, <2>1, <2>2, <2>3, <2>4, BeginSound
<1>2. ASSUME NEW want \in Creates, BeginCreate(c, u, want) PROVE IInv'
  <2> DEFINE todo == Wanted(want) \cup (IF IsLead(u) THEN {"member"} ELSE {})
  <2>1. want \in Wish /\ want.assignee # Keep
    <3>1. want \in Wish /\ \A col \in DOMAIN want : want[col] # Keep
      BY DEF RequestsAreWishes
    <3>2. "assignee" \in DOMAIN want /\ want.assignee = want["assignee"]
      BY <3>1 DEF Wish
    <3> QED BY <3>1, <3>2
  <2>2. todo \in SUBSET Item /\ "ownTeams" \notin todo
    BY <1>0, <2>1 DEF Item
  <2>3. Begin(c, "create", u, None, want, {}, todo)
    BY <1>2 DEF BeginCreate
  <2>4. "create" \in Looking
    BY DEF Looking
  <2>5. IsLead(u) => "member" \in todo
    OBVIOUS
  <2> QED BY <1>0, <2>1, <2>2, <2>3, <2>4, <2>5, BeginSound
<1>3. ASSUME NEW op \in {"get", "comment"}, NEW t \in Task, NEW mentioned \in SUBSET User,
             NEW todo \in SUBSET {"task", "mentioned"}, "task" \in todo,
             Begin(c, op, u, t, NoWant, mentioned, todo)
      PROVE  IInv'
  <2>1. NoWant \in Wish /\ NoWant.assignee = Keep /\ NoWant.milestone = Keep /\ NoWant.parent = Keep
    BY DEF NoWant, Wish
  <2>2. Keep \notin User /\ Keep \notin Milestone /\ Keep \notin Task
    BY DEF RequestsAreWishes
  <2>3. todo \in SUBSET Item /\ "ownTeams" \notin todo
    BY DEF Item
  <2>4. op \in Looking /\ op # "create"
    BY DEF Looking
  <2> QED BY <1>3, <2>1, <2>2, <2>3, <2>4, BeginSound
<1>4. ASSUME NEW t \in Task, BeginGet(c, u, t) PROVE IInv'
  BY <1>3, <1>4 DEF BeginGet
<1>5. ASSUME NEW t \in Task, NEW mentioned \in Mentions, BeginComment(c, u, t, mentioned)
      PROVE  IInv'
  <2>1. mentioned \in SUBSET User
    BY DEF RequestsAreWishes
  <2> DEFINE todo == {"task"} \cup (IF mentioned = {} THEN {} ELSE {"mentioned"})
  <2>2. todo \in SUBSET {"task", "mentioned"} /\ "task" \in todo
    OBVIOUS
  <2>3. Begin(c, "comment", u, t, NoWant, mentioned, todo)
    BY <1>5 DEF BeginComment
  <2> HIDE DEF todo
  <2> QED BY <1>3, <2>1, <2>2, <2>3
<1> QED BY <1>1, <1>2, <1>4, <1>5
-----------------------------------------------------------------------------
\* A lookup that succeeds takes its item off the request's list.
LEMMA LookupStep ==
  ASSUME IInv, NEW c \in Call, NEW more \in SUBSET {"member", "teams", "ownMember", "ownTeams"},
         NEW theirs \in SUBSET Team, NEW item \in Item, item \in call[c].todo,
         call' = [call EXCEPT ![c].todo = (@ \ {item}) \cup more, ![c].theirs = theirs],
         UNCHANGED <<org, task, mail>>,
         LET rec == [call[c] EXCEPT !.todo = (@ \ {item}) \cup more, !.theirs = theirs] IN
            Formed(rec) /\ MemberRead(rec) /\ TaskRead(rec) /\ AssigneeRead(rec) /\ ColumnsRead(rec)
  PROVE  IInv'
<1> DEFINE todo == (call[c].todo \ {item}) \cup more
           rec == [call[c] EXCEPT !.todo = todo, !.theirs = theirs]
<1>0. todo \in SUBSET Item
  BY DEF IInv, TypeOK, CallRecord, Item
<1>2. call' = [call EXCEPT ![c] = rec]
  OBVIOUS
<1>6. Formed(rec) /\ MemberRead(rec) /\ TaskRead(rec) /\ AssigneeRead(rec) /\ ColumnsRead(rec)
  OBVIOUS
<1> HIDE DEF todo
<1>1. rec \in CallRecord
  <2>1. call[c] \in CallRecord
    BY DEF IInv, TypeOK
  <2> QED BY <1>0, <2>1 DEF CallRecord
<1>3. rec.op = call[c].op /\ rec.hadTeams = call[c].hadTeams /\ rec.wasMember = call[c].wasMember
  BY DEF IInv, TypeOK, CallRecord
<1>4. Seen(rec)
  BY <1>3 DEF Seen, IInv, Sound
<1>5. Sound(rec)
  BY <1>4, <1>6 DEF Sound
<1> HIDE DEF rec
<1> QED BY <1>1, <1>2, <1>5, LocalStep

\* What the parts of a record that lost an item say.
LEMMA LookupParts ==
  ASSUME IInv, NEW c \in Call, NEW todo, NEW theirs
  PROVE  LET rec == [call[c] EXCEPT !.todo = todo, !.theirs = theirs] IN
         /\ rec.op = call[c].op /\ rec.by = call[c].by /\ rec.task = call[c].task
         /\ rec.want = call[c].want /\ rec.calm = call[c].calm /\ rec.todo = todo
         /\ rec.theirs = theirs /\ rec.hadTeams = call[c].hadTeams
         /\ rec.wasMember = call[c].wasMember
BY DEF IInv, TypeOK, CallRecord

LEMMA DueRanks ==
  ASSUME NEW c \in Call, NEW item \in Item, Due(c, item)
  PROVE  /\ item \in call[c].todo
         /\ item \notin {"task", "member", "teams"} =>
               "task" \notin call[c].todo /\ "member" \notin call[c].todo
               /\ "teams" \notin call[c].todo
<1>1. \A op : Rank(op, "task") = 1 /\ Rank(op, "member") = 2 /\ Rank(op, "teams") = 2
  BY DEF Rank
<1>2. ASSUME item \notin {"task", "member", "teams"}, NEW op
      PROVE  Rank(op, item) \in 3..6
  <2>1. CASE item = "assignee"
    BY <2>1 DEF Rank
  <2>2. CASE item = "ownMember"
    BY <2>2 DEF Rank
  <2>5. CASE item = "ownTeams"
    BY <2>5 DEF Rank
  <2>3. CASE item = "milestone"
    BY <2>3 DEF Rank
  <2>4. CASE item = "parent"
    BY <2>4 DEF Rank
  <2>6. CASE item = "mentioned"
    BY <2>6 DEF Rank
  <2> QED BY <1>2, <2>1, <2>2, <2>3, <2>4, <2>5, <2>6 DEF Item
<1>3. \A op : item \notin {"task", "member", "teams"} =>
         ~(Rank(op, item) <= 1) /\ ~(Rank(op, item) <= 2)
  BY <1>2
<1> QED BY <1>1, <1>3 DEF Due

LEMMA ReadTaskKeeps ==
  ASSUME RequestsAreWishes, IInv, NEW c \in Call, ReadTask(c), UNCHANGED <<org, task, mail>>
  PROVE  IInv'
<1> DEFINE r == call[c]
           t == r.task
           a == task[t].assignee
<1>1. CASE Refused(c)
  BY <1>1, Refusal
<1>2. CASE ~Refused(c)
  <2> DEFINE more == IF ~IsLead(r.by) THEN {}
                     ELSE {"member"} \cup (IF a = None THEN {} ELSE {"teams"})
             theirs == IF ~IsLead(r.by) THEN r.theirs
                       ELSE IF a = None THEN {} ELSE teams[a]
             todo == (r.todo \ {"task"}) \cup more
             rec == [r EXCEPT !.todo = todo, !.theirs = theirs]
  <2>1. Open(t) /\ (RoleOf[r.by] = "USER" => a = r.by) /\ "task" \in r.todo
    BY <1>2 DEF ReadTask, Due
  <2>2. call' = [call EXCEPT ![c].todo = (@ \ {"task"}) \cup more, ![c].theirs = theirs]
    <3>1. CASE IsLead(r.by)
      BY <1>2, <2>1, <3>1 DEF ReadTask
    <3>2. CASE ~IsLead(r.by)
      <4>1. call' = [call EXCEPT ![c].todo = (@ \ {"task"}) \cup {}]
        BY <1>2, <2>1, <3>2 DEF ReadTask, Done
      <4>2. [r EXCEPT !.todo = (r.todo \ {"task"}) \cup {}, !.theirs = r.theirs]
            = [r EXCEPT !.todo = (r.todo \ {"task"}) \cup {}]
        BY DEF IInv, TypeOK, CallRecord
      <4> QED BY <3>2, <4>1, <4>2
    <3> QED BY <3>1, <3>2
  <2>3. a \in User \cup {None} /\ r.theirs \in SUBSET Team
    BY <2>1 DEF Open, IInv, TypeOK, TaskRecord, CallRecord
  <2>4. theirs \in SUBSET Team /\ more \in SUBSET {"member", "teams", "ownMember", "ownTeams"}
    BY <2>3 DEF IInv, TypeOK
  <2>5. Formed(r) /\ MemberRead(r) /\ AssigneeRead(r) /\ ColumnsRead(r)
    BY DEF IInv, Sound
  <2>6. /\ rec.op = r.op /\ rec.by = r.by /\ rec.task = t /\ rec.want = r.want
        /\ rec.calm = r.calm /\ rec.todo = todo /\ rec.theirs = theirs
        /\ rec.hadTeams = r.hadTeams /\ rec.wasMember = r.wasMember
    BY LookupParts
  <2>7. /\ "task" \notin todo
        /\ IsLead(r.by) => "member" \in todo
        /\ IsLead(r.by) /\ a # None => "teams" \in todo
        /\ \A i \in {"ownTeams", "assignee", "milestone", "parent"} : i \in todo <=> i \in r.todo
    OBVIOUS
  <2>8. r.op \in Looking => "ownTeams" \notin r.todo
    BY <2>1, <2>5 DEF Formed
  <2>9. IsLead(r.by) /\ a # None => theirs = teams[a]
    OBVIOUS
  <2> HIDE DEF rec, todo, theirs, a
  <2>10. Formed(rec)
    BY <2>5, <2>6, <2>7 DEF Formed
  <2>11. MemberRead(rec)
    BY <2>6, <2>7 DEF MemberRead
  <2>12. TaskRead(rec)
    BY <2>1, <2>6, <2>7, <2>9 DEF TaskRead, a
  <2>13. AssigneeRead(rec)
    BY <2>5, <2>6, <2>7, <2>8 DEF AssigneeRead
  <2>14. ColumnsRead(rec)
    BY <2>5, <2>6, <2>7 DEF ColumnsRead
  <2> QED BY <2>1, <2>2, <2>4, <2>10, <2>11, <2>12, <2>13, <2>14, LookupStep
             DEF rec, todo, Item
<1> QED BY <1>1, <1>2

LEMMA ReadAssigneeKeeps ==
  ASSUME RequestsAreWishes, IInv, NEW c \in Call, ReadAssignee(c), UNCHANGED <<org, task, mail>>
  PROVE  IInv'
<1> DEFINE r == call[c]
           a == r.want.assignee
<1>1. CASE Refused(c)
  BY <1>1, Refusal
<1>2. CASE ~Refused(c)
  <2> DEFINE more == IF IsLead(r.by) THEN {"ownMember", "ownTeams"} ELSE {}
             theirs == teams[a]
             todo == (r.todo \ {"assignee"}) \cup more
             rec == [r EXCEPT !.todo = todo, !.theirs = theirs]
  <2>1. a \in User /\ Due(c, "assignee")
    BY <1>2 DEF ReadAssignee, IInv, TypeOK
  <2>2. call' = [call EXCEPT ![c].todo = (@ \ {"assignee"}) \cup more, ![c].theirs = theirs]
    BY <1>2 DEF ReadAssignee
  <2>3. theirs \in SUBSET Team /\ more \in SUBSET {"member", "teams", "ownMember", "ownTeams"}
    BY <2>1 DEF IInv, TypeOK
  <2>4. /\ "assignee" \in r.todo /\ "task" \notin r.todo /\ "member" \notin r.todo
        /\ "teams" \notin r.todo
    BY <2>1, DueRanks DEF Item
  <2>5. Seen(r) /\ Formed(r) /\ MemberRead(r) /\ TaskRead(r) /\ ColumnsRead(r)
    BY DEF IInv, Sound
  <2>6. /\ rec.op = r.op /\ rec.by = r.by /\ rec.task = r.task /\ rec.want = r.want
        /\ rec.calm = r.calm /\ rec.todo = todo /\ rec.theirs = theirs
        /\ rec.hadTeams = r.hadTeams /\ rec.wasMember = r.wasMember
    BY LookupParts
  <2>7. /\ "task" \notin todo /\ "member" \notin todo /\ "teams" \notin todo
        /\ IsLead(r.by) => "ownTeams" \in todo
        /\ "milestone" \in todo <=> "milestone" \in r.todo
        /\ "parent" \in todo <=> "parent" \in r.todo
    BY <2>4
  <2>8. r.op \in Looking => theirs \subseteq r.hadTeams[a]
    BY <2>1, <2>5 DEF Seen
  <2> HIDE DEF rec, todo
  <2>9. Formed(rec)
    BY <2>5, <2>6, <2>7 DEF Formed
  <2>10. MemberRead(rec)
    BY <2>4, <2>5, <2>6, <2>7 DEF MemberRead
  <2>11. TaskRead(rec)
    BY <2>4, <2>5, <2>6, <2>7 DEF TaskRead
  <2>12. AssigneeRead(rec)
    BY <2>1, <2>6, <2>7, <2>8 DEF AssigneeRead
  <2>13. ColumnsRead(rec)
    BY <2>5, <2>6, <2>7 DEF ColumnsRead
  <2> QED BY <2>2, <2>3, <2>4, <2>9, <2>10, <2>11, <2>12, <2>13, LookupStep DEF rec, todo, Item
<1> QED BY <1>1, <1>2

\* The lookups that only take their item off the list.
LEMMA PlainLookup ==
  ASSUME RequestsAreWishes, IInv, NEW c \in Call, NEW item \in Item \ {"task", "assignee"},
         item \in call[c].todo, Done(c, item, {}), UNCHANGED <<org, task, mail>>,
         item \in {"member", "ownMember"} => call[c].by \in member,
         item \in {"teams", "ownTeams"} => Shared(teams[call[c].by], call[c].theirs),
         item = "milestone" => call[c].want.milestone \in milestones,
         item = "parent" => Open(call[c].want.parent)
  PROVE  IInv'
<1> DEFINE r == call[c]
           todo == r.todo \ {item}
           rec == [r EXCEPT !.todo = todo, !.theirs = r.theirs]
<1>1. call' = [call EXCEPT ![c].todo = (@ \ {item}) \cup {}, ![c].theirs = r.theirs]
  BY DEF Done, IInv, TypeOK, CallRecord
<1>2. r.theirs \in SUBSET Team /\ item \in r.todo
  BY DEF IInv, TypeOK, CallRecord
<1>3. /\ Seen(r) /\ Formed(r) /\ MemberRead(r) /\ TaskRead(r) /\ AssigneeRead(r)
      /\ ColumnsRead(r) /\ r.by \in User
  BY DEF IInv, Sound, TypeOK, CallRecord
<1>4. /\ rec.op = r.op /\ rec.by = r.by /\ rec.task = r.task /\ rec.want = r.want
      /\ rec.calm = r.calm /\ rec.todo = todo /\ rec.theirs = r.theirs
      /\ rec.hadTeams = r.hadTeams /\ rec.wasMember = r.wasMember
  BY DEF IInv, TypeOK, CallRecord
<1>5. \A i : i \in todo <=> i \in r.todo /\ i # item
  OBVIOUS
<1>6. r.op \in Looking /\ item = "member" => r.by \in member /\ r.by \in r.wasMember
  BY <1>3 DEF Seen
<1>7. item \in {"teams", "ownTeams"} => Shared(teams[r.by], r.theirs)
  OBVIOUS
<1> HIDE DEF rec, todo
<1>8. Formed(rec)
  BY <1>3, <1>4, <1>5 DEF Formed
<1>9. MemberRead(rec)
  BY <1>3, <1>4, <1>5, <1>6 DEF MemberRead
<1>10. TaskRead(rec)
  <2>1. CASE item = "teams"
    BY <1>3, <1>4, <1>5, <1>7, <2>1 DEF TaskRead
  <2>2. CASE item # "teams"
    BY <1>3, <1>4, <1>5, <2>2 DEF TaskRead
  <2> QED BY <2>1, <2>2
<1>11. AssigneeRead(rec)
  <2>1. CASE item = "ownTeams"
    <3>1. r.op \in Looking => teams[r.by] \subseteq r.hadTeams[r.by]
      BY <1>3 DEF Seen
    <3> DEFINE a == r.want.assignee
    <3>3. ASSUME r.op \in Looking, IsLead(r.by), a \in User, "assignee" \notin r.todo
          PROVE  /\ Shared(r.hadTeams[r.by], r.hadTeams[a])
                 /\ r.calm => Shared(teams[r.by], teams[a])
      <4>1. r.theirs \subseteq r.hadTeams[a] /\ (r.calm => r.theirs = teams[a])
        BY <1>2, <1>3, <2>1, <3>3 DEF AssigneeRead
      <4>2. Shared(r.hadTeams[r.by], r.hadTeams[a])
        BY <1>7, <2>1, <3>1, <3>3, <4>1 DEF Shared
      <4>3. r.calm => Shared(teams[r.by], teams[a])
        BY <1>7, <2>1, <4>1
      <4> QED BY <4>2, <4>3
    <3>4. "ownTeams" \notin rec.todo /\ ("assignee" \in rec.todo <=> "assignee" \in r.todo)
      BY <1>4, <1>5, <2>1
    <3> QED BY <1>4, <3>3, <3>4 DEF AssigneeRead
  <2>2. CASE item # "ownTeams"
    BY <1>3, <1>4, <1>5, <2>2 DEF AssigneeRead
  <2> QED BY <2>1, <2>2
<1>12. ColumnsRead(rec)
  BY <1>3, <1>4, <1>5 DEF ColumnsRead
<1>13. {} \in SUBSET {"member", "teams", "ownMember", "ownTeams"} /\ item \in Item
  OBVIOUS
<1>14. todo = (r.todo \ {item}) \cup {}
  BY DEF todo
<1> QED BY <1>1, <1>2, <1>8, <1>9, <1>10, <1>11, <1>12, <1>13, <1>14, LookupStep DEF rec

LEMMA LookupKeeps ==
  ASSUME RequestsAreWishes, IInv, NEW c \in Call, Lookup(c)
  PROVE  IInv'
<1>0. UNCHANGED <<org, task, mail>>
  BY DEF Lookup
<1>1. \A i \in {"member", "ownMember", "teams", "ownTeams", "milestone", "parent",
               "mentioned"} : i \in Item \ {"task", "assignee"}
  BY DEF Item
<1>2. ASSUME NEW item \in {"member", "ownMember"}, ReadMember(c, item) PROVE IInv'
  <2>1. /\ Due(c, item) /\ (~Refused(c) => Done(c, item, {}))
        /\ ~Refused(c) => call[c].by \in member
    BY <1>2 DEF ReadMember
  <2> QED BY <1>0, <1>1, <2>1, PlainLookup, Refusal DEF Due
<1>3. ASSUME NEW item \in {"teams", "ownTeams"}, ReadTeams(c, item) PROVE IInv'
  <2>1. /\ Due(c, item) /\ (~Refused(c) => Done(c, item, {}))
        /\ ~Refused(c) => Shared(teams[call[c].by], call[c].theirs)
    BY <1>3 DEF ReadTeams, Overlap
  <2> QED BY <1>0, <1>1, <2>1, PlainLookup, Refusal DEF Due
<1>4. CASE ReadMilestone(c)
  <2>1. /\ Due(c, "milestone") /\ (~Refused(c) => Done(c, "milestone", {}))
        /\ ~Refused(c) => call[c].want.milestone \in milestones
    BY <1>4 DEF ReadMilestone
  <2> QED BY <1>0, <1>1, <2>1, PlainLookup, Refusal DEF Due
<1>5. CASE ReadParent(c)
  <2>1. /\ Due(c, "parent") /\ (~Refused(c) => Done(c, "parent", {}))
        /\ ~Refused(c) => Open(call[c].want.parent)
    BY <1>5 DEF ReadParent
  <2> QED BY <1>0, <1>1, <2>1, PlainLookup, Refusal DEF Due
<1>6. CASE ReadMentioned(c)
  <2>1. Due(c, "mentioned") /\ (~Refused(c) => Done(c, "mentioned", {}))
    BY <1>6 DEF ReadMentioned
  <2> QED BY <1>0, <1>1, <2>1, PlainLookup, Refusal DEF Due
<1> QED BY <1>0, <1>2, <1>3, <1>4, <1>5, <1>6, ReadTaskKeeps, ReadAssigneeKeeps DEF Lookup
-----------------------------------------------------------------------------
\* A change of the organisation, or a deletion of a task, ends the calm of every
\* request; its history takes in what it may read from now on.
LEMMA WitnessedKeeps ==
  ASSUME IInv, Witnessed, UNCHANGED mail,
         active' \subseteq User, member' \subseteq User, teams' \in [User -> SUBSET Team],
         milestones' \subseteq Milestone, task' \in [Task -> TaskRecord]
  PROVE  IInv'
<1>1. ASSUME NEW c \in Call
      PROVE  /\ call'[c] \in CallRecord
             /\ call'[c].op = call[c].op /\ call'[c].by = call[c].by
             /\ call'[c].task = call[c].task /\ call'[c].want = call[c].want
             /\ call'[c].todo = call[c].todo /\ call'[c].theirs = call[c].theirs
             /\ call[c].op \in Looking =>
                   /\ call'[c].calm = FALSE
                   /\ call'[c].wasMember = call[c].wasMember \cup member'
                   /\ call'[c].hadTeams = [u \in User |-> call[c].hadTeams[u] \cup teams'[u]]
  <2> DEFINE had == [u \in User |-> call[c].hadTeams[u] \cup teams'[u]]
             rec == [call[c] EXCEPT !.calm = FALSE, !.wasMember = @ \cup member',
                                    !.hadTeams = [u \in User |-> @[u] \cup teams'[u]]]
  <2>1. call[c] \in CallRecord
    BY DEF IInv, TypeOK
  <2>2. had \in [User -> SUBSET Team] /\ call[c].wasMember \cup member' \in SUBSET User
    BY <2>1 DEF CallRecord
  <2>3. rec = [call[c] EXCEPT !.calm = FALSE, !.wasMember = call[c].wasMember \cup member',
                              !.hadTeams = had]
    BY <2>1 DEF CallRecord
  <2>4. call'[c] = IF call[c].op = "none" THEN call[c] ELSE rec
    BY DEF Witnessed
  <2> HIDE DEF had, rec
  <2>5. rec \in CallRecord
    BY <2>1, <2>2, <2>3 DEF CallRecord
  <2>6. /\ rec.op = call[c].op /\ rec.by = call[c].by /\ rec.task = call[c].task
        /\ rec.want = call[c].want /\ rec.todo = call[c].todo /\ rec.theirs = call[c].theirs
        /\ rec.calm = FALSE /\ rec.wasMember = call[c].wasMember \cup member'
        /\ rec.hadTeams = had
    BY <2>1, <2>3 DEF CallRecord
  <2> QED BY <2>1, <2>4, <2>5, <2>6 DEF had, Looking
<1>2. call' \in [Call -> CallRecord]
  BY <1>1 DEF Witnessed
<1>3. TypeOK'
  BY <1>2 DEF IInv, TypeOK, mail
<1>4. ASSUME NEW c \in Call PROVE Sound(call[c])'
  <2>0. Sound(call[c]) /\ call[c].by \in User
    BY DEF IInv, TypeOK, CallRecord
  <2>1. Seen(call[c])'
    BY <1>1, <2>0 DEF Seen
  <2>2. Formed(call[c])'
    BY <1>1, <2>0 DEF Formed, Sound
  <2>3. MemberRead(call[c])'
    BY <1>1, <2>0 DEF MemberRead, Sound
  <2>4. TaskRead(call[c])' /\ ColumnsRead(call[c])'
    BY <1>1 DEF TaskRead, ColumnsRead
  <2>5. AssigneeRead(call[c])'
    <3>1. ASSUME call[c].op \in Looking, IsLead(call[c].by), call[c].want.assignee \in User,
                 "assignee" \notin call[c].todo
          PROVE  IF "ownTeams" \in call[c].todo
                 THEN call[c].theirs \subseteq call'[c].hadTeams[call[c].want.assignee]
                 ELSE Shared(call'[c].hadTeams[call[c].by],
                             call'[c].hadTeams[call[c].want.assignee])
      <4>1. /\ call[c].hadTeams[call[c].by] \subseteq call'[c].hadTeams[call[c].by]
            /\ call[c].hadTeams[call[c].want.assignee] \subseteq
                  call'[c].hadTeams[call[c].want.assignee]
        <5>1. call'[c].hadTeams = [u \in User |-> call[c].hadTeams[u] \cup teams'[u]]
          BY <1>1, <3>1
        <5> QED BY <2>0, <3>1, <5>1
      <4> QED BY <2>0, <3>1, <4>1 DEF AssigneeRead, Sound, Shared
    <3> QED BY <1>1, <3>1 DEF AssigneeRead
  <2> QED BY <2>1, <2>2, <2>3, <2>4, <2>5 DEF Sound
<1> QED BY <1>3, <1>4 DEF IInv

LEMMA OrganiseKeeps ==
  ASSUME RequestsAreWishes, IInv, Organise
  PROVE  IInv'
<1>0. TypeOK
  BY DEF IInv
<1>1. ASSUME NEW u \in User, AddProjectMember(u) \/ DeleteUser(u) PROVE IInv'
  BY <1>0, <1>1, WitnessedKeeps DEF AddProjectMember, DeleteUser, TypeOK
<1>2. ASSUME NEW u \in User, NEW x \in Team, ChangeTeam(u, x) PROVE IInv'
  <2>1. teams' \in [User -> SUBSET Team]
    BY <1>0, <1>2 DEF ChangeTeam, TypeOK
  <2> QED BY <1>0, <1>2, <2>1, WitnessedKeeps DEF ChangeTeam, TypeOK
<1>3. ASSUME NEW m \in Milestone, DeleteMilestone(m) PROVE IInv'
  BY <1>0, <1>3, WitnessedKeeps DEF DeleteMilestone, TypeOK
<1>4. ASSUME NEW t \in Task, DeleteTask(t) PROVE IInv'
  <2>1. task' \in [Task -> TaskRecord]
    BY <1>0, <1>4 DEF DeleteTask, TypeOK, TaskRecord
  <2> QED BY <1>0, <1>4, <2>1, WitnessedKeeps DEF DeleteTask, TypeOK, org
<1> QED BY <1>1, <1>2, <1>3, <1>4 DEF Organise

\* A request that writes a task ends the calm of those that are about it; no task
\* is deleted by it.
LEMMA WriteKeeps ==
  ASSUME RequestsAreWishes, IInv, NEW c \in Call, Write(c)
  PROVE  IInv'
<1> DEFINE want == call[c].want
           column(t, col) == IF want[col] = Keep THEN task[t][col] ELSE want[col]
           row(t) == [state |-> IF task[t].state = "none" THEN "open" ELSE task[t].state,
                      assignee |-> column(t, "assignee"), milestone |-> column(t, "milestone"),
                      parent |-> column(t, "parent")]
<1>0. PICK t \in Task :
         /\ call[c].op # "create" => t = call[c].task
         /\ task' = [task EXCEPT ![t] = row(t)]
         /\ call' = [d \in Call |->
                       IF d = c THEN Idle
                       ELSE IF call[d].task = t THEN [call[d] EXCEPT !.calm = FALSE] ELSE call[d]]
  BY DEF Write
<1>1. row(t) \in TaskRecord
  <2>1. want \in Wish /\ task[t] \in TaskRecord
    BY DEF IInv, TypeOK, CallRecord
  <2>2. /\ column(t, "assignee") \in User \cup {None} /\ column(t, "milestone") \in Milestone \cup {None}
        /\ column(t, "parent") \in Task \cup {None}
    BY <2>1 DEF Wish, TaskRecord
  <2>3. task[t].state \in {"none", "open", "deleted"}
    BY <2>1 DEF TaskRecord
  <2> HIDE DEF column
  <2> QED BY <2>2, <2>3 DEF TaskRecord
<1>2. row(t).state = IF task[t].state = "none" THEN "open" ELSE task[t].state
  OBVIOUS
<1> HIDE DEF row
<1>3. task' \in [Task -> TaskRecord] /\ \A s \in Task \ {t} : task'[s] = task[s]
  BY <1>0, <1>1 DEF IInv, TypeOK
<1>4. \A s : Open(s) => Open(s)'
  BY <1>0, <1>2, <1>3 DEF Open, IInv, TypeOK
<1>5. UNCHANGED <<active, member, teams, milestones, event, job, hurt>>
  BY DEF Write, org, mail
<1>6. ASSUME NEW d \in Call, d # c, call[d].task = t
      PROVE  /\ call'[d] \in CallRecord
             /\ call'[d].op = call[d].op /\ call'[d].by = call[d].by
             /\ call'[d].task = call[d].task /\ call'[d].want = call[d].want
             /\ call'[d].todo = call[d].todo /\ call'[d].theirs = call[d].theirs
             /\ call'[d].hadTeams = call[d].hadTeams
             /\ call'[d].wasMember = call[d].wasMember /\ call'[d].calm = FALSE
  <2>1. call[d] \in CallRecord /\ call'[d] = [call[d] EXCEPT !.calm = FALSE]
    BY <1>0, <1>6 DEF IInv, TypeOK
  <2> QED BY <2>1 DEF CallRecord
<1>7. ASSUME NEW d \in Call, d # c, call[d].task # t PROVE call'[d] = call[d]
  BY <1>0, <1>7
<1>8. call'[c] = Idle
  BY <1>0
<1>9. TypeOK'
  <2>1. \A d \in Call : call'[d] \in CallRecord
    BY <1>6, <1>7, <1>8, IdleSound DEF IInv, TypeOK
  <2>2. call' \in [Call -> CallRecord]
    BY <1>0, <2>1
  <2> QED BY <1>3, <1>5, <2>2 DEF IInv, TypeOK
<1>10. ASSUME NEW d \in Call PROVE Sound(call[d])'
  <2>0. Sound(call[d])
    BY DEF IInv
  <2>1. CASE d = c
    BY <1>8, <2>1, IdleSound DEF Sound, Seen, Formed, MemberRead, TaskRead, AssigneeRead,
                                 ColumnsRead, Looking
  <2>2. CASE d # c /\ call[d].task = t
    <3>1. Seen(call[d])' /\ Formed(call[d])'
      BY <1>5, <1>6, <2>0, <2>2 DEF Sound, Seen, Formed
    <3>2. MemberRead(call[d])' /\ TaskRead(call[d])' /\ ColumnsRead(call[d])'
      BY <1>5, <1>6, <2>0, <2>2 DEF Sound, MemberRead, TaskRead, ColumnsRead
    <3>3. AssigneeRead(call[d])'
      BY <1>5, <1>6, <2>0, <2>2 DEF Sound, AssigneeRead
    <3> QED BY <3>1, <3>2, <3>3 DEF Sound
  <2>3. CASE d # c /\ call[d].task # t
    <3>0. call'[d] = call[d]
      BY <1>7, <2>3
    <3>1. Seen(call[d])' /\ Formed(call[d])' /\ MemberRead(call[d])'
      BY <1>5, <2>0, <3>0 DEF Sound, Seen, Formed, MemberRead
    <3>2. TaskRead(call[d])'
      <4>1. call[d].op \in Looking \ {"create"} => task'[call[d].task] = task[call[d].task]
        BY <1>3, <2>0, <2>3 DEF Sound, Formed
      <4> QED BY <1>4, <1>5, <2>0, <3>0, <4>1 DEF Sound, TaskRead
    <3>3. AssigneeRead(call[d])'
      BY <1>5, <2>0, <3>0 DEF Sound, AssigneeRead
    <3>4. ColumnsRead(call[d])'
      BY <1>4, <1>5, <2>0, <3>0 DEF Sound, ColumnsRead
    <3> QED BY <3>1, <3>2, <3>3, <3>4 DEF Sound
  <2> QED BY <2>1, <2>2, <2>3
<1> QED BY <1>9, <1>10 DEF IInv

LEMMA JobTyped ==
  ASSUME IInv, NEW m \in Mention
  PROVE  /\ job[m].stalls \in Nat
         /\ \A pc \in {"waiting", "active", "done", "failed"}, n \in Nat :
               /\ [job EXCEPT ![m].pc = pc] \in
                     [Mention -> [pc: {"none", "waiting", "active", "done", "failed"}, stalls: Nat]]
               /\ [job EXCEPT ![m] = [pc |-> pc, stalls |-> n]] \in
                     [Mention -> [pc: {"none", "waiting", "active", "done", "failed"}, stalls: Nat]]
BY DEF IInv, TypeOK

LEMMA CommentKeeps ==
  ASSUME RequestsAreWishes, IInv, NEW c \in Call, StoreComment(c) \/ AddJob(c) \/ LoseCall(c)
  PROVE  IInv'
<1>0. UNCHANGED <<org, task>> /\ call[c] \in CallRecord
  BY DEF StoreComment, AddJob, LoseCall, IInv, TypeOK
<1>1. ASSUME MailOK', NEW rec \in CallRecord, rec.op \in {"none", "queue"},
             call' = [call EXCEPT ![c] = rec]
      PROVE  IInv'
  <2>1. Sound(rec)
    BY <1>1 DEF Sound, Seen, Formed, MemberRead, TaskRead, AssigneeRead, ColumnsRead, Looking
  <2> QED BY <1>0, <1>1, <2>1, MailStep
<1>2. CASE StoreComment(c)
  <2> DEFINE notified == {u \in call[c].mentioned \ {call[c].by} : event[<<call[c].by, u>>] = "none"}
             rec == IF notified = {} THEN Idle
                    ELSE [Idle EXCEPT !.op = "queue", !.by = call[c].by, !.queue = notified]
  <2>1. notified \in SUBSET User /\ call[c].by \in User
    BY <1>0 DEF CallRecord
  <2>2. /\ call' = [call EXCEPT ![c] = rec]
        /\ event' = [m \in Mention |-> IF m[1] = call[c].by /\ m[2] \in notified
                                       THEN "PENDING" ELSE event[m]]
        /\ UNCHANGED <<job, hurt>>
    BY <1>2 DEF StoreComment
  <2> HIDE DEF notified
  <2>3. rec \in CallRecord /\ rec.op \in {"none", "queue"}
    BY <2>1, IdleSound DEF CallRecord
  <2> HIDE DEF rec
  <2>4. MailOK'
    BY <2>2 DEF MailOK, IInv, TypeOK
  <2> QED BY <1>1, <2>2, <2>3, <2>4
<1>3. CASE AddJob(c)
  <2>1. PICK u \in call[c].queue :
           /\ job' = [job EXCEPT ![<<call[c].by, u>>].pc = "waiting"]
           /\ IF Without(call[c].queue, u) = {} THEN call' = [call EXCEPT ![c] = Idle]
              ELSE call' = [call EXCEPT ![c].queue = Without(call[c].queue, u)]
    BY <1>3 DEF AddJob, Refused
  <2> DEFINE rest == Without(call[c].queue, u)
             rec == IF rest = {} THEN Idle ELSE [call[c] EXCEPT !.queue = rest]
  <2>2. <<call[c].by, u>> \in Mention /\ rest \in SUBSET User /\ call[c].op = "queue"
    BY <1>0, <1>3 DEF CallRecord, Mention, Without, AddJob
  <2>3. call' = [call EXCEPT ![c] = rec]
    BY <2>1
  <2> HIDE DEF rest
  <2>4. rec \in CallRecord /\ rec.op \in {"none", "queue"}
    BY <1>0, <2>2, IdleSound DEF CallRecord
  <2> HIDE DEF rec
  <2>5. UNCHANGED <<event, hurt>>
    BY <1>3 DEF AddJob
  <2>6. MailOK'
    BY <2>1, <2>2, <2>5, JobTyped DEF MailOK, IInv, TypeOK
  <2> QED BY <1>1, <2>3, <2>4, <2>6
<1>4. CASE LoseCall(c)
  <2>1. {<<call[c].by, u>> : u \in call[c].queue} \subseteq Mention
    BY <1>0 DEF CallRecord, Mention
  <2>2. MailOK'
    BY <1>4, <2>1 DEF LoseCall, MailOK, IInv, TypeOK
  <2> QED BY <1>1, <1>4, <2>2, IdleSound DEF LoseCall, Refused
<1> QED BY <1>2, <1>3, <1>4

LEMMA NotifyKeeps ==
  ASSUME IInv, NEW m \in Mention, Notify(m)
  PROVE  IInv'
<1>0. UNCHANGED <<org, task, call>>
  BY DEF Notify, Take, ProcessMention, ProcessFails, Stall
<1>1. event' \in [Mention -> {"none", "PENDING", "SENT", "FAILED"}]
  BY DEF Notify, Take, ProcessMention, ProcessFails, Stall, IInv, TypeOK
<1>2. job' \in [Mention -> [pc: {"none", "waiting", "active", "done", "failed"}, stalls: Nat]]
  <2>1. CASE Take(m)
    BY <2>1 DEF Take, IInv, TypeOK
  <2>2. ASSUME NEW pc \in {"done", "failed"}, job' = [job EXCEPT ![m].pc = pc]
        PROVE  job' \in [Mention -> [pc: {"none", "waiting", "active", "done", "failed"}, stalls: Nat]]
    BY <2>2 DEF IInv, TypeOK
  <2>3. CASE ProcessMention(m) \/ ProcessFails(m)
    <3>1. \E pc \in {"done", "failed"} : job' = [job EXCEPT ![m].pc = pc]
      BY <2>3 DEF ProcessMention, ProcessFails
    <3> QED BY <2>2, <3>1
  <2>4. CASE Stall(m)
    BY <2>4 DEF Stall, IInv, TypeOK
  <2> QED BY <2>1, <2>3, <2>4 DEF Notify
<1>3. hurt' \subseteq Mention
  BY DEF Notify, Take, ProcessMention, ProcessFails, Stall, IInv, TypeOK
<1>4. TypeOK'
  BY <1>0, <1>1, <1>2, <1>3 DEF IInv, TypeOK, org
<1>5. ASSUME NEW d \in Call PROVE Sound(call[d])'
  <2>0. Sound(call[d]) /\ UNCHANGED <<member, teams, milestones, task, call>>
    BY <1>0 DEF IInv, org
  <2>1. Seen(call[d])' /\ Formed(call[d])' /\ MemberRead(call[d])'
    BY <2>0 DEF Sound, Seen, Formed, MemberRead
  <2>2. TaskRead(call[d])' /\ AssigneeRead(call[d])' /\ ColumnsRead(call[d])'
    BY <2>0 DEF Sound, TaskRead, AssigneeRead, ColumnsRead, Open
  <2> QED BY <2>1, <2>2 DEF Sound
<1> QED BY <1>4, <1>5 DEF IInv

LEMMA NextIInv == RequestsAreWishes /\ IInv /\ [Next]_vars => IInv'
<1> SUFFICES ASSUME RequestsAreWishes, IInv, [Next]_vars PROVE IInv'
  OBVIOUS
<1>1. ASSUME NEW c \in Call, ReadDetail(c) PROVE IInv'
  BY <1>1, Refusal DEF ReadDetail
<1>2. ASSUME NEW c \in Call, Request(c) PROVE IInv'
  BY <1>1, <1>2, Beginnings, LookupKeeps, WriteKeeps, CommentKeeps DEF Request, EditTask, Comment
<1>3. CASE UNCHANGED vars
  <2>0. UNCHANGED <<active, member, teams, milestones, task, call, event, job, hurt>>
    BY <1>3 DEF vars
  <2>1. TypeOK'
    BY <2>0 DEF IInv, TypeOK
  <2>2. ASSUME NEW d \in Call PROVE Sound(call[d])'
    <3>0. Sound(call[d])
      BY DEF IInv
    <3>1. Seen(call[d])' /\ Formed(call[d])' /\ MemberRead(call[d])'
      BY <2>0, <3>0 DEF Sound, Seen, Formed, MemberRead
    <3>2. TaskRead(call[d])' /\ AssigneeRead(call[d])' /\ ColumnsRead(call[d])'
      BY <2>0, <3>0 DEF Sound, TaskRead, AssigneeRead, ColumnsRead, Open
    <3> QED BY <3>1, <3>2 DEF Sound
  <2> QED BY <2>1, <2>2 DEF IInv
<1> QED BY <1>2, <1>3, OrganiseKeeps, NotifyKeeps DEF Next

\* Tasks, requests, events and jobs stay well typed: a request that is refused or
\* done leaves nothing of itself.
THEOREM TypeCorrect == ASSUME RequestsAreWishes PROVE Spec => []TypeOK
<1>1. IInv => TypeOK
  BY DEF IInv
<1> QED BY <1>1, InitIInv, NextIInv, PTL DEF Spec

-----------------------------------------------------------------------------
\* The conditions of a list request, one by one.
LEMMA AskedFor ==
  ASSUME NEW t, NEW query
  PROVE  Asked(t, query) <=>
            /\ task[t].state \in (IF query.deleted THEN {"open", "deleted"} ELSE {"open"})
            /\ query.search => t \in Matching
            /\ query.assignee # Keep => task[t].assignee = query.assignee
            /\ query.milestone # Keep => task[t].milestone = query.milestone
BY DEF Asked

LEMMA ListsAgree == RequestsAreWishes /\ TypeOK => ListedIffReadable
<1> SUFFICES ASSUME RequestsAreWishes, TypeOK, NEW u \in User, NEW query \in Queries
             PROVE  LET wanted == [query EXCEPT
                                     !.assignee = IF RoleOf[u] = "USER" THEN Keep ELSE @,
                                     !.search = @ /\ ~IsLead(u)]
                    IN {t \in Listed(u, query) : Open(t)} =
                          {t \in Task : Readable(u, t) /\ Asked(t, wanted)}
  BY DEF ListedIffReadable
<1> DEFINE wanted == [query EXCEPT !.assignee = IF RoleOf[u] = "USER" THEN Keep ELSE @,
                                   !.search = @ /\ ~IsLead(u)]
           left == Left(u, query)
<1>1. /\ query \in [search: BOOLEAN, deleted: BOOLEAN, assignee: User \cup {Keep},
                    milestone: Milestone \cup {Keep}]
      /\ RoleOf[u] \in {"SUPER_ADMIN", "TEAM_LEAD", "USER"} /\ None \notin User
  BY DEF RequestsAreWishes
<1>2. /\ wanted.deleted = query.deleted /\ wanted.milestone = query.milestone
      /\ wanted.search = (query.search /\ ~IsLead(u))
      /\ wanted.assignee = IF RoleOf[u] = "USER" THEN Keep ELSE query.assignee
  BY <1>1
<1>3. /\ left.deleted = query.deleted /\ left.milestone = query.milestone
      /\ left.search = (query.search /\ ~IsLead(u))
      /\ left.assignee = IF RoleOf[u] = "USER" THEN Keep ELSE query.assignee
  BY <1>1 DEF Left, IsLead
<1> HIDE DEF wanted, left
<1>4. ASSUME NEW t \in Task
      PROVE  t \in Listed(u, query) /\ Open(t) <=> Readable(u, t) /\ Asked(t, wanted)
  <2> DEFINE a == task[t].assignee
  <2>1. Asked(t, left) <=> Asked(t, wanted)
    BY <1>2, <1>3, AskedFor
  <2>2. a \in User \cup {None}
    BY DEF TypeOK, TaskRecord
  <2>3. Open(t) => (Visible(u, t) <=> Readable(u, t))
    <3>1. CASE RoleOf[u] = "SUPER_ADMIN"
      BY <3>1 DEF Visible, Readable, IsAdmin, IsLead
    <3>2. CASE RoleOf[u] = "USER"
      BY <3>2 DEF Visible, Readable, IsAdmin, IsLead
    <3>3. CASE RoleOf[u] = "TEAM_LEAD"
      <4>1. a # None => (a \in {v \in User : Shared(teams[u], teams[v])} <=> Shared(teams[u], teams[a]))
        BY <2>2
      <4>2. Visible(u, t) <=> /\ u \in member
                              /\ a = None \/ a \in {v \in User : Shared(teams[u], teams[v])}
        BY <3>3 DEF Visible, IsAdmin, IsLead
      <4> QED BY <1>1, <3>3, <4>1, <4>2 DEF Readable, IsAdmin, IsLead
    <3> QED BY <1>1, <3>1, <3>2, <3>3
  <2>4. t \in Listed(u, query) <=> Asked(t, left) /\ Visible(u, t)
    BY DEF Listed, left
  <2>5. Readable(u, t) => Open(t)
    BY DEF Readable
  <2> QED BY <2>1, <2>3, <2>4, <2>5
<1>5. Listed(u, query) \subseteq Task
  BY DEF Listed
<1> QED BY <1>4, <1>5 DEF wanted

LEMMA ReachHolds == RequestsAreWishes /\ IInv => WithinReach
<1> SUFFICES ASSUME RequestsAreWishes, IInv, NEW c \in Call
             PROVE  LET u == call[c].by
                        want == call[c].want
                        a == IF want.assignee = Keep THEN task[call[c].task].assignee
                             ELSE want.assignee
                    IN
                    /\ call[c].op \in {"create", "update"} /\ call[c].todo = {} =>
                        /\ IsLead(u) =>
                              /\ u \in call[c].wasMember
                              /\ want.assignee \in User =>
                                    Shared(call[c].hadTeams[u], call[c].hadTeams[want.assignee])
                        /\ call[c].calm =>
                              /\ IsLead(u) => u \in member /\ (a # None => Shared(teams[u], teams[a]))
                              /\ want.milestone \in Milestone => want.milestone \in milestones
                              /\ want.parent \in Task => Open(want.parent)
                    /\ call[c].op \in {"get", "comment"} /\ call[c].todo = {} /\ call[c].calm =>
                        Readable(u, call[c].task)
  BY DEF WithinReach
<1> DEFINE r == call[c]
           u == r.by
           want == r.want
           a == IF want.assignee = Keep THEN task[r.task].assignee ELSE want.assignee
<1>0. /\ Seen(r) /\ Formed(r) /\ MemberRead(r) /\ TaskRead(r) /\ AssigneeRead(r) /\ ColumnsRead(r)
      /\ u \in User /\ want.assignee \in User \cup {None, Keep}
      /\ RoleOf[u] \in {"SUPER_ADMIN", "TEAM_LEAD", "USER"}
  BY DEF IInv, Sound, TypeOK, CallRecord, Wish, RequestsAreWishes
<1>1. ASSUME r.op \in Looking, r.todo = {}
      PROVE  /\ IsLead(u) => u \in r.wasMember /\ (r.calm => u \in member)
             /\ IsLead(u) /\ want.assignee \in User =>
                   /\ Shared(r.hadTeams[u], r.hadTeams[want.assignee])
                   /\ r.calm => Shared(teams[u], teams[want.assignee])
             /\ r.calm /\ want.milestone \in Milestone => want.milestone \in milestones
             /\ r.calm /\ want.parent \in Task => Open(want.parent)
  BY <1>0, <1>1 DEF MemberRead, AssigneeRead, ColumnsRead
<1>2. ASSUME r.op \in Looking \ {"create"}, r.todo = {}, r.calm
      PROVE  /\ Open(r.task)
             /\ RoleOf[u] = "USER" => task[r.task].assignee = u
             /\ IsLead(u) /\ task[r.task].assignee # None =>
                   Shared(teams[u], teams[task[r.task].assignee])
  BY <1>0, <1>2 DEF TaskRead
<1>3. ASSUME r.op \in {"create", "update"}, r.todo = {}, r.calm, IsLead(u), a # None
      PROVE  Shared(teams[u], teams[a])
  <2>1. CASE want.assignee = Keep
    BY <1>0, <1>2, <1>3, <2>1 DEF Formed, Looking
  <2>2. CASE want.assignee # Keep
    BY <1>0, <1>1, <1>3, <2>2 DEF Looking
  <2> QED BY <2>1, <2>2
<1>4. ASSUME r.op \in {"get", "comment"}, r.todo = {}, r.calm
      PROVE  Readable(u, r.task)
  BY <1>0, <1>1, <1>2, <1>4 DEF Readable, IsAdmin, IsLead, Looking
<1> QED BY <1>1, <1>3, <1>4 DEF Looking

\* List and detail show the same tasks, whatever a request asks for; and the
\* checks of a request, though their statements are spread over time, keep a lead
\* from putting a task out of his own reach.
THEOREM TasksStayWithinReach ==
  ASSUME RequestsAreWishes PROVE Spec => []TasksWithinReach
<1>1. RequestsAreWishes /\ IInv => TasksWithinReach
  BY ListsAgree, ReachHolds DEF IInv, TasksWithinReach
<1> QED BY <1>1, InitIInv, NextIInv, PTL DEF Spec

-----------------------------------------------------------------------------
\* Only a request that has stored its comment has jobs to add, and it has
\* nothing to look up any more.
Queued ==
    \A c \in Call : /\ call[c].op # "queue" => call[c].queue = {}
                    /\ call[c].op \notin Looking => call[c].todo = {}

MInv == IInv /\ Queued /\ MentionsAccounted

\* A step that keeps what every request has still to add.
LEMMA QueuesKept ==
  ASSUME MInv, UNCHANGED <<event, job, hurt>>,
         \A c \in Call : \/ call[c].queue = {} /\ call'[c].queue = {}
                         \/ call'[c].queue = call[c].queue /\ call'[c].by = call[c].by
  PROVE  MentionsAccounted'
<1> SUFFICES ASSUME NEW m \in Mention, event[m] \in {"PENDING", "FAILED"}
             PROVE  \/ m \in hurt \/ job[m].pc \in {"waiting", "active"}
                    \/ \E c \in Call : call'[c].by = m[1] /\ m[2] \in call'[c].queue
  BY DEF MentionsAccounted
<1>1. \/ m \in hurt \/ job[m].pc \in {"waiting", "active"}
      \/ \E c \in Call : call[c].by = m[1] /\ m[2] \in call[c].queue
  BY DEF MInv, MentionsAccounted
<1> QED BY <1>1

LEMMA LookupQueues ==
  ASSUME MInv, NEW c \in Call, Lookup(c)
  PROVE  Queued' /\ MentionsAccounted'
<1>0. /\ call[c] \in CallRecord /\ call[c].queue = {} /\ call[c].op \in Looking
      /\ UNCHANGED <<event, job, hurt>>
  <2>1. \E item \in Item : item \in call[c].todo
    BY DEF Lookup, ReadTask, ReadAssignee, ReadMilestone, ReadParent, ReadMentioned, ReadMember,
           ReadTeams, Due, Item
  <2>2. call[c].todo # {}
    BY <2>1
  <2> QED BY <2>2 DEF MInv, Queued, Looking, Lookup, mail, IInv, TypeOK
<1>1. \/ Refused(c)
      \/ \E todo, theirs : call' = [call EXCEPT ![c].todo = todo, ![c].theirs = theirs]
      \/ \E todo : call' = [call EXCEPT ![c].todo = todo]
  BY <1>0 DEF Lookup, ReadTask, ReadAssignee, ReadMilestone, ReadParent, ReadMentioned, ReadMember,
         ReadTeams, Done
<1>2. Idle.queue = {} /\ Idle.todo = {} /\ Idle.op = "none"
  BY DEF Idle
<1>3. \A d \in Call \ {c} : call'[d] = call[d]
  BY <1>1 DEF Refused, MInv, IInv, TypeOK
<1>4. \/ call'[c] = Idle
      \/ call'[c].queue = {} /\ call'[c].op = call[c].op
  <2>0. call \in [Call -> CallRecord]
    BY DEF MInv, IInv, TypeOK
  <2>1. CASE Refused(c)
    BY <2>0, <2>1 DEF Refused
  <2>2. ASSUME NEW todo, NEW theirs, call' = [call EXCEPT ![c].todo = todo, ![c].theirs = theirs]
        PROVE  call'[c].queue = {} /\ call'[c].op = call[c].op
    BY <1>0, <2>0, <2>2 DEF CallRecord
  <2>3. ASSUME NEW todo, call' = [call EXCEPT ![c].todo = todo]
        PROVE  call'[c].queue = {} /\ call'[c].op = call[c].op
    BY <1>0, <2>0, <2>3 DEF CallRecord
  <2> QED BY <1>1, <2>1, <2>2, <2>3
<1>5. Queued'
  BY <1>0, <1>2, <1>3, <1>4 DEF MInv, Queued
<1> QED BY <1>0, <1>2, <1>3, <1>4, <1>5, QueuesKept

LEMMA EditQueues ==
  ASSUME RequestsAreWishes, MInv, NEW c \in Call,
         \/ ReadDetail(c) \/ Write(c)
         \/ \E op \in Looking, u \in User : \E t, want, mentioned, todo :
               Begin(c, op, u, t, want, mentioned, todo)
  PROVE  Queued' /\ MentionsAccounted'
<1>0. call \in [Call -> CallRecord] /\ Idle.queue = {} /\ Idle.todo = {} /\ Idle.op = "none"
  BY DEF Idle, MInv, IInv, TypeOK
<1>1. CASE ReadDetail(c)
  <2>1. /\ call[c].op = "get" /\ UNCHANGED <<event, job, hurt>> /\ call'[c] = Idle
        /\ \A d \in Call \ {c} : call'[d] = call[d]
    BY <1>0, <1>1 DEF ReadDetail, Refused, mail
  <2>2. call[c].queue = {}
    BY <2>1 DEF MInv, Queued
  <2>3. Queued'
    BY <1>0, <2>1 DEF MInv, Queued
  <2> QED BY <1>0, <2>1, <2>2, <2>3, QueuesKept
<1>2. CASE Write(c)
  <2>1. PICK t \in Task :
           call' = [d \in Call |->
                     IF d = c THEN Idle
                     ELSE IF call[d].task = t THEN [call[d] EXCEPT !.calm = FALSE] ELSE call[d]]
    BY <1>2 DEF Write
  <2>2. call'[c] = Idle /\ call[c].queue = {} /\ UNCHANGED <<event, job, hurt>>
    BY <1>2, <2>1 DEF Write, MInv, Queued, mail
  <2>3. ASSUME NEW d \in Call \ {c}
        PROVE  /\ call'[d].op = call[d].op /\ call'[d].by = call[d].by
               /\ call'[d].queue = call[d].queue /\ call'[d].todo = call[d].todo
    BY <1>0, <2>1 DEF CallRecord
  <2>4. Queued'
    BY <1>0, <2>2, <2>3 DEF MInv, Queued
  <2> QED BY <1>0, <2>2, <2>3, <2>4, QueuesKept
<1>3. ASSUME NEW op \in Looking, NEW u \in User, NEW t, NEW want, NEW mentioned, NEW todo,
             Begin(c, op, u, t, want, mentioned, todo)
      PROVE  Queued' /\ MentionsAccounted'
  <2>1. /\ call[c].op = "none" /\ UNCHANGED <<event, job, hurt>>
        /\ call'[c].op = op /\ call'[c].queue = {}
        /\ \A d \in Call \ {c} : call'[d] = call[d]
    BY <1>0, <1>3 DEF Begin, Idle, mail
  <2>2. call[c].queue = {}
    BY <2>1 DEF MInv, Queued
  <2>3. Queued'
    BY <2>1 DEF MInv, Queued, Looking
  <2> QED BY <2>1, <2>2, <2>3, QueuesKept
<1> QED BY <1>1, <1>2, <1>3

LEMMA CommentQueues ==
  ASSUME RequestsAreWishes, MInv, NEW c \in Call, StoreComment(c) \/ AddJob(c) \/ LoseCall(c)
  PROVE  Queued' /\ MentionsAccounted'
<1>0. /\ call \in [Call -> CallRecord] /\ call[c] \in CallRecord
      /\ Idle.queue = {} /\ Idle.todo = {} /\ Idle.op = "none"
  BY DEF Idle, MInv, IInv, TypeOK
<1>1. \A m \in Mention : event[m] \in {"PENDING", "FAILED"} =>
         \/ m \in hurt \/ job[m].pc \in {"waiting", "active"}
         \/ \E d \in Call : call[d].by = m[1] /\ m[2] \in call[d].queue
  BY DEF MInv, MentionsAccounted
<1>2. CASE StoreComment(c)
  <2> DEFINE notified == {u \in call[c].mentioned \ {call[c].by} : event[<<call[c].by, u>>] = "none"}
  <2>1. /\ call[c].op = "comment" /\ UNCHANGED <<job, hurt>>
        /\ event' = [m \in Mention |-> IF m[1] = call[c].by /\ m[2] \in notified
                                       THEN "PENDING" ELSE event[m]]
        /\ call' = [call EXCEPT ![c] =
              IF notified = {} THEN Idle
              ELSE [Idle EXCEPT !.op = "queue", !.by = call[c].by, !.queue = notified]]
    BY <1>2 DEF StoreComment
  <2> HIDE DEF notified
  <2>2. /\ \A d \in Call \ {c} : call'[d] = call[d]
        /\ call[c].queue = {}
    BY <1>0, <2>1 DEF MInv, Queued
  <2>3. IF notified = {} THEN call'[c] = Idle
        ELSE /\ call'[c].op = "queue" /\ call'[c].by = call[c].by
             /\ call'[c].queue = notified /\ call'[c].todo = {}
    BY <1>0, <2>1 DEF Idle
  <2>4. Queued'
    BY <1>0, <2>2, <2>3 DEF MInv, Queued
  <2>5. ASSUME NEW m \in Mention, event'[m] \in {"PENDING", "FAILED"}
        PROVE  \/ m \in hurt' \/ job'[m].pc \in {"waiting", "active"}
               \/ \E d \in Call : call'[d].by = m[1] /\ m[2] \in call'[d].queue
    <3>1. CASE m[1] = call[c].by /\ m[2] \in notified
      BY <2>3, <3>1
    <3>2. CASE ~(m[1] = call[c].by /\ m[2] \in notified)
      <4>1. event[m] \in {"PENDING", "FAILED"}
        BY <2>1, <2>5, <3>2
      <4> QED BY <1>1, <2>1, <2>2, <4>1
    <3> QED BY <3>1, <3>2
  <2> QED BY <2>4, <2>5 DEF MentionsAccounted
<1>3. CASE AddJob(c)
  <2>1. PICK u \in call[c].queue :
           /\ job' = [job EXCEPT ![<<call[c].by, u>>].pc = "waiting"]
           /\ IF Without(call[c].queue, u) = {} THEN call' = [call EXCEPT ![c] = Idle]
              ELSE call' = [call EXCEPT ![c].queue = Without(call[c].queue, u)]
    BY <1>3 DEF AddJob, Refused
  <2>2. /\ call[c].op = "queue" /\ UNCHANGED <<event, hurt>>
        /\ <<call[c].by, u>> \in Mention /\ call[c].todo = {}
    BY <1>0, <1>3 DEF AddJob, CallRecord, Mention, MInv, Queued, Looking
  <2>3. /\ \A d \in Call \ {c} : call'[d] = call[d]
        /\ IF call[c].queue \ {u} = {} THEN call'[c] = Idle
           ELSE /\ call'[c].op = "queue" /\ call'[c].by = call[c].by
                /\ call'[c].queue = call[c].queue \ {u} /\ call'[c].todo = {}
    BY <1>0, <2>1, <2>2 DEF Without, CallRecord
  <2>4. Queued'
    BY <1>0, <2>3 DEF MInv, Queued
  <2>5. job'[<<call[c].by, u>>].pc = "waiting" /\ \A m \in Mention \ {<<call[c].by, u>>} : job'[m] = job[m]
    BY <2>1, <2>2 DEF MInv, IInv, TypeOK
  <2>6. ASSUME NEW m \in Mention, event[m] \in {"PENDING", "FAILED"}
        PROVE  \/ m \in hurt \/ job'[m].pc \in {"waiting", "active"}
               \/ \E d \in Call : call'[d].by = m[1] /\ m[2] \in call'[d].queue
    <3>1. CASE m = <<call[c].by, u>>
      BY <2>5, <3>1
    <3>2. CASE m # <<call[c].by, u>>
      <4>1. ASSUME call[c].by = m[1], m[2] \in call[c].queue
            PROVE  call'[c].by = m[1] /\ m[2] \in call'[c].queue
        <5>1. m = <<m[1], m[2]>>
          BY DEF Mention
        <5>2. m[2] \in call[c].queue \ {u}
          BY <3>2, <4>1, <5>1
        <5> QED BY <2>3, <4>1, <5>2
      <4> QED BY <1>1, <2>3, <2>5, <2>6, <3>2, <4>1
    <3> QED BY <3>1, <3>2
  <2> QED BY <2>2, <2>4, <2>6 DEF MentionsAccounted
<1>4. CASE LoseCall(c)
  <2>1. /\ call'[c] = Idle /\ \A d \in Call \ {c} : call'[d] = call[d]
        /\ hurt' = hurt \cup {<<call[c].by, u>> : u \in call[c].queue}
        /\ UNCHANGED <<event, job>>
    BY <1>0, <1>4 DEF LoseCall, Refused
  <2>2. Queued'
    BY <1>0, <2>1 DEF MInv, Queued
  <2>3. ASSUME NEW m \in Mention, event[m] \in {"PENDING", "FAILED"}
        PROVE  \/ m \in hurt' \/ job[m].pc \in {"waiting", "active"}
               \/ \E d \in Call : call'[d].by = m[1] /\ m[2] \in call'[d].queue
    <3>1. m = <<m[1], m[2]>>
      BY DEF Mention
    <3>2. call[c].by = m[1] /\ m[2] \in call[c].queue => m \in hurt'
      BY <2>1, <3>1
    <3> QED BY <1>1, <2>1, <2>3, <3>2
  <2> QED BY <2>1, <2>2, <2>3 DEF MentionsAccounted
<1> QED BY <1>2, <1>3, <1>4

LEMMA NotifyQueues ==
  ASSUME MInv, NEW n \in Mention, Notify(n)
  PROVE  Queued' /\ MentionsAccounted'
<1>0. call' = call
  BY DEF Notify, Take, ProcessMention, ProcessFails, Stall
<1>1. Queued'
  BY <1>0 DEF MInv, Queued
<1>2. /\ event' \in {event, [event EXCEPT ![n] = "SENT"], [event EXCEPT ![n] = "FAILED"]}
      /\ \A m \in Mention \ {n} : job'[m] = job[m] /\ event'[m] = event[m]
      /\ hurt \subseteq hurt'
      /\ n \in hurt' \/ event'[n] = "SENT" \/ (event' = event /\ job'[n].pc = "active")
  BY DEF Notify, Take, ProcessMention, ProcessFails, Stall, MInv, IInv, TypeOK
<1> QED BY <1>0, <1>1, <1>2 DEF MInv, MentionsAccounted

LEMMA OrganiseQueues ==
  ASSUME MInv, Organise
  PROVE  Queued' /\ MentionsAccounted'
<1>0. Witnessed /\ UNCHANGED <<event, job, hurt>>
  BY DEF Organise, AddProjectMember, DeleteUser, ChangeTeam, DeleteMilestone, DeleteTask, mail
<1>1. ASSUME NEW c \in Call
      PROVE  /\ call'[c].op = call[c].op /\ call'[c].by = call[c].by
             /\ call'[c].queue = call[c].queue /\ call'[c].todo = call[c].todo
  <2>1. call[c] \in CallRecord
    BY DEF MInv, IInv, TypeOK
  <2> QED BY <1>0, <2>1 DEF Witnessed, CallRecord
<1>2. Queued'
  BY <1>1 DEF MInv, Queued
<1> QED BY <1>0, <1>1, <1>2, QueuesKept

LEMMA NextMInv == RequestsAreWishes /\ MInv /\ [Next]_vars => MInv'
<1> SUFFICES ASSUME RequestsAreWishes, MInv, [Next]_vars PROVE Queued' /\ MentionsAccounted'
  BY NextIInv DEF MInv
<1>1. ASSUME NEW c \in Call, EditTask(c) PROVE Queued' /\ MentionsAccounted'
  BY <1>1, EditQueues DEF EditTask, BeginUpdate, BeginCreate, BeginGet, Looking
<1>2. ASSUME NEW c \in Call, Comment(c) PROVE Queued' /\ MentionsAccounted'
  BY <1>2, EditQueues, CommentQueues DEF Comment, BeginComment, Looking
<1>3. ASSUME NEW c \in Call, Request(c) PROVE Queued' /\ MentionsAccounted'
  BY <1>1, <1>2, <1>3, LookupQueues, CommentQueues DEF Request
<1>4. CASE UNCHANGED vars
  BY <1>4 DEF vars, MInv, Queued, MentionsAccounted
<1> QED BY <1>3, <1>4, NotifyQueues, OrganiseQueues DEF Next

\* No mention is lost without a failure, though its job is added only after its
\* event is stored.
THEOREM MentionsStayAccounted ==
  ASSUME RequestsAreWishes PROVE Spec => []MentionsAccounted
<1>1. RequestsAreWishes /\ Init => MInv
  <2> SUFFICES ASSUME RequestsAreWishes, Init PROVE Queued /\ MentionsAccounted
    BY InitIInv DEF MInv
  <2> QED BY DEF Init, Idle, Queued, MentionsAccounted
<1>2. MInv => MentionsAccounted
  BY DEF MInv
<1> QED BY <1>1, <1>2, NextMInv, PTL DEF Spec

-----------------------------------------------------------------------------
(***************************************************************************)
(* The assistant.  An answer that misses a change of the documents is one  *)
(* the change has marked, or is about to be deleted from Redis             *)
(* (DocumentsFollowed); an answer kept tells how its tools fared           *)
(* (AnswersReplayable); and a question whose answer could always be found  *)
(* has one chat at work on it, or none and its answer in Redis             *)
(* (OneAtWork).                                                            *)
(***************************************************************************)
\* A chat knows of no change that has not been followed up, and one that has
\* searched is marked with the changes its answer misses, ...
Searched == {"rows", "answer", "persist", "remember", "share"}
FollowedBy(c) ==
    /\ chat[c].knew \subseteq settled
    /\ chat[c].pc = "tools" => chat[c].answer.rag = chat[c].plan.rag
    /\ \A d \in Document :
         chat[c].pc \in Searched /\ Stale(chat[c].answer, d) => d \in chat[c].answer.over
    /\ \A d \in Document :
         chat[c].pc = "replied" /\ d \in chat[c].knew /\ Stale(chat[c].answer, d)
           => chat[c].hit = "memory" \/ d \in chat[c].answer.over

\* ... as is one in Redis with those that have been followed up, or else it is
\* about to be deleted by those that are.
SharedFollowed ==
    /\ \A q \in Question, d \in settled : Stale(shared[q], d) => d \in shared[q].over
    /\ \A e \in Editors, q \in Question, d \in Document :
         edit[e].pc = "del" /\ d \in edit[e].clears /\ Stale(shared[q], d)
           => q \in edit[e].listed \/ d \in shared[q].over

DocumentsFollowed == SharedFollowed /\ \A c \in Chats : FollowedBy(c)

\* An answer whose status can be told from its confidence, and tells its tools' outcome.
Replayable(answer) ==
    /\ answer.status = IF answer.confidence >= Threshold THEN "COMPLETED" ELSE "FALLBACK"
    /\ answer.status = "COMPLETED" => \A i \in DOMAIN answer.ran : answer.ran[i].success
AnswersReplayable ==
    /\ \A p \in Process, q \in Question : memory[p][q] = NoAnswer \/ Replayable(memory[p][q])
    /\ \A q \in Question : shared[q] = NoAnswer \/ Replayable(shared[q])
    /\ \A c \in Chats : chat[c].pc \in {"persist", "remember", "share", "replied"} =>
         chat[c].status = chat[c].answer.status /\ Replayable(chat[c].answer)

\* A question whose answer could always be found has one chat at work on it at
\* most, before there is an answer in Redis.
OneAtWork ==
    \A q \in Question \ forgotten :
      /\ \A c, o \in WorkingOn(q) : c = o
      /\ \A c \in WorkingOn(q) : shared[q] = NoAnswer /\ effects[q] = Effects(chat[c].answer.ran)
      /\ WorkingOn(q) = {} => effects[q] = Effects(shared[q].ran)

\* A chat has called no tool before it has a plan.
NothingRun == \A c \in Chats : chat[c].pc \in {"memory", "shared", "plan"} => chat[c].answer = NoAnswer

ChatIInv ==
    /\ ChatTypeOK /\ DocumentsFollowed /\ AnswersReplayable
    /\ EffectsRecorded /\ OneAtWork /\ NothingRun

-----------------------------------------------------------------------------
(* Types.                                                                    *)

LEMMA ChatRecordsTyped ==
  /\ NoPlan \in PlanRecord /\ [NoPlan EXCEPT !.confidence = 30] \in PlanRecord
  /\ NoAnswer \in AnswerRecord /\ NoChat \in ChatRecord /\ NoEdit \in EditRecord
  /\ NoChat.pc = "idle" /\ NoEdit.pc = "idle" /\ NoAnswer.ran = <<>>
<1>1. NoPlan \in PlanRecord /\ [NoPlan EXCEPT !.confidence = 30] \in PlanRecord
  <2>1. <<>> \in Seq(Tool)
    OBVIOUS
  <2>2. NoPlan \in PlanRecord
    BY <2>1 DEF NoPlan, PlanRecord
  <2>3. \A plan \in PlanRecord : [plan EXCEPT !.confidence = 30] \in PlanRecord
    BY DEF PlanRecord
  <2> QED BY <2>2, <2>3
<1>2. NoAnswer \in AnswerRecord
  BY DEF NoAnswer, AnswerRecord
<1>3. NoChat \in ChatRecord
  BY <1>1, <1>2 DEF NoChat, ChatRecord
<1>4. NoEdit \in EditRecord
  BY DEF NoEdit, EditRecord
<1> QED BY <1>1, <1>2, <1>3, <1>4 DEF NoChat, NoEdit, NoAnswer

LEMMA ChatInitTyped == ChatInit => ChatTypeOK
BY ChatAssumption, ChatRecordsTyped DEF ChatAssumption, ChatInit, ChatTypeOK

\* A chat moves on, and nothing but counters and histories with it.
LEMMA ChatMoves ==
  ASSUME ChatTypeOK, NEW c \in Chats, NEW k \in ChatRecord,
         k.pc # "idle" => k.on \in Process /\ k.asks \in Question,
         chat' = [chat EXCEPT ![c] = k]
  PROVE  /\ chat' \in [Chats -> ChatRecord]
         /\ \A o \in Chats : chat'[o].pc # "idle" => chat'[o].on \in Process /\ chat'[o].asks \in Question
BY DEF ChatTypeOK

\* What the first tool of a plan, and the rest of it, are.
LEMMA PlanShortened ==
  ASSUME NEW plan \in PlanRecord, plan.tools # <<>>
  PROVE  /\ Head(plan.tools) \in Tool
         /\ [plan EXCEPT !.tools = Tail(@)] \in PlanRecord
<1>1. plan.tools \in Seq(Tool)
  BY DEF PlanRecord
<1>2. Head(plan.tools) \in Tool /\ Tail(plan.tools) \in Seq(Tool)
  BY <1>1
<1> QED BY <1>2 DEF PlanRecord

\* A result is added to those of an answer.
LEMMA RanLonger ==
  ASSUME NEW answer \in AnswerRecord, NEW tool \in Tool, NEW done \in BOOLEAN
  PROVE  [answer EXCEPT !.ran = Append(@, [tool |-> tool, success |-> done])] \in AnswerRecord
<1>1. Append(answer.ran, [tool |-> tool, success |-> done]) \in Seq([tool: Tool, success: BOOLEAN])
  BY DEF AnswerRecord
<1> QED BY <1>1 DEF AnswerRecord

LEMMA ThereTyped == There \subseteq Document
BY DEF There

LEMMA ConcludedTyped ==
  ASSUME NEW k \in ChatRecord, NEW confidence \in 0..100, NEW safe \in BOOLEAN
  PROVE  /\ Concluded(k, confidence, safe) \in ChatRecord
         /\ Concluded(k, confidence, safe).on = k.on /\ Concluded(k, confidence, safe).asks = k.asks
<1>1. Capped(confidence) \in 0..100
  BY DEF Capped
<1>2. \A status \in {"FALLBACK", "COMPLETED"}, n \in 0..100 :
        [k.answer EXCEPT !.status = status, !.confidence = n] \in AnswerRecord
  BY DEF ChatRecord, AnswerRecord
<1> QED BY <1>1, <1>2 DEF Concluded, ChatRecord

LEMMA AskTyped == ASSUME ChatTypeOK, NEW c \in Chats, AskQuestion(c) PROVE ChatTypeOK'
<1>1. PICK p \in Process, q \in Question :
        chat' = [chat EXCEPT ![c] = [NoChat EXCEPT !.pc = "memory", !.on = p, !.asks = q,
                                                   !.knew = settled]]
  BY DEF AskQuestion
<1> DEFINE k == [NoChat EXCEPT !.pc = "memory", !.on = p, !.asks = q, !.knew = settled]
<1>2. k \in ChatRecord /\ k.on \in Process /\ k.asks \in Question
  BY ChatRecordsTyped DEF ChatRecord, ChatTypeOK
<1> HIDE DEF k
<1>3. chat' = [chat EXCEPT ![c] = k]
  BY <1>1 DEF k
<1> QED BY <1>2, <1>3, ChatMoves DEF AskQuestion, ChatTypeOK

LEMMA ReplayedTyped ==
  ASSUME NEW k \in ChatRecord, NEW answer \in AnswerRecord, NEW from \in {"memory", "shared"}
  PROVE  /\ Replayed(k, answer, from) \in ChatRecord
         /\ Replayed(k, answer, from).on = k.on /\ Replayed(k, answer, from).asks = k.asks
BY DEF Replayed, ChatRecord

LEMMA GetMemoryTyped == ASSUME ChatTypeOK, NEW c \in Chats, GetMemory(c) PROVE ChatTypeOK'
<1> DEFINE kept == memory[chat[c].on][chat[c].asks]
           k == IF kept # NoAnswer THEN Replayed(chat[c], kept, "memory")
                ELSE [chat[c] EXCEPT !.pc = "shared"]
<1>1. chat[c] \in ChatRecord /\ chat[c].on \in Process /\ chat[c].asks \in Question
  BY DEF GetMemory, ChatTypeOK
<1>2. kept \in AnswerRecord
  BY <1>1 DEF ChatTypeOK
<1>3. chat' = [chat EXCEPT ![c] = k]
  BY DEF GetMemory, ChatTypeOK
<1> HIDE DEF kept
<1>4. k \in ChatRecord /\ k.on \in Process /\ k.asks \in Question
  BY <1>1, <1>2, ReplayedTyped DEF ChatRecord
<1> HIDE DEF k
<1> QED BY <1>3, <1>4, ChatMoves DEF GetMemory, ChatTypeOK

LEMMA GetSharedTyped == ASSUME ChatTypeOK, NEW c \in Chats, GetShared(c) PROVE ChatTypeOK'
<1>1. chat[c] \in ChatRecord /\ chat[c].on \in Process /\ chat[c].asks \in Question
  BY DEF GetShared, ChatTypeOK
<1>2. shared[chat[c].asks] \in AnswerRecord
  BY <1>1 DEF ChatTypeOK
<1>3. PICK k \in {Replayed(chat[c], shared[chat[c].asks], "shared"), [chat[c] EXCEPT !.pc = "plan"]} :
        chat' = [chat EXCEPT ![c] = k]
  BY DEF GetShared
<1>4. k \in ChatRecord /\ k.on \in Process /\ k.asks \in Question
  BY <1>1, <1>2, ReplayedTyped DEF ChatRecord
<1>5. forgotten' \subseteq Question
  BY <1>1 DEF GetShared, ChatTypeOK
<1> QED BY <1>3, <1>4, <1>5, ChatMoves DEF GetShared, ChatTypeOK

LEMMA GeneratePlanTyped == ASSUME ChatTypeOK, NEW c \in Chats, GeneratePlan(c) PROVE ChatTypeOK'
<1>1. chat[c] \in ChatRecord /\ chat[c].on \in Process /\ chat[c].asks \in Question
  BY DEF GeneratePlan, ChatTypeOK
<1>2. PICK plan \in PlanRecord :
        chat' = [chat EXCEPT ![c] = [chat[c] EXCEPT !.pc = "tools", !.plan = plan,
                                                    !.answer.rag = plan.rag]]
  BY ChatAssumption, ChatRecordsTyped DEF ChatAssumption, GeneratePlan
<1>3. [chat[c].answer EXCEPT !.rag = plan.rag] \in AnswerRecord
  BY <1>1 DEF ChatRecord, AnswerRecord, PlanRecord
<1> DEFINE k == [chat[c] EXCEPT !.pc = "tools", !.plan = plan, !.answer.rag = plan.rag]
<1>4. k \in ChatRecord /\ k.on \in Process /\ k.asks \in Question
  BY <1>1, <1>3 DEF ChatRecord
<1> HIDE DEF k
<1>5. chat' = [chat EXCEPT ![c] = k]
  BY <1>2 DEF k
<1> QED BY <1>4, <1>5, ChatMoves DEF GeneratePlan, ChatTypeOK

LEMMA ExecuteToolTyped == ASSUME ChatTypeOK, NEW c \in Chats, ExecuteTool(c) PROVE ChatTypeOK'
<1> DEFINE tool == Head(chat[c].plan.tools)
           q == chat[c].asks
<1>1. chat[c] \in ChatRecord /\ chat[c].on \in Process /\ q \in Question
  BY DEF ExecuteTool, ChatTypeOK
<1>2. PICK done \in BOOLEAN :
        /\ done /\ tool \in Writes => effects[q] < MaxEffects
        /\ chat' = [chat EXCEPT ![c] =
              [chat[c] EXCEPT !.plan.tools = Tail(@),
                              !.answer.ran = Append(@, [tool |-> tool, success |-> done])]]
        /\ effects' = IF done /\ tool \in Writes THEN [effects EXCEPT ![q] = @ + 1] ELSE effects
  BY DEF ExecuteTool
<1>3. chat[c].plan \in PlanRecord /\ chat[c].answer \in AnswerRecord
  BY <1>1 DEF ChatRecord
<1>4. tool \in Tool /\ [chat[c].plan EXCEPT !.tools = Tail(@)] \in PlanRecord
  BY <1>3, PlanShortened DEF ExecuteTool
<1>5. [chat[c].answer EXCEPT !.ran = Append(@, [tool |-> tool, success |-> done])] \in AnswerRecord
  BY <1>3, <1>4, RanLonger
<1> DEFINE k == [chat[c] EXCEPT !.plan.tools = Tail(@),
                                !.answer.ran = Append(@, [tool |-> tool, success |-> done])]
<1>6. k \in ChatRecord /\ k.on \in Process /\ k.asks \in Question
  BY <1>1, <1>4, <1>5 DEF ChatRecord
<1> HIDE DEF k
<1>7. chat' = [chat EXCEPT ![c] = k]
  BY <1>2 DEF k
<1>8. effects' \in [Question -> 0..MaxEffects]
  BY <1>1, <1>2, ChatAssumption DEF ChatAssumption, ChatTypeOK
<1> QED BY <1>6, <1>7, <1>8, ChatMoves DEF ExecuteTool, ChatTypeOK

LEMMA SearchTyped ==
  ASSUME ChatTypeOK, NEW c \in Chats, SearchIds(c) \/ SearchRows(c)
  PROVE  ChatTypeOK'
<1>1. chat[c] \in ChatRecord /\ chat[c].on \in Process /\ chat[c].asks \in Question
  BY DEF SearchIds, SearchRows, ChatTypeOK
<1>2. PICK pc \in {"rows", "answer"}, read \in SUBSET Document :
        chat' = [chat EXCEPT ![c] = [chat[c] EXCEPT !.pc = pc, !.answer.read = read]]
  <2>1. chat[c].answer.read \subseteq Document
    BY <1>1 DEF ChatRecord, AnswerRecord
  <2>2. CASE SearchIds(c)
    BY <2>2, ThereTyped DEF SearchIds
  <2>3. CASE SearchRows(c)
    <3>1. (IF chat[c].answer.read = {} THEN There ELSE chat[c].answer.read) \in SUBSET Document
      BY <2>1, ThereTyped
    <3>2. chat' = [chat EXCEPT ![c] = [chat[c] EXCEPT !.pc = "answer",
                     !.answer.read = IF chat[c].answer.read = {} THEN There ELSE chat[c].answer.read]]
      BY <2>3 DEF SearchRows
    <3> QED BY <3>1, <3>2
  <2> QED BY <2>2, <2>3
<1>3. [chat[c].answer EXCEPT !.read = read] \in AnswerRecord
  BY <1>1 DEF ChatRecord, AnswerRecord
<1> DEFINE k == [chat[c] EXCEPT !.pc = pc, !.answer.read = read]
<1>4. k \in ChatRecord /\ k.on \in Process /\ k.asks \in Question
  BY <1>1, <1>3 DEF ChatRecord
<1> HIDE DEF k
<1>5. chat' = [chat EXCEPT ![c] = k]
  BY <1>2 DEF k
<1> QED BY <1>4, <1>5, ChatMoves DEF SearchIds, SearchRows, ChatTypeOK

\* The lower of two confidences is a confidence.
LEMMA GenerateAnswerKnown ==
  ASSUME ChatTypeOK, NEW c \in Chats, GenerateAnswer(c)
  PROVE  \E least \in 0..100, safe \in BOOLEAN :
           chat' = [chat EXCEPT ![c] = Concluded(chat[c], least, safe)]
<1>1. chat[c].plan.confidence \in 0..100
  BY DEF ChatTypeOK, ChatRecord, PlanRecord
<1> QED BY <1>1, ChatAssumption DEF ChatAssumption, GenerateAnswer

LEMMA GenerateAnswerTyped == ASSUME ChatTypeOK, NEW c \in Chats, GenerateAnswer(c) PROVE ChatTypeOK'
<1>1. chat[c] \in ChatRecord /\ chat[c].on \in Process /\ chat[c].asks \in Question
  BY DEF GenerateAnswer, ChatTypeOK
<1>2. PICK least \in 0..100, safe \in BOOLEAN :
        chat' = [chat EXCEPT ![c] = Concluded(chat[c], least, safe)]
  BY GenerateAnswerKnown
<1> DEFINE k == Concluded(chat[c], least, safe)
<1>3. k \in ChatRecord /\ k.on \in Process /\ k.asks \in Question
  BY <1>1, ConcludedTyped
<1>4. chat' = [chat EXCEPT ![c] = k]
  BY <1>2
<1> HIDE DEF k
<1> QED BY <1>3, <1>4, ChatMoves DEF GenerateAnswer, ChatTypeOK

\* The effects of an answer are finitely many calls of it.
LEMMA ActedFinite ==
  ASSUME NEW ran \in Seq([tool: Tool, success: BOOLEAN])
  PROVE  IsFiniteSet(Acted(ran)) /\ Effects(ran) \in Nat
<1>1. IsFiniteSet(1..Len(ran))
  BY FS_Interval
<1>2. IsFiniteSet(Acted(ran))
  BY <1>1, FS_Subset DEF Acted
<1> QED BY <1>2, FS_CardinalityType DEF Effects

LEMMA PersistTyped ==
  ASSUME ChatTypeOK, NEW c \in Chats, PersistAssistantMessage(c)
  PROVE  ChatTypeOK'
<1>1. chat[c] \in ChatRecord /\ chat[c].on \in Process /\ chat[c].asks \in Question
  BY DEF PersistAssistantMessage, ChatTypeOK
<1> DEFINE k == [chat[c] EXCEPT !.pc = "remember"]
<1>2. k \in ChatRecord /\ k.on \in Process /\ k.asks \in Question
  BY <1>1 DEF ChatRecord
<1> HIDE DEF k
<1>3. chat' = [chat EXCEPT ![c] = k]
  BY DEF k, PersistAssistantMessage
<1>4. Effects(chat[c].answer.ran) \in Nat
  BY <1>1, ActedFinite DEF ChatRecord, AnswerRecord
<1>5. rows' \in [Question -> Nat]
  BY <1>1, <1>4 DEF PersistAssistantMessage, ChatTypeOK
<1> QED BY <1>2, <1>3, <1>5, ChatMoves DEF PersistAssistantMessage, ChatTypeOK

LEMMA SetMemoryTyped == ASSUME ChatTypeOK, NEW c \in Chats, SetMemory(c) PROVE ChatTypeOK'
<1>1. chat[c] \in ChatRecord /\ chat[c].on \in Process /\ chat[c].asks \in Question
  BY DEF SetMemory, ChatTypeOK
<1> DEFINE k == [chat[c] EXCEPT !.pc = "share"]
<1>2. k \in ChatRecord /\ k.on \in Process /\ k.asks \in Question
  BY <1>1 DEF ChatRecord
<1> HIDE DEF k
<1>3. chat' = [chat EXCEPT ![c] = k]
  BY DEF k, SetMemory
<1>4. chat[c].answer \in AnswerRecord
  BY <1>1 DEF ChatRecord
<1>5. memory' \in [Process -> [Question -> AnswerRecord]]
  BY <1>1, <1>4 DEF SetMemory, ChatTypeOK
<1> QED BY <1>2, <1>3, <1>5, ChatMoves DEF SetMemory, ChatTypeOK

LEMMA SetSharedTyped == ASSUME ChatTypeOK, NEW c \in Chats, SetShared(c) PROVE ChatTypeOK'
<1>1. chat[c] \in ChatRecord /\ chat[c].on \in Process /\ chat[c].asks \in Question
  BY DEF SetShared, ChatTypeOK
<1> DEFINE k == [chat[c] EXCEPT !.pc = "replied", !.hit = "none"]
<1>2. k \in ChatRecord /\ k.on \in Process /\ k.asks \in Question
  BY <1>1 DEF ChatRecord
<1> HIDE DEF k
<1>3. chat' = [chat EXCEPT ![c] = k]
  BY DEF k, SetShared
<1>4. chat[c].answer \in AnswerRecord
  BY <1>1 DEF ChatRecord
<1>5. shared' \in [Question -> AnswerRecord] /\ forgotten' \subseteq Question
  BY <1>1, <1>4 DEF SetShared, ChatTypeOK
<1> QED BY <1>2, <1>3, <1>5, ChatMoves DEF SetShared, ChatTypeOK

LEMMA EndTyped ==
  ASSUME ChatTypeOK, NEW c \in Chats, GiveReply(c) \/ LoseChat(c)
  PROVE  ChatTypeOK'
<1>1. chat[c] \in ChatRecord /\ chat[c].asks \in Question
  BY DEF GiveReply, LoseChat, ChatTypeOK
<1>2. chat' = [chat EXCEPT ![c] = NoChat]
  BY DEF GiveReply, LoseChat, Free
<1>3. Effects(chat[c].answer.ran) \in Nat
  BY <1>1, ActedFinite DEF ChatRecord, AnswerRecord
<1>4. lost' \in [Question -> Nat] /\ forgotten' \subseteq Question
  BY <1>1, <1>3 DEF GiveReply, LoseChat, ChatTypeOK
<1> QED BY <1>2, <1>4, ChatMoves, ChatRecordsTyped DEF GiveReply, LoseChat, ChatTypeOK

LEMMA ExpireTyped == ASSUME ChatTypeOK, Expire PROVE ChatTypeOK'
<1>1. PICK q \in Question :
        /\ forgotten' = forgotten \cup {q}
        /\ \/ shared' = [shared EXCEPT ![q] = NoAnswer] /\ UNCHANGED memory
           \/ \E p \in Process : memory' = [memory EXCEPT ![p][q] = NoAnswer] /\ UNCHANGED shared
  BY DEF Expire
<1>2. forgotten' \subseteq Question /\ shared' \in [Question -> AnswerRecord]
  BY <1>1, ChatRecordsTyped DEF ChatTypeOK
<1>3. memory' \in [Process -> [Question -> AnswerRecord]]
  <2>1. CASE UNCHANGED memory
    BY <2>1 DEF ChatTypeOK
  <2>2. CASE \E p \in Process : memory' = [memory EXCEPT ![p][q] = NoAnswer]
    BY <2>2, ChatRecordsTyped DEF ChatTypeOK
  <2> QED BY <1>1, <2>1, <2>2
<1> QED BY <1>2, <1>3 DEF Expire, ChatTypeOK

\* A change of a document marks the chats it overtakes.
LEMMA ChangedTyped ==
  ASSUME ChatTypeOK, NEW d \in Document, NEW to \in {"there", "deleted"}, Changed(d, to)
  PROVE  /\ document' \in [Document -> {"absent", "there", "deleted"}] /\ settled' \subseteq Document
         /\ chat' \in [Chats -> ChatRecord]
         /\ \A c \in Chats : chat'[c].pc = chat[c].pc /\ chat'[c].on = chat[c].on /\ chat'[c].asks = chat[c].asks
<1>1. ASSUME NEW c \in Chats
      PROVE  /\ chat'[c] \in ChatRecord /\ chat'[c].pc = chat[c].pc
             /\ chat'[c].on = chat[c].on /\ chat'[c].asks = chat[c].asks
  <2>1. chat[c] \in ChatRecord /\ chat[c].answer \in AnswerRecord
    BY DEF ChatTypeOK, ChatRecord
  <2>2. [chat[c].answer EXCEPT !.over = @ \cup {d}] \in AnswerRecord
    BY <2>1 DEF AnswerRecord
  <2>3. chat'[c] = IF chat[c].pc \in {"rows", "answer", "persist", "remember", "share"}
                   THEN [chat[c] EXCEPT !.answer = [chat[c].answer EXCEPT !.over = @ \cup {d}],
                                        !.knew = @ \ {d}]
                   ELSE [chat[c] EXCEPT !.knew = @ \ {d}]
    BY <2>1 DEF Changed, ChatRecord
  <2>4. [chat[c] EXCEPT !.knew = @ \ {d}] \in ChatRecord
    BY <2>1 DEF ChatRecord
  <2>5. [chat[c] EXCEPT !.answer = [chat[c].answer EXCEPT !.over = @ \cup {d}],
                        !.knew = @ \ {d}] \in ChatRecord
    BY <2>1, <2>2 DEF ChatRecord
  <2> QED BY <2>1, <2>3, <2>4, <2>5 DEF ChatRecord
<1>2. DOMAIN chat' = Chats /\ chat' = [c \in Chats |-> chat'[c]]
  BY DEF Changed
<1> QED BY <1>1, <1>2 DEF Changed, ChatTypeOK

\* The changes under way forget what one of them changes.
LEMMA EditsTyped ==
  ASSUME ChatTypeOK, NEW e \in Editors, NEW d \in Document, NEW own \in EditRecord,
         own.pc # "delete",
         edit' = [o \in Editors |-> IF o = e THEN own ELSE [edit[o] EXCEPT !.clears = @ \ {d}]]
  PROVE  /\ edit' \in [Editors -> EditRecord]
         /\ \A o \in Editors : edit'[o].pc = "delete" => edit'[o].doc \in Document
<1>1. \A k \in EditRecord : /\ [k EXCEPT !.clears = @ \ {d}] \in EditRecord
                            /\ [k EXCEPT !.clears = @ \ {d}].pc = k.pc
                            /\ [k EXCEPT !.clears = @ \ {d}].doc = k.doc
  BY DEF EditRecord
<1> QED BY <1>1 DEF ChatTypeOK

LEMMA CreateDocumentTyped == ASSUME ChatTypeOK, NEW e \in Editors, CreateDocument(e) PROVE ChatTypeOK'
<1>1. PICK d \in Document :
        /\ Changed(d, "there")
        /\ edit' = [o \in Editors |-> IF o = e THEN [NoEdit EXCEPT !.pc = "keys", !.doc = d]
                                     ELSE [edit[o] EXCEPT !.clears = @ \ {d}]]
  BY DEF CreateDocument
<1> DEFINE own == [NoEdit EXCEPT !.pc = "keys", !.doc = d]
<1>2. own \in EditRecord /\ own.pc # "delete"
  BY ChatRecordsTyped DEF EditRecord
<1> HIDE DEF own
<1>3. edit' = [o \in Editors |-> IF o = e THEN own ELSE [edit[o] EXCEPT !.clears = @ \ {d}]]
  BY <1>1 DEF own
<1>4. /\ edit' \in [Editors -> EditRecord]
      /\ \A o \in Editors : edit'[o].pc = "delete" => edit'[o].doc \in Document
  BY <1>2, <1>3, EditsTyped
<1> QED BY <1>1, <1>4, ChangedTyped DEF CreateDocument, ChatTypeOK

LEMMA FindDocumentTyped == ASSUME ChatTypeOK, NEW e \in Editors, FindDocument(e) PROVE ChatTypeOK'
<1>1. PICK d \in There : edit' = [edit EXCEPT ![e] = [NoEdit EXCEPT !.pc = "delete", !.doc = d]]
  BY DEF FindDocument
<1>2. [NoEdit EXCEPT !.pc = "delete", !.doc = d] \in EditRecord /\ d \in Document
      /\ [NoEdit EXCEPT !.pc = "delete", !.doc = d].doc = d
  BY ChatRecordsTyped, ThereTyped DEF EditRecord
<1> QED BY <1>1, <1>2 DEF FindDocument, ChatTypeOK

LEMMA DeleteDocumentTyped == ASSUME ChatTypeOK, NEW e \in Editors, DeleteDocument(e) PROVE ChatTypeOK'
<1> DEFINE d == edit[e].doc
           own == [edit[e] EXCEPT !.pc = "keys"]
<1>1. d \in Document /\ edit[e] \in EditRecord
  BY DEF DeleteDocument, ChatTypeOK
<1>2. own \in EditRecord /\ own.pc # "delete"
  BY <1>1 DEF EditRecord
<1> HIDE DEF own
<1>3. edit' = [o \in Editors |-> IF o = e THEN own ELSE [edit[o] EXCEPT !.clears = @ \ {d}]]
  BY DEF own, DeleteDocument
<1>4. Changed(d, "deleted")
  BY DEF DeleteDocument
<1> HIDE DEF d
<1>5. /\ edit' \in [Editors -> EditRecord]
      /\ \A o \in Editors : edit'[o].pc = "delete" => edit'[o].doc \in Document
  BY <1>1, <1>2, <1>3, EditsTyped
<1> QED BY <1>1, <1>4, <1>5, ChangedTyped DEF DeleteDocument, ChatTypeOK

LEMMA KeysTyped ==
  ASSUME ChatTypeOK, NEW e \in Editors, ListKeys(e) \/ DeleteKeys(e)
  PROVE  ChatTypeOK'
<1>1. edit[e] \in EditRecord /\ Cached \subseteq Question
  BY DEF ChatTypeOK, Cached
<1>2. [edit[e] EXCEPT !.pc = "del", !.clears = Document, !.listed = Cached] \in EditRecord
  BY <1>1 DEF EditRecord
<1>3. PICK k \in {[edit[e] EXCEPT !.pc = "del", !.clears = Document, !.listed = Cached], NoEdit} :
        edit' = [edit EXCEPT ![e] = k]
  BY DEF ListKeys, DeleteKeys
<1>4. k \in EditRecord /\ k.pc # "delete"
  BY <1>1, <1>2, ChatRecordsTyped DEF EditRecord
<1>5. /\ edit' \in [Editors -> EditRecord]
      /\ \A o \in Editors : edit'[o].pc = "delete" => edit'[o].doc \in Document
  BY <1>3, <1>4 DEF ChatTypeOK
<1>6. shared' \in [Question -> AnswerRecord] /\ forgotten' \subseteq Question /\ settled' \subseteq Document
  <2>1. edit[e].listed \subseteq Question /\ edit[e].clears \subseteq Document
    BY <1>1 DEF EditRecord
  <2> QED BY <2>1, ChatRecordsTyped DEF ListKeys, DeleteKeys, ChatTypeOK
<1> QED BY <1>5, <1>6 DEF ListKeys, DeleteKeys, ChatTypeOK

LEMMA ChatStepTyped == ASSUME ChatTypeOK, [ChatNext]_chatVars PROVE ChatTypeOK'
<1>1. CASE UNCHANGED chatVars
  BY <1>1 DEF chatVars, ChatTypeOK
<1>2. CASE ChatNext
  BY <1>2, AskTyped, GetMemoryTyped, GetSharedTyped, GeneratePlanTyped, ExecuteToolTyped, SearchTyped,
     GenerateAnswerTyped, PersistTyped, SetMemoryTyped, SetSharedTyped, EndTyped, ExpireTyped,
     CreateDocumentTyped, FindDocumentTyped, DeleteDocumentTyped, KeysTyped DEF ChatNext
<1> QED BY <1>1, <1>2

-----------------------------------------------------------------------------
(* What each step does to its chat.                                          *)

Others(c) == \A o \in Chats \ {c} : chat'[o] = chat[o]

\* The status a replayed answer is given.
StatusOf(answer) == IF answer.confidence >= Threshold THEN "COMPLETED" ELSE "FALLBACK"

LEMMA AskFacts ==
  ASSUME ChatTypeOK, NEW c \in Chats, AskQuestion(c)
  PROVE  /\ Others(c) /\ chat[c].pc = "idle"
         /\ chat'[c].pc = "memory" /\ chat'[c].answer = NoAnswer /\ chat'[c].knew = settled
         /\ UNCHANGED <<document, memory, shared, edit, rows, effects, lost, forgotten, settled>>
<1>1. PICK p \in Process, q \in Question :
        chat' = [chat EXCEPT ![c] = [NoChat EXCEPT !.pc = "memory", !.on = p, !.asks = q,
                                                   !.knew = settled]]
  BY DEF AskQuestion
<1>2. DOMAIN chat = Chats
  BY DEF ChatTypeOK
<1>3. /\ chat'[c].pc = "memory" /\ chat'[c].answer = NoAnswer /\ chat'[c].knew = settled
      /\ Others(c)
  BY <1>1, <1>2 DEF NoChat, Others
<1> QED BY <1>3 DEF AskQuestion

\* An answer is replayed.
Replays(c, answer, from) ==
    /\ answer # NoAnswer
    /\ chat'[c].pc = "replied" /\ chat'[c].answer = answer /\ chat'[c].hit = from
    /\ chat'[c].status = StatusOf(answer) /\ chat'[c].knew = chat[c].knew

LEMMA GetMemoryFacts ==
  ASSUME ChatTypeOK, NEW c \in Chats, GetMemory(c)
  PROVE  /\ Others(c) /\ chat[c].pc = "memory"
         /\ chat[c].on \in Process /\ chat[c].asks \in Question
         /\ \/ Replays(c, memory[chat[c].on][chat[c].asks], "memory")
            \/ /\ chat'[c].pc = "shared" /\ chat'[c].answer = chat[c].answer
               /\ chat'[c].knew = chat[c].knew
         /\ UNCHANGED <<document, memory, shared, edit, rows, effects, lost, forgotten, settled>>
<1> DEFINE kept == memory[chat[c].on][chat[c].asks]
<1>1. /\ chat' = [chat EXCEPT ![c] = IF kept # NoAnswer THEN Replayed(chat[c], kept, "memory")
                                     ELSE [chat[c] EXCEPT !.pc = "shared"]]
      /\ chat[c] \in ChatRecord /\ chat[c].on \in Process /\ chat[c].asks \in Question
  BY DEF GetMemory, ChatTypeOK
<1>2. DOMAIN chat = Chats
  BY DEF ChatTypeOK
<1> HIDE DEF kept
<1>3. CASE kept # NoAnswer
  <2>1. chat'[c] = Replayed(chat[c], kept, "memory")
    BY <1>1, <1>2, <1>3
  <2> QED BY <1>1, <1>2, <1>3, <2>1 DEF GetMemory, Others, Replays, Replayed, StatusOf, ChatRecord, kept
<1>4. CASE kept = NoAnswer
  BY <1>1, <1>2, <1>4 DEF GetMemory, Others, ChatRecord
<1> QED BY <1>3, <1>4

LEMMA GetSharedFacts ==
  ASSUME ChatTypeOK, NEW c \in Chats, GetShared(c)
  PROVE  /\ Others(c) /\ chat[c].pc = "shared" /\ chat[c].asks \in Question
         /\ \/ Replays(c, shared[chat[c].asks], "shared") /\ forgotten' = forgotten
            \/ /\ chat'[c].pc = "plan" /\ chat'[c].answer = chat[c].answer
               /\ chat'[c].knew = chat[c].knew /\ chat'[c].asks = chat[c].asks
               /\ forgotten \subseteq forgotten'
               /\ chat[c].asks \notin forgotten'
                    => shared[chat[c].asks] = NoAnswer /\ WorkingOn(chat[c].asks) = {}
         /\ UNCHANGED <<document, memory, shared, edit, rows, effects, lost, settled>>
<1> DEFINE q == chat[c].asks
<1>1. chat[c] \in ChatRecord /\ q \in Question /\ DOMAIN chat = Chats
  BY DEF GetShared, ChatTypeOK
<1>2. CASE /\ shared[q] # NoAnswer /\ forgotten' = forgotten
           /\ chat' = [chat EXCEPT ![c] = Replayed(chat[c], shared[q], "shared")]
  <2>1. chat'[c] = Replayed(chat[c], shared[q], "shared")
    BY <1>1, <1>2
  <2> QED BY <1>1, <1>2, <2>1 DEF GetShared, Others, Replays, Replayed, StatusOf, ChatRecord
<1>3. CASE /\ chat' = [chat EXCEPT ![c] = [chat[c] EXCEPT !.pc = "plan"]]
           /\ forgotten' = IF shared[q] # NoAnswer \/ WorkingOn(q) # {}
                           THEN forgotten \cup {q} ELSE forgotten
  BY <1>1, <1>3 DEF GetShared, Others, ChatRecord
<1> QED BY <1>2, <1>3 DEF GetShared

\* What steps at work on an answer keep.
KeptAtWork(c) ==
    /\ Others(c)
    /\ chat'[c].asks = chat[c].asks /\ chat'[c].knew = chat[c].knew
    /\ chat'[c].answer.over = chat[c].answer.over

LEMMA GeneratePlanFacts ==
  ASSUME ChatTypeOK, NEW c \in Chats, GeneratePlan(c)
  PROVE  /\ KeptAtWork(c) /\ chat[c].pc = "plan" /\ chat'[c].pc = "tools"
         /\ chat'[c].answer.rag = chat'[c].plan.rag /\ chat'[c].answer.ran = chat[c].answer.ran
         /\ UNCHANGED <<document, memory, shared, edit, rows, effects, lost, forgotten, settled>>
<1>1. PICK plan :
        chat' = [chat EXCEPT ![c] = [chat[c] EXCEPT !.pc = "tools", !.plan = plan,
                                                    !.answer.rag = plan.rag]]
  BY DEF GeneratePlan
<1>2. chat[c] \in ChatRecord /\ chat[c].answer \in AnswerRecord /\ DOMAIN chat = Chats
  BY DEF ChatTypeOK, ChatRecord
<1>3. /\ chat'[c].pc = "tools" /\ chat'[c].plan = plan /\ chat'[c].asks = chat[c].asks
      /\ chat'[c].knew = chat[c].knew /\ chat'[c].answer = [chat[c].answer EXCEPT !.rag = plan.rag]
  BY <1>1, <1>2 DEF ChatRecord
<1> QED BY <1>1, <1>2, <1>3 DEF GeneratePlan, KeptAtWork, Others, AnswerRecord

LEMMA ExecuteToolFacts ==
  ASSUME ChatTypeOK, NEW c \in Chats, ExecuteTool(c)
  PROVE  /\ KeptAtWork(c) /\ chat[c].pc = "tools" /\ chat'[c].pc = "tools"
         /\ chat[c].asks \in Question
         /\ chat'[c].answer.rag = chat[c].answer.rag /\ chat'[c].plan.rag = chat[c].plan.rag
         /\ \E tool \in Tool, done \in BOOLEAN :
              /\ chat'[c].answer.ran
                   = Append(chat[c].answer.ran, [tool |-> tool, success |-> done])
              /\ effects' = IF done /\ tool \in Writes
                            THEN [effects EXCEPT ![chat[c].asks] = @ + 1] ELSE effects
         /\ UNCHANGED <<document, memory, shared, edit, rows, lost, forgotten, settled>>
<1> DEFINE tool == Head(chat[c].plan.tools)
<1>1. PICK done \in BOOLEAN :
        /\ chat' = [chat EXCEPT ![c] =
              [chat[c] EXCEPT !.plan.tools = Tail(@),
                              !.answer.ran = Append(@, [tool |-> tool, success |-> done])]]
        /\ effects' = IF done /\ tool \in Writes
                      THEN [effects EXCEPT ![chat[c].asks] = @ + 1] ELSE effects
  BY DEF ExecuteTool
<1>2. /\ chat[c] \in ChatRecord /\ chat[c].answer \in AnswerRecord /\ chat[c].plan \in PlanRecord
      /\ chat[c].asks \in Question /\ DOMAIN chat = Chats
  BY DEF ExecuteTool, ChatTypeOK, ChatRecord
<1>3. tool \in Tool
  BY <1>2, PlanShortened DEF ExecuteTool
<1> HIDE DEF tool
<1>4. /\ chat'[c].pc = chat[c].pc /\ chat'[c].asks = chat[c].asks /\ chat'[c].knew = chat[c].knew
      /\ chat'[c].plan = [chat[c].plan EXCEPT !.tools = Tail(@)]
      /\ chat'[c].answer
           = [chat[c].answer EXCEPT !.ran = Append(@, [tool |-> tool, success |-> done])]
  BY <1>1, <1>2 DEF ChatRecord
<1>5. /\ chat'[c].answer.over = chat[c].answer.over /\ chat'[c].answer.rag = chat[c].answer.rag
      /\ chat'[c].answer.ran = Append(chat[c].answer.ran, [tool |-> tool, success |-> done])
      /\ chat'[c].plan.rag = chat[c].plan.rag
  BY <1>2, <1>4 DEF AnswerRecord, PlanRecord
<1>6. Others(c)
  BY <1>1, <1>2 DEF Others
<1> QED BY <1>1, <1>2, <1>3, <1>4, <1>5, <1>6 DEF ExecuteTool, KeptAtWork

LEMMA SearchFacts ==
  ASSUME ChatTypeOK, NEW c \in Chats, SearchIds(c) \/ SearchRows(c)
  PROVE  /\ KeptAtWork(c)
         /\ chat[c].pc \in {"tools", "rows"} /\ chat'[c].pc \in {"rows", "answer"}
         /\ chat'[c].answer.rag = chat[c].answer.rag /\ chat'[c].answer.ran = chat[c].answer.ran
         /\ \/ chat'[c].answer.read = There
            \/ chat[c].pc = "tools" /\ ~chat[c].plan.rag
            \/ chat[c].pc = "rows" /\ chat'[c].answer.read = chat[c].answer.read
         /\ UNCHANGED <<document, memory, shared, edit, rows, effects, lost, forgotten, settled>>
<1> DEFINE was == chat[c].answer.read
           read == IF SearchIds(c) THEN IF chat[c].plan.rag THEN There ELSE {}
                   ELSE IF was = {} THEN There ELSE was
           pc == IF SearchIds(c) /\ chat[c].plan.rag THEN "rows" ELSE "answer"
<1>1. chat' = [chat EXCEPT ![c] = [chat[c] EXCEPT !.pc = pc, !.answer.read = read]]
  <2>1. CASE SearchIds(c)
    BY <2>1 DEF SearchIds
  <2>2. CASE SearchRows(c) /\ ~SearchIds(c)
    BY <2>2 DEF SearchRows
  <2> QED BY <2>1, <2>2
<1>2. pc \in {"rows", "answer"}
  OBVIOUS
<1>3. \/ read = There
      \/ chat[c].pc = "tools" /\ ~chat[c].plan.rag
      \/ chat[c].pc = "rows" /\ read = was
  BY DEF SearchIds, SearchRows
<1>4. chat[c] \in ChatRecord /\ chat[c].answer \in AnswerRecord /\ DOMAIN chat = Chats
  BY DEF ChatTypeOK, ChatRecord
<1> HIDE DEF read, pc
<1>5. /\ chat'[c].pc = pc /\ chat'[c].asks = chat[c].asks /\ chat'[c].knew = chat[c].knew
      /\ chat'[c].answer = [chat[c].answer EXCEPT !.read = read]
  BY <1>1, <1>4 DEF ChatRecord
<1>6. /\ chat'[c].answer.over = chat[c].answer.over /\ chat'[c].answer.rag = chat[c].answer.rag
      /\ chat'[c].answer.ran = chat[c].answer.ran /\ chat'[c].answer.read = read
  BY <1>4, <1>5 DEF AnswerRecord
<1>7. Others(c)
  BY <1>1, <1>4 DEF Others
<1> QED BY <1>2, <1>3, <1>5, <1>6, <1>7 DEF SearchIds, SearchRows, KeptAtWork

\* An answer that is withheld keeps a confidence below the threshold.
LEMMA GenerateAnswerFacts ==
  ASSUME ChatTypeOK, NEW c \in Chats, GenerateAnswer(c)
  PROVE  /\ KeptAtWork(c) /\ chat[c].pc = "answer" /\ chat'[c].pc = "persist"
         /\ chat'[c].answer.rag = chat[c].answer.rag /\ chat'[c].answer.ran = chat[c].answer.ran
         /\ chat'[c].answer.read = chat[c].answer.read
         /\ chat'[c].status = chat'[c].answer.status /\ Replayable(chat'[c].answer)
         /\ UNCHANGED <<document, memory, shared, edit, rows, effects, lost, forgotten, settled>>
<1>1. PICK least \in 0..100, safe \in BOOLEAN :
        chat' = [chat EXCEPT ![c] = Concluded(chat[c], least, safe)]
  BY GenerateAnswerKnown
<1> DEFINE withheld == Withheld(chat[c], least, safe)
           status == IF withheld THEN "FALLBACK" ELSE "COMPLETED"
           confidence == IF withheld THEN Capped(least) ELSE least
           answer == [chat[c].answer EXCEPT !.status = status, !.confidence = confidence]
<1>2. chat[c] \in ChatRecord /\ chat[c].answer \in AnswerRecord /\ DOMAIN chat = Chats
  BY DEF ChatTypeOK, ChatRecord
<1>3. chat'[c] = [chat[c] EXCEPT !.pc = "persist", !.status = status, !.answer = answer]
  <2>1. chat'[c] = Concluded(chat[c], least, safe)
    BY <1>1, <1>2
  <2> QED BY <1>2, <2>1 DEF Concluded, ChatRecord
<1>4. confidence >= Threshold <=> ~withheld
  <2>1. withheld => Capped(least) < Threshold
    BY ChatAssumption DEF ChatAssumption, Capped
  <2>2. ~withheld => ~(least < Threshold)
    BY DEF Withheld
  <2>3. Threshold \in Int /\ least \in Int /\ Capped(least) \in Int
    BY ChatAssumption DEF ChatAssumption, Capped
  <2> HIDE DEF withheld
  <2> QED BY <2>1, <2>2, <2>3
<1>5. ~withheld => \A i \in DOMAIN chat[c].answer.ran : chat[c].answer.ran[i].success
  BY DEF Withheld
<1> HIDE DEF withheld, confidence
<1>6. /\ answer.status = status /\ answer.confidence = confidence
      /\ answer.rag = chat[c].answer.rag /\ answer.ran = chat[c].answer.ran
      /\ answer.read = chat[c].answer.read /\ answer.over = chat[c].answer.over
  BY <1>2 DEF AnswerRecord
<1> HIDE DEF answer
<1>7. /\ chat'[c].pc = "persist" /\ chat'[c].status = status /\ chat'[c].answer = answer
      /\ chat'[c].asks = chat[c].asks /\ chat'[c].knew = chat[c].knew
  BY <1>2, <1>3 DEF ChatRecord
<1>8. Replayable(answer)
  BY <1>4, <1>5, <1>6 DEF Replayable
<1>9. Others(c)
  BY <1>1, <1>2 DEF Others
<1> QED BY <1>6, <1>7, <1>8, <1>9 DEF GenerateAnswer, KeptAtWork

\* The message is stored, and the answer kept in memory.
LEMMA StoreFacts ==
  ASSUME ChatTypeOK, NEW c \in Chats, PersistAssistantMessage(c) \/ SetMemory(c) \/ SetShared(c)
  PROVE  /\ KeptAtWork(c) /\ chat[c].on \in Process /\ chat[c].asks \in Question
         /\ chat[c].pc \in {"persist", "remember", "share"}
         /\ chat'[c].answer = chat[c].answer /\ chat'[c].status = chat[c].status
         /\ PersistAssistantMessage(c) => chat[c].pc = "persist" /\ chat'[c].pc = "remember"
         /\ SetMemory(c) => chat[c].pc = "remember" /\ chat'[c].pc = "share"
         /\ SetShared(c) => chat[c].pc = "share" /\ chat'[c].pc = "replied" /\ chat'[c].hit = "none"
         /\ UNCHANGED <<document, edit, effects, lost, settled>>
<1>1. /\ chat[c] \in ChatRecord /\ DOMAIN chat = Chats
      /\ chat[c].on \in Process /\ chat[c].asks \in Question
  BY DEF ChatTypeOK, PersistAssistantMessage, SetMemory, SetShared
<1>2. CASE PersistAssistantMessage(c)
  BY <1>1, <1>2 DEF PersistAssistantMessage, SetMemory, SetShared, KeptAtWork, Others, ChatRecord
<1>3. CASE SetMemory(c)
  BY <1>1, <1>3 DEF PersistAssistantMessage, SetMemory, SetShared, KeptAtWork, Others, ChatRecord
<1>4. CASE SetShared(c)
  BY <1>1, <1>4 DEF PersistAssistantMessage, SetMemory, SetShared, KeptAtWork, Others, ChatRecord
<1> QED BY <1>2, <1>3, <1>4

LEMMA EndFacts ==
  ASSUME ChatTypeOK, NEW c \in Chats, GiveReply(c) \/ LoseChat(c)
  PROVE  /\ Others(c) /\ chat'[c] = NoChat /\ chat[c].pc # "idle" /\ chat[c].asks \in Question
         /\ UNCHANGED <<document, memory, shared, edit, rows, effects, settled>>
BY DEF ChatTypeOK, GiveReply, LoseChat, Free, Others

\* A change of a document marks the answers it overtakes.
LEMMA ChangedFacts ==
  ASSUME ChatTypeOK, NEW d \in Document, NEW to \in {"there", "deleted"}, Changed(d, to)
  PROVE  \A c \in Chats :
           /\ chat'[c].pc = chat[c].pc /\ chat'[c].asks = chat[c].asks
           /\ chat'[c].plan = chat[c].plan /\ chat'[c].hit = chat[c].hit
           /\ chat'[c].status = chat[c].status /\ chat'[c].knew = chat[c].knew \ {d}
           /\ chat[c].pc \notin Searched => chat'[c].answer = chat[c].answer
           /\ chat[c].pc \in Searched =>
                chat'[c].answer = [chat[c].answer EXCEPT !.over = @ \cup {d}]
<1> TAKE c \in Chats
<1>1. chat[c] \in ChatRecord
  BY DEF ChatTypeOK
<1>2. chat'[c] = IF chat[c].pc \in Searched
                 THEN [chat[c] EXCEPT !.answer = [chat[c].answer EXCEPT !.over = @ \cup {d}],
                                      !.knew = @ \ {d}]
                 ELSE [chat[c] EXCEPT !.knew = @ \ {d}]
  BY <1>1 DEF Changed, ChatRecord, Searched
<1> QED BY <1>1, <1>2 DEF ChatRecord

-----------------------------------------------------------------------------
(* Documents.                                                                *)

LEMMA FollowedExplained == DocumentsFollowed => StaleExplained
BY DEF DocumentsFollowed, FollowedBy, StaleExplained

LEMMA InitFollowed == ChatInit => DocumentsFollowed
BY DEF ChatInit, DocumentsFollowed, SharedFollowed, FollowedBy, Stale, Searched, NoChat, NoEdit, NoAnswer

\* A chat moves on and the documents, Redis and the changes under way stay.
LEMMA OneFollowed ==
  ASSUME DocumentsFollowed, NEW c \in Chats, Others(c), FollowedBy(c)',
         UNCHANGED <<document, shared, edit, settled>>
  PROVE  DocumentsFollowed'
<1>1. SharedFollowed'
  BY DEF DocumentsFollowed, SharedFollowed, Stale
<1>2. ASSUME NEW o \in Chats \ {c} PROVE FollowedBy(o)'
  BY <1>2 DEF DocumentsFollowed, FollowedBy, Others, Stale
<1> QED BY <1>1, <1>2 DEF DocumentsFollowed

LEMMA BeginFollowed ==
  ASSUME ChatTypeOK, DocumentsFollowed, NEW c \in Chats,
         AskQuestion(c) \/ GetMemory(c) \/ GetShared(c) \/ GeneratePlan(c)
  PROVE  DocumentsFollowed'
<1>1. CASE AskQuestion(c)
  <2>1. FollowedBy(c)'
    BY <1>1, AskFacts DEF FollowedBy, Searched
  <2> QED BY <1>1, <2>1, AskFacts, OneFollowed
<1>2. CASE GetMemory(c)
  <2>1. FollowedBy(c)'
    BY <1>2, GetMemoryFacts DEF DocumentsFollowed, FollowedBy, Searched, Replays
  <2> QED BY <1>2, <2>1, GetMemoryFacts, OneFollowed
<1>3. CASE GetShared(c)
  <2>1. \A d \in chat[c].knew : Stale(shared[chat[c].asks], d) => d \in shared[chat[c].asks].over
    BY <1>3, GetSharedFacts DEF DocumentsFollowed, FollowedBy, SharedFollowed
  <2>2. FollowedBy(c)'
    BY <1>3, <2>1, GetSharedFacts DEF DocumentsFollowed, FollowedBy, Searched, Replays, Stale
  <2> QED BY <1>3, <2>2, GetSharedFacts, OneFollowed
<1>4. CASE GeneratePlan(c)
  <2>1. FollowedBy(c)'
    BY <1>4, GeneratePlanFacts DEF DocumentsFollowed, FollowedBy, Searched, KeptAtWork
  <2> QED BY <1>4, <2>1, GeneratePlanFacts, OneFollowed DEF KeptAtWork
<1> QED BY <1>1, <1>2, <1>3, <1>4

LEMMA WorkFollowed ==
  ASSUME ChatTypeOK, DocumentsFollowed, NEW c \in Chats,
         ExecuteTool(c) \/ SearchIds(c) \/ SearchRows(c) \/ GenerateAnswer(c)
  PROVE  DocumentsFollowed'
<1>1. CASE ExecuteTool(c)
  <2>1. FollowedBy(c)'
    BY <1>1, ExecuteToolFacts DEF DocumentsFollowed, FollowedBy, Searched, KeptAtWork
  <2> QED BY <1>1, <2>1, ExecuteToolFacts, OneFollowed DEF KeptAtWork
<1>2. CASE SearchIds(c) \/ SearchRows(c)
  <2>1. \A d \in Document : chat'[c].answer.read = There => ~Stale(chat[c].answer, d)'
    BY <1>2, SearchFacts DEF Stale, There
  <2>2. FollowedBy(c)'
    BY <1>2, <2>1, SearchFacts DEF DocumentsFollowed, FollowedBy, Searched, KeptAtWork, Stale
  <2> QED BY <1>2, <2>2, SearchFacts, OneFollowed DEF KeptAtWork
<1>3. CASE GenerateAnswer(c)
  <2>1. FollowedBy(c)'
    BY <1>3, GenerateAnswerFacts DEF DocumentsFollowed, FollowedBy, Searched, KeptAtWork, Stale
  <2> QED BY <1>3, <2>1, GenerateAnswerFacts, OneFollowed DEF KeptAtWork
<1> QED BY <1>1, <1>2, <1>3

LEMMA StoreFollowed ==
  ASSUME ChatTypeOK, DocumentsFollowed, NEW c \in Chats,
         PersistAssistantMessage(c) \/ SetMemory(c) \/ SetShared(c)
  PROVE  DocumentsFollowed'
<1>1. FollowedBy(c)'
  BY StoreFacts DEF DocumentsFollowed, FollowedBy, Searched, KeptAtWork, Stale
<1>2. CASE UNCHANGED shared
  BY <1>1, <1>2, StoreFacts, OneFollowed DEF KeptAtWork
<1>3. CASE SetShared(c) /\ shared' = [shared EXCEPT ![chat[c].asks] = chat[c].answer]
  <2>1. \A d \in Document : Stale(chat[c].answer, d) => d \in chat[c].answer.over
    BY <1>3, StoreFacts DEF DocumentsFollowed, FollowedBy, Searched
  <2>2. settled \subseteq Document /\ DOMAIN shared = Question
    BY DEF ChatTypeOK
  <2>3. UNCHANGED <<document, edit, settled>>
    BY StoreFacts
  <2>4. \A q \in Question : shared'[q] = shared[q] \/ shared'[q] = chat[c].answer
    BY <1>3, <2>2
  <2>5. SharedFollowed'
    BY <2>1, <2>2, <2>3, <2>4 DEF DocumentsFollowed, SharedFollowed, Stale
  <2>6. ASSUME NEW o \in Chats \ {c} PROVE FollowedBy(o)'
    BY <2>3, <2>6, StoreFacts DEF DocumentsFollowed, FollowedBy, KeptAtWork, Others, Stale
  <2> QED BY <1>1, <2>5, <2>6 DEF DocumentsFollowed
<1> QED BY <1>2, <1>3 DEF PersistAssistantMessage, SetMemory, SetShared

LEMMA EndFollowed ==
  ASSUME ChatTypeOK, DocumentsFollowed, NEW c \in Chats, GiveReply(c) \/ LoseChat(c)
  PROVE  DocumentsFollowed'
<1>1. FollowedBy(c)'
  BY EndFacts DEF FollowedBy, Searched, NoChat
<1> QED BY <1>1, EndFacts, OneFollowed

LEMMA ExpireFollowed == ASSUME ChatTypeOK, DocumentsFollowed, Expire PROVE DocumentsFollowed'
<1>1. \A q \in Question : shared'[q] = shared[q] \/ shared'[q] = NoAnswer
  BY DEF Expire, ChatTypeOK
<1>2. UNCHANGED <<document, chat, edit, settled>>
  BY DEF Expire
<1>3. SharedFollowed'
  BY <1>1, <1>2 DEF DocumentsFollowed, SharedFollowed, Stale, NoAnswer
<1> QED BY <1>2, <1>3 DEF DocumentsFollowed, FollowedBy, Stale

\* The documents' change: it is followed up no more, and marks what it overtakes.
LEMMA ChangeFollowed ==
  ASSUME ChatTypeOK, DocumentsFollowed, NEW e \in Editors, CreateDocument(e) \/ DeleteDocument(e)
  PROVE  DocumentsFollowed'
<1>1. PICK d \in Document, to \in {"there", "deleted"} :
        /\ Changed(d, to)
        /\ \A o \in Editors : \/ edit'[o].pc = "keys"
                              \/ edit'[o].pc = edit[o].pc /\ edit'[o].listed = edit[o].listed
                                 /\ edit'[o].clears = edit[o].clears \ {d}
  <2>1. CASE CreateDocument(e)
    <3>1. PICK d \in Document :
            /\ Changed(d, "there")
            /\ edit' = [o \in Editors |-> IF o = e THEN [NoEdit EXCEPT !.pc = "keys", !.doc = d]
                                         ELSE [edit[o] EXCEPT !.clears = @ \ {d}]]
      BY <2>1 DEF CreateDocument
    <3>2. [NoEdit EXCEPT !.pc = "keys", !.doc = d].pc = "keys"
      BY DEF NoEdit
    <3>3. \A o \in Editors : LET k == [edit[o] EXCEPT !.clears = @ \ {d}]
                             IN k.pc = edit[o].pc /\ k.listed = edit[o].listed
                                /\ k.clears = edit[o].clears \ {d}
      BY DEF ChatTypeOK, EditRecord
    <3> QED BY <3>1, <3>2, <3>3
  <2>2. CASE DeleteDocument(e)
    <3> DEFINE d == edit[e].doc
    <3>1. d \in Document /\ Changed(d, "deleted")
      BY <2>2 DEF DeleteDocument, ChatTypeOK
    <3>2. [edit[e] EXCEPT !.pc = "keys"].pc = "keys"
      BY DEF ChatTypeOK, EditRecord
    <3>3. \A o \in Editors : LET k == [edit[o] EXCEPT !.clears = @ \ {d}]
                             IN k.pc = edit[o].pc /\ k.listed = edit[o].listed
                                /\ k.clears = edit[o].clears \ {d}
      BY DEF ChatTypeOK, EditRecord
    <3>4. edit' = [o \in Editors |-> IF o = e THEN [edit[e] EXCEPT !.pc = "keys"]
                                    ELSE [edit[o] EXCEPT !.clears = @ \ {d}]]
      BY <2>2 DEF DeleteDocument
    <3> HIDE DEF d
    <3> QED BY <3>1, <3>2, <3>3, <3>4
  <2> QED BY <2>1, <2>2
<1>2. /\ \A x \in Document \ {d} : (document'[x] = "there") = (document[x] = "there")
      /\ settled' = settled \ {d} /\ settled \subseteq Document
      /\ UNCHANGED shared
  BY <1>1 DEF Changed, ChatTypeOK, CreateDocument, DeleteDocument
<1>3. \A answer, x \in Document \ {d} : Stale(answer, x)' <=> Stale(answer, x)
  BY <1>2 DEF Stale
<1>4. SharedFollowed'
  BY <1>1, <1>2 DEF DocumentsFollowed, SharedFollowed, Stale
<1>5. ASSUME NEW c \in Chats PROVE FollowedBy(c)'
  <2>1. /\ chat'[c].pc = chat[c].pc /\ chat'[c].plan = chat[c].plan /\ chat'[c].hit = chat[c].hit
        /\ chat'[c].knew = chat[c].knew \ {d}
        /\ chat[c].pc \notin Searched => chat'[c].answer = chat[c].answer
        /\ chat[c].pc \in Searched =>
             chat'[c].answer = [chat[c].answer EXCEPT !.over = @ \cup {d}]
    BY <1>1, ChangedFacts
  <2>2. chat[c].answer \in AnswerRecord
    BY DEF ChatTypeOK, ChatRecord
  <2>3. chat[c].pc \in Searched =>
          /\ chat'[c].answer.over = chat[c].answer.over \cup {d}
          /\ chat'[c].answer.rag = chat[c].answer.rag /\ chat'[c].answer.read = chat[c].answer.read
    BY <2>1, <2>2 DEF AnswerRecord
  <2>4. chat'[c].knew \subseteq settled'
    BY <1>2, <2>1 DEF DocumentsFollowed, FollowedBy
  <2>5. (chat[c].pc = "tools" => chat[c].answer.rag = chat[c].plan.rag)'
    BY <2>1 DEF DocumentsFollowed, FollowedBy, Searched
  <2>6. ASSUME NEW x \in Document, (chat[c].pc \in Searched /\ Stale(chat[c].answer, x))'
        PROVE  x \in chat'[c].answer.over
    BY <1>2, <2>1, <2>3, <2>6 DEF DocumentsFollowed, FollowedBy, Stale
  <2>7. ASSUME NEW x \in Document,
               (chat[c].pc = "replied" /\ x \in chat[c].knew /\ Stale(chat[c].answer, x))'
        PROVE  (chat[c].hit = "memory" \/ x \in chat[c].answer.over)'
    BY <1>2, <2>1, <2>7 DEF DocumentsFollowed, FollowedBy, Stale, Searched
  <2> QED BY <2>4, <2>5, <2>6, <2>7 DEF FollowedBy
<1> QED BY <1>4, <1>5 DEF DocumentsFollowed

\* The keys are listed, and deleted, or a document is looked up.
LEMMA KeysFollowed ==
  ASSUME ChatTypeOK, DocumentsFollowed, NEW e \in Editors,
         FindDocument(e) \/ ListKeys(e) \/ DeleteKeys(e)
  PROVE  DocumentsFollowed'
<1>1. UNCHANGED <<document, chat>> /\ settled \subseteq settled'
  BY DEF FindDocument, ListKeys, DeleteKeys
<1>2. ASSUME NEW c \in Chats PROVE FollowedBy(c)'
  BY <1>1 DEF DocumentsFollowed, FollowedBy, Stale
<1>3. DOMAIN edit = Editors /\ DOMAIN shared = Question /\ edit[e] \in EditRecord
  BY DEF ChatTypeOK
<1>4. CASE FindDocument(e)
  <2>1. \A o \in Editors : edit'[o] = edit[o] \/ edit'[o].pc = "delete"
    BY <1>3, <1>4 DEF FindDocument, NoEdit
  <2> QED BY <1>1, <1>2, <1>4, <2>1 DEF FindDocument, DocumentsFollowed, SharedFollowed, Stale
<1>5. CASE ListKeys(e)
  <2>1. \A q \in Question, d \in Document : Stale(shared[q], d) => q \in Cached
    BY DEF Stale, Cached, NoAnswer
  <2>2. \A o \in Editors : \/ edit'[o] = edit[o]
                           \/ edit'[o].pc = "del" /\ edit'[o].listed = Cached
                           \/ edit'[o].pc = "idle"
    <3>1. LET k == [edit[e] EXCEPT !.pc = "del", !.clears = Document, !.listed = Cached]
          IN k.pc = "del" /\ k.listed = Cached
      BY <1>3 DEF EditRecord
    <3>2. NoEdit.pc = "idle"
      BY DEF NoEdit
    <3> QED BY <1>3, <1>5, <3>1, <3>2 DEF ListKeys
  <2>3. UNCHANGED <<shared, settled>>
    BY <1>5 DEF ListKeys
  <2>4. SharedFollowed'
    BY <1>1, <2>1, <2>2, <2>3 DEF DocumentsFollowed, SharedFollowed, Stale
  <2> QED BY <1>2, <2>4 DEF DocumentsFollowed
<1>6. CASE DeleteKeys(e)
  <2>1. \A o \in Editors : edit'[o] = edit[o] \/ edit'[o].pc = "idle"
    BY <1>3, <1>6 DEF DeleteKeys, NoEdit
  <2>2. edit[e].pc = "del" /\ edit[e].clears \subseteq Document /\ settled \subseteq Document
    BY <1>3, <1>6 DEF DeleteKeys, EditRecord, ChatTypeOK
  <2>3. CASE UNCHANGED <<shared, settled>>
    BY <1>1, <1>2, <2>1, <2>3 DEF DocumentsFollowed, SharedFollowed, Stale
  <2>4. CASE /\ shared' = [q \in Question |-> IF q \in edit[e].listed THEN NoAnswer ELSE shared[q]]
             /\ settled' = settled \cup edit[e].clears
    <3>1. \A q \in Question : \/ shared'[q] = NoAnswer
                              \/ shared'[q] = shared[q] /\ q \notin edit[e].listed
      BY <2>4
    <3>2. \A d \in Document : ~Stale(NoAnswer, d)'
      BY DEF Stale, NoAnswer
    <3>3. SharedFollowed'
      BY <1>1, <2>1, <2>2, <2>4, <3>1, <3>2 DEF DocumentsFollowed, SharedFollowed, Stale
    <3> QED BY <1>2, <3>3 DEF DocumentsFollowed
  <2> QED BY <1>6, <2>3, <2>4 DEF DeleteKeys
<1> QED BY <1>4, <1>5, <1>6

LEMMA StepFollowed == ASSUME ChatTypeOK, DocumentsFollowed, [ChatNext]_chatVars PROVE DocumentsFollowed'
<1>1. CASE UNCHANGED chatVars
  BY <1>1 DEF chatVars, DocumentsFollowed, SharedFollowed, FollowedBy, Stale
<1>2. CASE ChatNext
  BY <1>2, BeginFollowed, WorkFollowed, StoreFollowed, EndFollowed, ExpireFollowed, ChangeFollowed,
     KeysFollowed DEF ChatNext
<1> QED BY <1>1, <1>2

-----------------------------------------------------------------------------
(* Answers that are given again.                                             *)

\* One chat, and one answer kept.
ReplyReplayable(c) ==
    chat[c].pc \in {"persist", "remember", "share", "replied"} =>
      chat[c].status = chat[c].answer.status /\ Replayable(chat[c].answer)
KeptReplayable(answer) == answer = NoAnswer \/ Replayable(answer)

LEMMA AnswersParts ==
  AnswersReplayable <=>
    /\ \A p \in Process, q \in Question : KeptReplayable(memory[p][q])
    /\ \A q \in Question : KeptReplayable(shared[q])
    /\ \A c \in Chats : ReplyReplayable(c)
BY DEF AnswersReplayable, KeptReplayable, ReplyReplayable

LEMMA AnswersTell == AnswersReplayable => StatusTellsOutcome
BY DEF AnswersReplayable, Replayable, StatusTellsOutcome

LEMMA InitAnswers == ChatInit => AnswersReplayable
BY DEF ChatInit, AnswersReplayable, NoChat

LEMMA OneReplayable ==
  ASSUME AnswersReplayable, NEW c \in Chats, Others(c), ReplyReplayable(c)', UNCHANGED <<memory, shared>>
  PROVE  AnswersReplayable'
BY DEF AnswersReplayable, Others, ReplyReplayable

LEMMA ReplaysReplayable ==
  ASSUME NEW c \in Chats, NEW answer, NEW from, Replays(c, answer, from), Replayable(answer)
  PROVE  ReplyReplayable(c)'
BY DEF Replays, ReplyReplayable, Replayable, StatusOf

LEMMA BeginReplayable ==
  ASSUME ChatTypeOK, AnswersReplayable, NEW c \in Chats,
         AskQuestion(c) \/ GetMemory(c) \/ GetShared(c) \/ GeneratePlan(c)
  PROVE  AnswersReplayable'
<1>1. CASE AskQuestion(c) \/ GeneratePlan(c)
  <2>1. ReplyReplayable(c)' /\ Others(c) /\ UNCHANGED <<memory, shared>>
    BY <1>1, AskFacts, GeneratePlanFacts DEF ReplyReplayable, KeptAtWork
  <2> QED BY <2>1, OneReplayable
<1>2. CASE GetMemory(c)
  <2> DEFINE kept == memory[chat[c].on][chat[c].asks]
  <2>1. kept # NoAnswer => Replayable(kept)
    BY <1>2, GetMemoryFacts DEF AnswersReplayable
  <2> HIDE DEF kept
  <2>2. Replays(c, kept, "memory") \/ chat'[c].pc = "shared"
    BY <1>2, GetMemoryFacts DEF kept
  <2>3. ReplyReplayable(c)'
    <3>1. CASE Replays(c, kept, "memory")
      BY <2>1, <3>1, ReplaysReplayable DEF Replays
    <3>2. CASE chat'[c].pc = "shared"
      BY <3>2 DEF ReplyReplayable
    <3> QED BY <2>2, <3>1, <3>2
  <2> QED BY <1>2, <2>3, GetMemoryFacts, OneReplayable
<1>3. CASE GetShared(c)
  <2> DEFINE kept == shared[chat[c].asks]
  <2>1. kept # NoAnswer => Replayable(kept)
    BY <1>3, GetSharedFacts DEF AnswersReplayable
  <2> HIDE DEF kept
  <2>2. Replays(c, kept, "shared") \/ chat'[c].pc = "plan"
    BY <1>3, GetSharedFacts DEF kept
  <2>3. ReplyReplayable(c)'
    <3>1. CASE Replays(c, kept, "shared")
      BY <2>1, <3>1, ReplaysReplayable DEF Replays
    <3>2. CASE chat'[c].pc = "plan"
      BY <3>2 DEF ReplyReplayable
    <3> QED BY <2>2, <3>1, <3>2
  <2> QED BY <1>3, <2>3, GetSharedFacts, OneReplayable
<1> QED BY <1>1, <1>2, <1>3

LEMMA WorkReplayable ==
  ASSUME ChatTypeOK, AnswersReplayable, NEW c \in Chats,
         ExecuteTool(c) \/ SearchIds(c) \/ SearchRows(c) \/ GenerateAnswer(c) \/ GiveReply(c) \/ LoseChat(c)
  PROVE  AnswersReplayable'
<1>1. ReplyReplayable(c)'
  BY ExecuteToolFacts, SearchFacts, GenerateAnswerFacts, EndFacts DEF ReplyReplayable, NoChat
<1>2. Others(c) /\ UNCHANGED <<memory, shared>>
  BY ExecuteToolFacts, SearchFacts, GenerateAnswerFacts, EndFacts DEF KeptAtWork
<1> QED BY <1>1, <1>2, OneReplayable

LEMMA StoreReplayable ==
  ASSUME ChatTypeOK, AnswersReplayable, NEW c \in Chats,
         PersistAssistantMessage(c) \/ SetMemory(c) \/ SetShared(c)
  PROVE  AnswersReplayable'
<1>1. Replayable(chat[c].answer) /\ ReplyReplayable(c)'
  BY StoreFacts DEF AnswersReplayable, ReplyReplayable
<1>2. Others(c) /\ chat[c].on \in Process /\ chat[c].asks \in Question
  BY StoreFacts DEF KeptAtWork
<1>3. \A p \in Process, q \in Question : memory'[p][q] \in {memory[p][q], chat[c].answer}
  BY <1>2 DEF PersistAssistantMessage, SetMemory, SetShared, ChatTypeOK
<1>4. \A q \in Question : shared'[q] \in {shared[q], chat[c].answer}
  BY <1>2 DEF PersistAssistantMessage, SetMemory, SetShared, ChatTypeOK
<1> QED BY <1>1, <1>2, <1>3, <1>4 DEF AnswersReplayable, ReplyReplayable, Others

LEMMA ForgetReplayable ==
  ASSUME ChatTypeOK, AnswersReplayable, NEW e \in Editors,
         FindDocument(e) \/ ListKeys(e) \/ DeleteKeys(e)
  PROVE  AnswersReplayable'
<1>1. \A q \in Question : shared'[q] \in {shared[q], NoAnswer}
  BY DEF FindDocument, ListKeys, DeleteKeys, ChatTypeOK
<1>2. UNCHANGED <<memory, chat>>
  BY DEF FindDocument, ListKeys, DeleteKeys
<1> QED BY <1>1, <1>2 DEF AnswersReplayable

LEMMA ExpireReplayable == ASSUME ChatTypeOK, AnswersReplayable, Expire PROVE AnswersReplayable'
<1>1. PICK q \in Question :
        \/ shared' = [shared EXCEPT ![q] = NoAnswer] /\ UNCHANGED memory
        \/ \E p \in Process : memory' = [memory EXCEPT ![p][q] = NoAnswer] /\ UNCHANGED shared
  BY DEF Expire
<1>2. \A p \in Process, x \in Question : memory'[p][x] \in {memory[p][x], NoAnswer}
  <2>1. CASE UNCHANGED memory
    BY <2>1
  <2>2. CASE \E p \in Process : memory' = [memory EXCEPT ![p][q] = NoAnswer]
    BY <2>2 DEF ChatTypeOK
  <2> QED BY <1>1, <2>1, <2>2
<1>3. \A x \in Question : shared'[x] \in {shared[x], NoAnswer}
  BY <1>1 DEF ChatTypeOK
<1> QED BY <1>2, <1>3 DEF Expire, AnswersReplayable

\* A change of a document says nothing of tools or confidences.
LEMMA ChangeKeeps ==
  ASSUME ChatTypeOK, NEW e \in Editors, CreateDocument(e) \/ DeleteDocument(e)
  PROVE  /\ \A c \in Chats :
              /\ chat'[c].pc = chat[c].pc /\ chat'[c].asks = chat[c].asks
              /\ chat'[c].status = chat[c].status
              /\ chat'[c].answer.status = chat[c].answer.status
              /\ chat'[c].answer.confidence = chat[c].answer.confidence
              /\ chat'[c].answer.ran = chat[c].answer.ran
              /\ chat[c].pc \notin Searched => chat'[c].answer = chat[c].answer
         /\ UNCHANGED <<memory, shared, rows, effects, lost, forgotten>>
<1>1. PICK d \in Document, to \in {"there", "deleted"} : Changed(d, to)
  BY DEF CreateDocument, DeleteDocument, ChatTypeOK
<1>2. ASSUME NEW c \in Chats
      PROVE  /\ chat'[c].pc = chat[c].pc /\ chat'[c].asks = chat[c].asks
             /\ chat'[c].status = chat[c].status
             /\ chat'[c].answer.status = chat[c].answer.status
             /\ chat'[c].answer.confidence = chat[c].answer.confidence
             /\ chat'[c].answer.ran = chat[c].answer.ran
             /\ chat[c].pc \notin Searched => chat'[c].answer = chat[c].answer
  <2>1. chat[c].answer \in AnswerRecord
    BY DEF ChatTypeOK, ChatRecord
  <2>2. \/ chat'[c].answer = chat[c].answer
        \/ chat'[c].answer = [chat[c].answer EXCEPT !.over = @ \cup {d}]
    BY <1>1, ChangedFacts
  <2>3. /\ chat'[c].answer.status = chat[c].answer.status
        /\ chat'[c].answer.confidence = chat[c].answer.confidence
        /\ chat'[c].answer.ran = chat[c].answer.ran
    BY <2>1, <2>2 DEF AnswerRecord
  <2> QED BY <1>1, <2>3, ChangedFacts
<1> QED BY <1>2 DEF CreateDocument, DeleteDocument

LEMMA StepReplayable == ASSUME ChatTypeOK, AnswersReplayable, [ChatNext]_chatVars PROVE AnswersReplayable'
<1>1. CASE UNCHANGED chatVars
  BY <1>1 DEF chatVars, AnswersReplayable
<1>2. CASE \E e \in Editors : CreateDocument(e) \/ DeleteDocument(e)
  <2>1. /\ \A c \in Chats :
              /\ chat'[c].pc = chat[c].pc /\ chat'[c].status = chat[c].status
              /\ chat'[c].answer.status = chat[c].answer.status
              /\ chat'[c].answer.confidence = chat[c].answer.confidence
              /\ chat'[c].answer.ran = chat[c].answer.ran
        /\ UNCHANGED <<memory, shared>>
    BY <1>2, ChangeKeeps
  <2> QED BY <2>1 DEF AnswersReplayable, Replayable
<1>3. CASE Expire
  BY <1>3, ExpireReplayable
<1>4. CASE ChatNext
  BY <1>2, <1>3, <1>4, BeginReplayable, WorkReplayable, StoreReplayable, ForgetReplayable DEF ChatNext
<1> QED BY <1>1, <1>4

-----------------------------------------------------------------------------
(* What the tools did.                                                       *)

Ran == [tool: Tool, success: BOOLEAN]

LEMMA ActedLonger ==
  ASSUME NEW ran \in Seq(Ran), NEW newest \in Ran
  PROVE  /\ Len(ran) + 1 \notin Acted(ran)
         /\ newest.success /\ newest.tool \in Writes =>
              /\ Acted(Append(ran, newest)) = Acted(ran) \cup {Len(ran) + 1}
              /\ Effects(Append(ran, newest)) = Effects(ran) + 1
         /\ ~(newest.success /\ newest.tool \in Writes) =>
              /\ Acted(Append(ran, newest)) = Acted(ran)
              /\ Effects(Append(ran, newest)) = Effects(ran)
<1> DEFINE longer == Append(ran, newest)
           n == Len(ran) + 1
<1>1. /\ Len(longer) = n /\ DOMAIN longer = 1..n /\ DOMAIN ran = 1..Len(ran) /\ Len(ran) \in Nat
      /\ longer[n] = newest /\ \A i \in 1..Len(ran) : longer[i] = ran[i]
  BY AppendProperties
<1> HIDE DEF longer
<1>2. n \notin Acted(ran)
  BY <1>1 DEF Acted
<1>3. IsFiniteSet(Acted(ran))
  BY ActedFinite DEF Ran
<1>4. CASE newest.success /\ newest.tool \in Writes
  <2>1. Acted(longer) = Acted(ran) \cup {n}
    BY <1>1, <1>4 DEF Acted
  <2>2. Cardinality(Acted(ran) \cup {n}) = Cardinality(Acted(ran)) + 1
    BY <1>2, <1>3, FS_AddElement
  <2> QED BY <1>2, <1>4, <2>1, <2>2 DEF Effects, longer
<1>5. CASE ~(newest.success /\ newest.tool \in Writes)
  <2>1. Acted(longer) = Acted(ran)
    BY <1>1, <1>5 DEF Acted
  <2> QED BY <1>2, <1>5, <2>1 DEF Effects, longer
<1> QED BY <1>4, <1>5

LEMMA NothingActed == Acted(<<>>) = {} /\ Effects(<<>>) = 0 /\ NoAnswer.ran = <<>>
BY FS_EmptySet DEF Acted, Effects, NoAnswer

\* The chats at work on a question, and the effects no row tells of, in any state f.
Unstored == {"plan", "tools", "rows", "answer", "persist"}
AtWork(f, q) == {o \in Chats : f[o].asks = q /\ f[o].pc \in Working}
OwingChats(f, q) == {o \in Chats : f[o].asks = q /\ f[o].pc \in Unstored}
Pending(f, q) == UNION {{o} \X Acted(f[o].answer.ran) : o \in OwingChats(f, q)}

LEMMA PendingIs ==
  ASSUME NEW f, NEW q, NEW x
  PROVE  x \in Pending(f, q) <=> \E o \in OwingChats(f, q) : \E i \in Acted(f[o].answer.ran) : x = <<o, i>>
BY DEF Pending

LEMMA PendingFinite ==
  ASSUME NEW f \in [Chats -> ChatRecord], NEW q
  PROVE  IsFiniteSet(Pending(f, q)) /\ Cardinality(Pending(f, q)) \in Nat
<1> DEFINE S == OwingChats(f, q)
           Part == [o \in S |-> {o} \X Acted(f[o].answer.ran)]
           Parts == {{o} \X Acted(f[o].answer.ran) : o \in S}
<1>1. IsFiniteSet(S)
  BY ChatAssumption, FS_Subset DEF ChatAssumption, OwingChats
<1>2. IsFiniteSet(Parts)
  <2>1. Part \in Surjection(S, Parts)
    BY DEF Surjection
  <2> HIDE DEF S, Part, Parts
  <2> QED BY <1>1, <2>1, FS_Surjection
<1>3. ASSUME NEW o \in S PROVE IsFiniteSet({o} \X Acted(f[o].answer.ran))
  <2>1. f[o].answer.ran \in Seq([tool: Tool, success: BOOLEAN])
    BY DEF OwingChats, ChatRecord, AnswerRecord
  <2>2. IsFiniteSet(Acted(f[o].answer.ran))
    BY <2>1, ActedFinite
  <2> QED BY <2>2, FS_Singleton, FS_Product
<1>4. IsFiniteSet(UNION Parts)
  BY <1>2, <1>3, FS_UNION
<1> QED BY <1>4, FS_CardinalityType DEF Pending

\* Two states whose chats owe the same.
LEMMA PendingSame ==
  ASSUME NEW f, NEW g, NEW q,
         \A o \in OwingChats(f, q) \cup OwingChats(g, q) : Acted(g[o].answer.ran) = Acted(f[o].answer.ran),
         \A o \in Chats : o \in OwingChats(g, q) <=> o \in OwingChats(f, q)
  PROVE  Pending(g, q) = Pending(f, q)
<1>1. OwingChats(g, q) = OwingChats(f, q)
  BY DEF OwingChats
<1> QED BY <1>1 DEF Pending

\* A chat's effects are told, or lost, at once.
LEMMA PendingLeaves ==
  ASSUME NEW f \in [Chats -> ChatRecord], NEW g \in [Chats -> ChatRecord], NEW c \in Chats,
         \A o \in Chats \ {c} : g[o] = f[o], f[c].pc \in Unstored, g[c].pc \notin Unstored,
         NEW q
  PROVE  Cardinality(Pending(g, q))
           = Cardinality(Pending(f, q)) - IF f[c].asks = q THEN Effects(f[c].answer.ran) ELSE 0
<1>1. OwingChats(g, q) = OwingChats(f, q) \ {c}
  BY DEF OwingChats
<1>2. \A o \in OwingChats(g, q) : g[o].answer.ran = f[o].answer.ran
  BY <1>1 DEF OwingChats
<1>3. IsFiniteSet(Pending(f, q)) /\ Cardinality(Pending(f, q)) \in Nat
  BY PendingFinite
<1>4. CASE f[c].asks # q
  <2>1. OwingChats(g, q) = OwingChats(f, q)
    BY <1>1, <1>4 DEF OwingChats
  <2>2. Pending(g, q) = Pending(f, q)
    BY <1>2, <2>1, PendingSame
  <2> QED BY <1>3, <1>4, <2>2
<1>5. CASE f[c].asks = q
  <2> DEFINE mine == {c} \X Acted(f[c].answer.ran)
  <2>1. Pending(g, q) = Pending(f, q) \ mine
    BY <1>1, <1>2, PendingIs
  <2>2. mine \subseteq Pending(f, q)
    BY <1>5, PendingIs DEF OwingChats
  <2>3. IsFiniteSet(Acted(f[c].answer.ran)) /\ Effects(f[c].answer.ran) \in Nat
    BY ActedFinite DEF ChatRecord, AnswerRecord
  <2>4. Cardinality(mine) = Effects(f[c].answer.ran)
    <3>1. IsFiniteSet({c}) /\ Cardinality({c}) = 1
      BY FS_Singleton
    <3>2. Cardinality(mine) = Cardinality({c}) * Cardinality(Acted(f[c].answer.ran))
      BY <2>3, <3>1, FS_Product
    <3> QED BY <2>3, <3>1, <3>2 DEF Effects
  <2> HIDE DEF mine
  <2>5. Pending(f, q) \cap mine = mine
    BY <2>2
  <2>6. Cardinality(Pending(f, q) \ mine) = Cardinality(Pending(f, q)) - Cardinality(mine)
    BY <1>3, <2>5, FS_Difference
  <2> QED BY <1>5, <2>1, <2>4, <2>6
<1> QED BY <1>4, <1>5

\* A chat acts once more.
LEMMA PendingGrows ==
  ASSUME NEW f \in [Chats -> ChatRecord], NEW g \in [Chats -> ChatRecord], NEW c \in Chats,
         \A o \in Chats \ {c} : g[o] = f[o], f[c].pc \in Unstored, g[c].pc \in Unstored,
         g[c].asks = f[c].asks, NEW n, n \notin Acted(f[c].answer.ran),
         Acted(g[c].answer.ran) = Acted(f[c].answer.ran) \cup {n}, NEW q
  PROVE  Cardinality(Pending(g, q)) = Cardinality(Pending(f, q)) + IF f[c].asks = q THEN 1 ELSE 0
<1>1. OwingChats(g, q) = OwingChats(f, q)
  BY DEF OwingChats
<1>2. IsFiniteSet(Pending(f, q)) /\ Cardinality(Pending(f, q)) \in Nat
  BY PendingFinite
<1>3. CASE f[c].asks # q
  <2>1. \A o \in OwingChats(g, q) : g[o] = f[o]
    BY <1>1, <1>3 DEF OwingChats
  <2>2. Pending(g, q) = Pending(f, q)
    BY <1>1, <2>1, PendingSame
  <2> QED BY <1>2, <1>3, <2>2
<1>4. CASE f[c].asks = q
  <2>1. c \in OwingChats(f, q)
    BY <1>4 DEF OwingChats
  <2>2. Pending(g, q) = Pending(f, q) \cup {<<c, n>>}
    <3>1. \A x : x \in Pending(g, q) => x \in Pending(f, q) \/ x = <<c, n>>
      <4> TAKE x
      <4> HAVE x \in Pending(g, q)
      <4>1. PICK o \in OwingChats(f, q) : \E i \in Acted(g[o].answer.ran) : x = <<o, i>>
        BY <1>1, PendingIs
      <4>2. o \in Chats
        BY DEF OwingChats
      <4>3. PICK i \in Acted(g[o].answer.ran) : x = <<o, i>>
        BY <4>1
      <4>4. i \in Acted(f[o].answer.ran) \/ (o = c /\ i = n)
        BY <4>2, <4>3
      <4> QED BY <4>3, <4>4, PendingIs
    <3>2. \A x : x \in Pending(f, q) => x \in Pending(g, q)
      <4> TAKE x
      <4> HAVE x \in Pending(f, q)
      <4>1. PICK o \in OwingChats(f, q) : \E i \in Acted(f[o].answer.ran) : x = <<o, i>>
        BY PendingIs
      <4>2. o \in Chats
        BY DEF OwingChats
      <4>3. PICK i \in Acted(f[o].answer.ran) : x = <<o, i>>
        BY <4>1
      <4>4. i \in Acted(g[o].answer.ran)
        BY <4>2, <4>3
      <4> QED BY <1>1, <4>3, <4>4, PendingIs
    <3>3. <<c, n>> \in Pending(g, q)
      BY <1>1, <2>1, PendingIs
    <3> QED BY <3>1, <3>2, <3>3
  <2>3. <<c, n>> \notin Pending(f, q)
    BY PendingIs
  <2> QED BY <1>2, <1>4, <2>2, <2>3, FS_AddElement
<1> QED BY <1>3, <1>4

LEMMA UnrecordedIs ==
  ASSUME NEW q
  PROVE  /\ WorkingOn(q) = AtWork(chat, q) /\ Untold(q) = Pending(chat, q)
         /\ WorkingOn(q)' = AtWork(chat', q) /\ Untold(q)' = Pending(chat', q)
<1>1. /\ WorkingOn(q) = AtWork(chat, q)
      /\ {o \in WorkingOn(q) : chat[o].pc \notin {"remember", "share"}} = OwingChats(chat, q)
  BY DEF WorkingOn, AtWork, OwingChats, Working, Unstored
<1>2. /\ WorkingOn(q)' = AtWork(chat', q)
      /\ {o \in WorkingOn(q) : chat[o].pc \notin {"remember", "share"}}' = OwingChats(chat', q)
  BY DEF WorkingOn, AtWork, OwingChats, Working, Unstored
<1>3. Untold(q) = Pending(chat, q)
  BY <1>1 DEF Untold, Pending
<1>4. Untold(q)' = Pending(chat', q)
  BY <1>2 DEF Untold, Pending
<1> QED BY <1>1, <1>2, <1>3, <1>4

LEMMA ChatsTyped == ASSUME ChatTypeOK, [ChatNext]_chatVars
                    PROVE  chat \in [Chats -> ChatRecord] /\ chat' \in [Chats -> ChatRecord]
BY ChatStepTyped DEF ChatTypeOK

\* What may be found stays as it is where nothing bears on it.
LEMMA StillOne ==
  ASSUME OneAtWork, forgotten \subseteq forgotten',
         \A q \in Question \ forgotten' :
           /\ AtWork(chat', q) = AtWork(chat, q)
           /\ \A o \in AtWork(chat, q) : chat'[o].answer.ran = chat[o].answer.ran
           /\ shared'[q] = shared[q] /\ effects'[q] = effects[q]
  PROVE  OneAtWork'
<1> SUFFICES ASSUME NEW q \in Question \ forgotten'
             PROVE  (/\ \A c, o \in WorkingOn(q) : c = o
                     /\ \A c \in WorkingOn(q) : shared[q] = NoAnswer
                                                /\ effects[q] = Effects(chat[c].answer.ran)
                     /\ WorkingOn(q) = {} => effects[q] = Effects(shared[q].ran))'
  BY DEF OneAtWork
<1>1. WorkingOn(q) = AtWork(chat, q) /\ WorkingOn(q)' = AtWork(chat, q)
  BY UnrecordedIs
<1>2. q \in Question \ forgotten
  OBVIOUS
<1> QED BY <1>1, <1>2 DEF OneAtWork

\* Nothing bears on what one chat does when it stays at work, or stays out of it.
LEMMA SameWork ==
  ASSUME ChatTypeOK, NEW c \in Chats, Others(c),
         chat[c].pc \in Working <=> chat'[c].pc \in Working,
         chat[c].pc \in Working =>
           chat'[c].asks = chat[c].asks /\ chat'[c].answer.ran = chat[c].answer.ran,
         NEW q
  PROVE  /\ AtWork(chat', q) = AtWork(chat, q)
         /\ \A o \in AtWork(chat, q) : chat'[o].answer.ran = chat[o].answer.ran
BY DEF Others, AtWork

LEMMA SameOwing ==
  ASSUME ChatTypeOK, NEW c \in Chats, Others(c),
         chat[c].pc \in Unstored <=> chat'[c].pc \in Unstored,
         chat[c].pc \in Unstored =>
           chat'[c].asks = chat[c].asks /\ chat'[c].answer.ran = chat[c].answer.ran,
         NEW q
  PROVE  Pending(chat', q) = Pending(chat, q)
<1>1. OwingChats(chat', q) = OwingChats(chat, q)
  BY DEF Others, OwingChats
<1>2. \A o \in OwingChats(chat, q) : chat'[o].answer.ran = chat[o].answer.ran
  BY DEF Others, OwingChats
<1> QED BY <1>1, <1>2, PendingSame

\* The sums stay where nothing bears on them.
LEMMA StillRecorded ==
  ASSUME EffectsRecorded, UNCHANGED <<rows, effects, lost>>,
         \A q \in Question : Pending(chat', q) = Pending(chat, q)
  PROVE  EffectsRecorded'
BY UnrecordedIs DEF EffectsRecorded

\* Both, for a step of one chat that tells nothing.
LEMMA QuietStep ==
  ASSUME ChatTypeOK, EffectsRecorded, OneAtWork, NEW c \in Chats, Others(c),
         chat[c].pc \in Working <=> chat'[c].pc \in Working,
         chat[c].pc \in Unstored <=> chat'[c].pc \in Unstored,
         chat[c].pc \in Working =>
           chat'[c].asks = chat[c].asks /\ chat'[c].answer.ran = chat[c].answer.ran,
         UNCHANGED <<shared, rows, effects, lost, forgotten>>
  PROVE  EffectsRecorded' /\ OneAtWork'
<1>1. OneAtWork'
  BY SameWork, StillOne
<1>2. Unstored \subseteq Working
  BY DEF Unstored, Working
<1>3. EffectsRecorded'
  BY <1>2, SameOwing, StillRecorded
<1> QED BY <1>1, <1>3

LEMMA InitCounts == ChatInit => EffectsRecorded /\ OneAtWork /\ NothingRun
<1> SUFFICES ASSUME ChatInit PROVE EffectsRecorded /\ OneAtWork /\ NothingRun
  OBVIOUS
<1>1. \A q : OwingChats(chat, q) = {} /\ AtWork(chat, q) = {}
  BY DEF ChatInit, NoChat, OwingChats, AtWork, Unstored, Working
<1>2. \A q : Pending(chat, q) = {}
  BY <1>1, PendingIs
<1>3. \A q : WorkingOn(q) = {} /\ Cardinality(Untold(q)) = 0
  BY <1>1, <1>2, UnrecordedIs, FS_EmptySet
<1>4. EffectsRecorded
  BY <1>3 DEF EffectsRecorded, ChatInit
<1>5. OneAtWork
  BY <1>3, NothingActed DEF OneAtWork, ChatInit
<1> QED BY <1>4, <1>5 DEF NothingRun, ChatInit, NoChat

LEMMA StepNothingRun == ASSUME ChatTypeOK, NothingRun, [ChatNext]_chatVars PROVE NothingRun'
<1> DEFINE Early == {"memory", "shared", "plan"}
<1>1. ASSUME NEW c \in Chats, Others(c), chat'[c].pc \in Early => chat'[c].answer = NoAnswer
      PROVE  NothingRun'
  BY <1>1 DEF NothingRun, Others
<1>2. CASE UNCHANGED chat
  BY <1>2 DEF NothingRun
<1>3. ASSUME NEW c \in Chats, AskQuestion(c) \/ GetMemory(c) \/ GetShared(c)
      PROVE  NothingRun'
  <2>1. Others(c)
    BY <1>3, AskFacts, GetMemoryFacts, GetSharedFacts
  <2>2. chat'[c].pc \in Early => chat'[c].answer = NoAnswer
    BY <1>3, AskFacts, GetMemoryFacts, GetSharedFacts DEF NothingRun, Replays
  <2> QED BY <2>1, <2>2, <1>1
<1>4. ASSUME NEW c \in Chats,
             \/ GeneratePlan(c) \/ ExecuteTool(c) \/ SearchIds(c) \/ SearchRows(c)
             \/ GenerateAnswer(c)
      PROVE  NothingRun'
  <2>1. Others(c) /\ chat'[c].pc \notin Early
    BY <1>4, GeneratePlanFacts, ExecuteToolFacts, SearchFacts, GenerateAnswerFacts DEF KeptAtWork
  <2> QED BY <2>1, <1>1
<1>5. ASSUME NEW c \in Chats,
             \/ PersistAssistantMessage(c) \/ SetMemory(c) \/ SetShared(c) \/ GiveReply(c)
             \/ LoseChat(c)
      PROVE  NothingRun'
  <2>1. Others(c) /\ chat'[c].pc \notin Early
    BY <1>5, StoreFacts, EndFacts DEF KeptAtWork, NoChat
  <2> QED BY <2>1, <1>1
<1>6. ASSUME NEW e \in Editors, CreateDocument(e) \/ DeleteDocument(e) PROVE NothingRun'
  <2>1. \A c \in Chats : /\ chat'[c].pc = chat[c].pc
                         /\ chat[c].pc \notin Searched => chat'[c].answer = chat[c].answer
    BY <1>6, ChangeKeeps
  <2> QED BY <2>1 DEF NothingRun, Searched
<1>7. ASSUME NEW e \in Editors, Expire \/ FindDocument(e) \/ ListKeys(e) \/ DeleteKeys(e)
      PROVE  UNCHANGED chat
  BY <1>7 DEF Expire, FindDocument, ListKeys, DeleteKeys
<1>8. Expire => UNCHANGED chat
  BY DEF Expire
<1>9. CASE ChatNext
  BY <1>2, <1>3, <1>4, <1>5, <1>6, <1>7, <1>8, <1>9 DEF ChatNext
<1> QED BY <1>2, <1>9 DEF chatVars

LEMMA QuietSteps ==
  ASSUME ChatTypeOK, EffectsRecorded, OneAtWork, NEW c \in Chats,
         \/ AskQuestion(c) \/ GetMemory(c) \/ GeneratePlan(c) \/ SearchIds(c) \/ SearchRows(c)
         \/ GenerateAnswer(c) \/ SetMemory(c) \/ GiveReply(c)
  PROVE  EffectsRecorded' /\ OneAtWork'
<1>1. CASE AskQuestion(c)
  BY <1>1, AskFacts, QuietStep DEF Working, Unstored
<1>2. CASE GetMemory(c)
  BY <1>2, GetMemoryFacts, QuietStep DEF Working, Unstored, Replays
<1>3. CASE GeneratePlan(c)
  BY <1>3, GeneratePlanFacts, QuietStep DEF Working, Unstored, KeptAtWork
<1>4. CASE SearchIds(c) \/ SearchRows(c)
  BY <1>4, SearchFacts, QuietStep DEF Working, Unstored, KeptAtWork
<1>5. CASE GenerateAnswer(c)
  BY <1>5, GenerateAnswerFacts, QuietStep DEF Working, Unstored, KeptAtWork
<1>6. CASE SetMemory(c)
  BY <1>6, StoreFacts, QuietStep DEF Working, Unstored, KeptAtWork, SetMemory
<1>7. CASE GiveReply(c)
  BY <1>7, EndFacts, QuietStep DEF Working, Unstored, GiveReply, NoChat
<1> QED BY <1>1, <1>2, <1>3, <1>4, <1>5, <1>6, <1>7

\* A chat begins to work an answer out: it is the only one, unless its question
\* is one whose answer could not be found.
LEMMA GetSharedCounts ==
  ASSUME ChatTypeOK, EffectsRecorded, OneAtWork, NothingRun, NEW c \in Chats, GetShared(c)
  PROVE  EffectsRecorded' /\ OneAtWork'
<1>1. CASE Replays(c, shared[chat[c].asks], "shared") /\ forgotten' = forgotten
  BY <1>1, GetSharedFacts, QuietStep DEF Working, Unstored, Replays
<1>2. CASE /\ chat'[c].pc = "plan" /\ chat'[c].answer = chat[c].answer
           /\ chat'[c].asks = chat[c].asks /\ forgotten \subseteq forgotten'
           /\ chat[c].asks \notin forgotten'
                => shared[chat[c].asks] = NoAnswer /\ WorkingOn(chat[c].asks) = {}
  <2> DEFINE q == chat[c].asks
  <2>1. /\ Others(c) /\ chat[c].pc = "shared" /\ q \in Question
        /\ UNCHANGED <<shared, rows, effects, lost>>
    BY GetSharedFacts
  <2>2. chat'[c].answer.ran = <<>>
    BY <1>2, <2>1, NothingActed DEF NothingRun
  <2>3. ASSUME NEW x \in Question PROVE Pending(chat', x) = Pending(chat, x)
    <3>1. OwingChats(chat', x) = OwingChats(chat, x) \cup (IF x = q THEN {c} ELSE {}) /\ c \notin OwingChats(chat, x)
      BY <1>2, <2>1 DEF Others, OwingChats, Unstored
    <3>2. \A o \in OwingChats(chat, x) : o # c /\ chat'[o] = chat[o]
      BY <2>1, <3>1 DEF OwingChats, Others
    <3>3. Acted(chat'[c].answer.ran) = {}
      BY <2>2, NothingActed
    <3>4. \A y : y \in Pending(chat', x) => y \in Pending(chat, x)
      BY <3>1, <3>2, <3>3 DEF Pending
    <3>5. \A y : y \in Pending(chat, x) => y \in Pending(chat', x)
      BY <3>1, <3>2 DEF Pending
    <3> QED BY <3>4, <3>5
  <2>4. EffectsRecorded'
    BY <2>1, <2>3, StillRecorded
  <2>5. ASSUME NEW x \in Question \ forgotten', x # q PROVE AtWork(chat', x) = AtWork(chat, x)
                  /\ \A o \in AtWork(chat, x) : chat'[o] = chat[o]
    BY <1>2, <2>1, <2>5 DEF Others, AtWork, Working
  <2>6. q \notin forgotten' => /\ AtWork(chat, q) = {} /\ AtWork(chat', q) = {c}
                               /\ shared[q] = NoAnswer /\ effects[q] = 0
    <3> SUFFICES ASSUME q \notin forgotten'
                 PROVE  /\ AtWork(chat, q) = {} /\ AtWork(chat', q) = {c}
                        /\ shared[q] = NoAnswer /\ effects[q] = 0
      OBVIOUS
    <3>1. AtWork(chat, q) = {} /\ shared[q] = NoAnswer
      BY <1>2, UnrecordedIs
    <3>2. AtWork(chat', q) = {c}
      BY <1>2, <2>1, <3>1 DEF Others, AtWork, Working
    <3>3. effects[q] = Effects(shared[q].ran)
      BY <1>2, <2>1 DEF OneAtWork
    <3> QED BY <3>1, <3>2, <3>3, NothingActed
  <2>7. ASSUME NEW x \in Question \ forgotten'
        PROVE  /\ \A a, o \in AtWork(chat', x) : a = o
               /\ \A a \in AtWork(chat', x) : shared'[x] = NoAnswer
                                              /\ effects'[x] = Effects(chat'[a].answer.ran)
               /\ AtWork(chat', x) = {} => effects'[x] = Effects(shared'[x].ran)
    <3>1. CASE x = q
      BY <2>1, <2>2, <2>6, <3>1, NothingActed
    <3>2. CASE x # q
      <4>1. x \in Question \ forgotten /\ WorkingOn(x) = AtWork(chat, x)
        BY <1>2, UnrecordedIs
      <4> QED BY <2>1, <2>5, <3>2, <4>1 DEF OneAtWork
    <3> QED BY <3>1, <3>2
  <2>8. OneAtWork'
    BY <2>7, UnrecordedIs DEF OneAtWork
  <2> QED BY <2>4, <2>8
<1> QED BY <1>1, <1>2, GetSharedFacts

\* A tool acts: the question has one effect more, and its chat owes one more.
LEMMA ExecuteToolCounts ==
  ASSUME ChatTypeOK, EffectsRecorded, OneAtWork, NEW c \in Chats, ExecuteTool(c)
  PROVE  EffectsRecorded' /\ OneAtWork'
<1> DEFINE q == chat[c].asks
<1>1. PICK tool \in Tool, done \in BOOLEAN :
        /\ chat'[c].answer.ran = Append(chat[c].answer.ran, [tool |-> tool, success |-> done])
        /\ effects' = IF done /\ tool \in Writes THEN [effects EXCEPT ![q] = @ + 1] ELSE effects
  BY ExecuteToolFacts
<1>2. /\ Others(c) /\ chat[c].pc = "tools" /\ chat'[c].pc = "tools" /\ q \in Question
      /\ chat'[c].asks = q /\ UNCHANGED <<shared, rows, lost, forgotten>>
  BY ExecuteToolFacts DEF KeptAtWork
<1>3. chat \in [Chats -> ChatRecord] /\ chat' \in [Chats -> ChatRecord]
  BY ExecuteToolTyped DEF ChatTypeOK
<1>4. chat[c].answer.ran \in Seq(Ran)
  BY <1>3 DEF ChatRecord, AnswerRecord, Ran
<1> DEFINE n == Len(chat[c].answer.ran) + 1
           acts == done /\ tool \in Writes
<1>5. /\ n \notin Acted(chat[c].answer.ran)
      /\ Acted(chat'[c].answer.ran) = IF acts THEN Acted(chat[c].answer.ran) \cup {n}
                                      ELSE Acted(chat[c].answer.ran)
      /\ Effects(chat'[c].answer.ran) = IF acts THEN Effects(chat[c].answer.ran) + 1
                                        ELSE Effects(chat[c].answer.ran)
  <2> DEFINE newest == [tool |-> tool, success |-> done]
  <2>1. /\ newest \in Ran /\ chat'[c].answer.ran = Append(chat[c].answer.ran, newest)
        /\ acts <=> newest.success /\ newest.tool \in Writes
    BY <1>1 DEF Ran
  <2> HIDE DEF newest, acts
  <2> QED BY <1>4, <2>1, ActedLonger
<1> HIDE DEF n
<1>6. \A x \in Question : effects'[x] = IF acts /\ x = q THEN effects[x] + 1 ELSE effects[x]
  BY <1>1, <1>2 DEF ChatTypeOK
<1>7. \A x \in Question : Cardinality(Pending(chat', x))
                            = Cardinality(Pending(chat, x)) + IF acts /\ x = q THEN 1 ELSE 0
  <2>1. CASE acts
    <3>1. Acted(chat'[c].answer.ran) = Acted(chat[c].answer.ran) \cup {n}
      BY <1>5, <2>1
    <3>2. \A o \in Chats \ {c} : chat'[o] = chat[o]
      BY <1>2 DEF Others
    <3>3. chat[c].pc \in Unstored /\ chat'[c].pc \in Unstored
      BY <1>2 DEF Unstored
    <3>4. \A x : Cardinality(Pending(chat', x))
                   = Cardinality(Pending(chat, x)) + IF chat[c].asks = x THEN 1 ELSE 0
      BY <1>2, <1>3, <1>5, <3>1, <3>2, <3>3, PendingGrows
    <3> QED BY <2>1, <3>4
  <2>2. CASE ~acts
    <3>1. \A x : OwingChats(chat', x) = OwingChats(chat, x)
      BY <1>2 DEF OwingChats, Others
    <3>2. \A o \in Chats : Acted(chat'[o].answer.ran) = Acted(chat[o].answer.ran)
      BY <1>2, <1>5, <2>2 DEF Others
    <3>3. \A x : Pending(chat', x) = Pending(chat, x)
      BY <3>1, <3>2, PendingSame DEF OwingChats
    <3>4. \A x : Cardinality(Pending(chat, x)) \in Nat
      BY <1>3, PendingFinite
    <3> QED BY <2>2, <3>3, <3>4
  <2> QED BY <2>1, <2>2
<1>8. EffectsRecorded'
  <2>1. \A x \in Question : effects[x] = rows[x] + lost[x] + Cardinality(Pending(chat, x))
    BY UnrecordedIs DEF EffectsRecorded
  <2>2. \A x \in Question : rows[x] \in Nat /\ lost[x] \in Nat /\ Cardinality(Pending(chat, x)) \in Nat
    BY <1>3, PendingFinite DEF ChatTypeOK
  <2>3. \A x \in Question : effects'[x] = rows'[x] + lost'[x] + Cardinality(Pending(chat', x))
    BY <1>2, <1>6, <1>7, <2>1, <2>2
  <2> QED BY <2>3, UnrecordedIs DEF EffectsRecorded
<1>9. ASSUME NEW x \in Question \ forgotten'
      PROVE  /\ \A a, o \in AtWork(chat', x) : a = o
             /\ \A a \in AtWork(chat', x) : shared'[x] = NoAnswer
                                            /\ effects'[x] = Effects(chat'[a].answer.ran)
             /\ AtWork(chat', x) = {} => effects'[x] = Effects(shared'[x].ran)
  <2>1. x \in Question \ forgotten /\ WorkingOn(x) = AtWork(chat, x) /\ UNCHANGED shared
    BY <1>2, UnrecordedIs
  <2>2. AtWork(chat', x) = AtWork(chat, x)
    BY <1>2 DEF AtWork, Others
  <2>3. CASE x = q
    <3>1. AtWork(chat, x) = {c}
      BY <1>2, <2>1, <2>3 DEF OneAtWork, AtWork, Working
    <3>2. effects[x] = Effects(chat[c].answer.ran) /\ shared[x] = NoAnswer
      BY <2>1, <3>1 DEF OneAtWork
    <3> QED BY <1>5, <1>6, <2>1, <2>2, <2>3, <3>1, <3>2
  <2>4. CASE x # q
    <3>1. \A o \in AtWork(chat, x) : chat'[o] = chat[o]
      BY <1>2, <2>4 DEF AtWork, Others
    <3> QED BY <1>6, <2>1, <2>2, <2>4, <3>1 DEF OneAtWork
  <2> QED BY <2>3, <2>4
<1>10. OneAtWork'
  BY <1>9, UnrecordedIs DEF OneAtWork
<1> QED BY <1>8, <1>10

\* What the chat's tools did is told in rows, or lost with the chat.
LEMMA Settles ==
  ASSUME ChatTypeOK, EffectsRecorded, NEW c \in Chats, Others(c), chat' \in [Chats -> ChatRecord],
         chat[c].asks \in Question, chat[c].pc \in Unstored, chat'[c].pc \notin Unstored,
         UNCHANGED effects,
         \A q \in Question : rows'[q] + lost'[q]
           = rows[q] + lost[q] + IF chat[c].asks = q THEN Effects(chat[c].answer.ran) ELSE 0
  PROVE  EffectsRecorded'
<1>1. chat \in [Chats -> ChatRecord]
  BY DEF ChatTypeOK
<1>2. \A q : Cardinality(Pending(chat', q)) = Cardinality(Pending(chat, q))
               - IF chat[c].asks = q THEN Effects(chat[c].answer.ran) ELSE 0
  BY <1>1, PendingLeaves DEF Others
<1>3. \A q : Cardinality(Pending(chat, q)) \in Nat /\ Cardinality(Pending(chat', q)) \in Nat
  BY <1>1, PendingFinite
<1>4. Effects(chat[c].answer.ran) \in Nat
  BY <1>1, ActedFinite DEF ChatRecord, AnswerRecord
<1>5. ASSUME NEW q \in Question
      PROVE  effects'[q] = rows'[q] + lost'[q] + Cardinality(Pending(chat', q))
  <2>1. effects[q] = rows[q] + lost[q] + Cardinality(Pending(chat, q))
    BY UnrecordedIs DEF EffectsRecorded
  <2>2. rows[q] \in Nat /\ lost[q] \in Nat
    BY DEF ChatTypeOK
  <2>3. effects'[q] = effects[q]
    OBVIOUS
  <2> QED BY <1>2, <1>3, <1>4, <2>1, <2>2, <2>3
<1> QED BY <1>5, UnrecordedIs DEF EffectsRecorded

LEMMA PersistCounts ==
  ASSUME ChatTypeOK, EffectsRecorded, OneAtWork, NEW c \in Chats, PersistAssistantMessage(c)
  PROVE  EffectsRecorded' /\ OneAtWork'
<1>1. /\ Others(c) /\ chat[c].pc = "persist" /\ chat'[c].pc = "remember" /\ chat[c].asks \in Question
      /\ chat'[c].asks = chat[c].asks /\ chat'[c].answer = chat[c].answer /\ UNCHANGED <<effects, lost>>
  BY StoreFacts DEF KeptAtWork
<1>2. UNCHANGED <<shared, forgotten>>
  BY DEF PersistAssistantMessage
<1>3. OneAtWork'
  BY <1>1, <1>2, SameWork, StillOne DEF Working
<1>4. chat[c].pc \in Unstored /\ chat'[c].pc \notin Unstored /\ chat' \in [Chats -> ChatRecord]
  BY <1>1, PersistTyped DEF Unstored, ChatTypeOK
<1>5. Effects(chat[c].answer.ran) \in Nat
  BY ActedFinite DEF ChatTypeOK, ChatRecord, AnswerRecord
<1>6. \A q \in Question : rows'[q] + lost'[q]
           = rows[q] + lost[q] + IF chat[c].asks = q THEN Effects(chat[c].answer.ran) ELSE 0
  BY <1>1, <1>5 DEF PersistAssistantMessage, ChatTypeOK
<1>7. EffectsRecorded'
  BY <1>1, <1>4, <1>6, Settles
<1> QED BY <1>3, <1>7

LEMMA LoseChatCounts ==
  ASSUME ChatTypeOK, EffectsRecorded, OneAtWork, NEW c \in Chats, LoseChat(c)
  PROVE  EffectsRecorded' /\ OneAtWork'
<1> DEFINE q == chat[c].asks
<1>1. /\ Others(c) /\ chat'[c] = NoChat /\ q \in Question
      /\ UNCHANGED <<shared, rows, effects>>
  BY EndFacts
<1>2. forgotten' = forgotten \cup {q} /\ chat[c].pc \in Unstored /\ chat[c].pc \in Working
  BY DEF LoseChat, Unstored, Working
<1>3. chat'[c].pc \notin Unstored /\ chat'[c].pc \notin Working
  BY <1>1 DEF NoChat, Unstored, Working
<1>4. ASSUME NEW x \in Question \ forgotten'
      PROVE  AtWork(chat', x) = AtWork(chat, x) /\ \A o \in AtWork(chat, x) : chat'[o] = chat[o]
  BY <1>1, <1>2, <1>3, <1>4 DEF AtWork, Others
<1>5. OneAtWork'
  BY <1>1, <1>2, <1>4, StillOne
<1>6. Effects(chat[c].answer.ran) \in Nat
  BY ActedFinite DEF ChatTypeOK, ChatRecord, AnswerRecord
<1>7. \A x \in Question : rows'[x] + lost'[x]
           = rows[x] + lost[x] + IF chat[c].asks = x THEN Effects(chat[c].answer.ran) ELSE 0
  BY <1>1, <1>6 DEF LoseChat, ChatTypeOK
<1>8. chat' \in [Chats -> ChatRecord]
  BY EndTyped DEF ChatTypeOK
<1>9. EffectsRecorded'
  BY <1>1, <1>2, <1>3, <1>7, <1>8, Settles
<1> QED BY <1>5, <1>9

\* The answer goes to Redis: it has the effects of the only chat there was at work.
LEMMA SetSharedCounts ==
  ASSUME ChatTypeOK, EffectsRecorded, OneAtWork, NEW c \in Chats, SetShared(c)
  PROVE  EffectsRecorded' /\ OneAtWork'
<1> DEFINE q == chat[c].asks
<1>1. /\ Others(c) /\ chat[c].pc = "share" /\ chat'[c].pc = "replied" /\ q \in Question
      /\ chat'[c].answer = chat[c].answer /\ UNCHANGED <<rows, effects, lost>>
  BY StoreFacts DEF KeptAtWork, SetShared
<1>2. EffectsRecorded'
  BY <1>1, SameOwing, StillRecorded DEF Unstored
<1>3. \A x \in Question : AtWork(chat', x) = AtWork(chat, x) \ {c}
  BY <1>1 DEF AtWork, Others, Working
<1>4. \A x \in Question : x # q => shared'[x] = shared[x] /\ c \notin AtWork(chat, x)
  BY <1>1 DEF SetShared, ChatTypeOK, AtWork
<1>5. c \in AtWork(chat, q)
  BY <1>1 DEF AtWork, Working
<1>6. forgotten \subseteq forgotten'
      /\ (q \notin forgotten' => shared'[q] = chat[c].answer)
  BY <1>1 DEF SetShared, ChatTypeOK
<1>7. ASSUME NEW x \in Question \ forgotten'
      PROVE  /\ \A a, o \in AtWork(chat', x) : a = o
             /\ \A a \in AtWork(chat', x) : shared'[x] = NoAnswer
                                            /\ effects'[x] = Effects(chat'[a].answer.ran)
             /\ AtWork(chat', x) = {} => effects'[x] = Effects(shared'[x].ran)
  <2>1. x \in Question \ forgotten /\ WorkingOn(x) = AtWork(chat, x)
    BY <1>6, UnrecordedIs
  <2>2. CASE x = q
    <3>1. AtWork(chat, x) = {c} /\ effects[x] = Effects(chat[c].answer.ran)
      BY <1>5, <2>1, <2>2 DEF OneAtWork
    <3> QED BY <1>1, <1>3, <1>6, <2>2, <3>1
  <2>3. CASE x # q
    <3>1. AtWork(chat', x) = AtWork(chat, x) /\ shared'[x] = shared[x]
      BY <1>3, <1>4, <2>3
    <3>2. \A o \in AtWork(chat, x) : chat'[o] = chat[o]
      BY <1>1, <1>4, <2>3 DEF AtWork, Others
    <3> QED BY <1>1, <2>1, <3>1, <3>2 DEF OneAtWork
  <2> QED BY <2>2, <2>3
<1>8. OneAtWork'
  BY <1>7, UnrecordedIs DEF OneAtWork
<1> QED BY <1>2, <1>8

\* An answer that goes is one that may not be found.
LEMMA OtherCounts ==
  ASSUME ChatTypeOK, EffectsRecorded, OneAtWork,
         \/ Expire
         \/ \E e \in Editors : \/ CreateDocument(e) \/ FindDocument(e) \/ DeleteDocument(e)
                               \/ ListKeys(e) \/ DeleteKeys(e)
  PROVE  EffectsRecorded' /\ OneAtWork'
<1>1. /\ \A c \in Chats : /\ chat'[c].pc = chat[c].pc /\ chat'[c].asks = chat[c].asks
                          /\ chat'[c].answer.ran = chat[c].answer.ran
      /\ UNCHANGED <<rows, effects, lost>>
  <2>1. CASE \E e \in Editors : CreateDocument(e) \/ DeleteDocument(e)
    BY <2>1, ChangeKeeps
  <2>2. CASE Expire \/ \E e \in Editors : FindDocument(e) \/ ListKeys(e) \/ DeleteKeys(e)
    BY <2>2 DEF Expire, FindDocument, ListKeys, DeleteKeys
  <2> QED BY <2>1, <2>2
<1>2. /\ forgotten \subseteq forgotten'
      /\ \A q \in Question \ forgotten' : shared'[q] = shared[q]
  <2>1. CASE Expire
    <3>1. PICK x \in Question : /\ forgotten' = forgotten \cup {x}
                                /\ shared' = shared \/ shared' = [shared EXCEPT ![x] = NoAnswer]
      BY <2>1 DEF Expire
    <3> QED BY <3>1 DEF ChatTypeOK
  <2>2. ASSUME NEW e \in Editors, DeleteKeys(e)
        PROVE  /\ forgotten \subseteq forgotten'
               /\ \A q \in Question \ forgotten' : shared'[q] = shared[q]
    BY <2>2 DEF DeleteKeys
  <2>3. CASE \E e \in Editors : CreateDocument(e) \/ FindDocument(e) \/ DeleteDocument(e) \/ ListKeys(e)
    BY <2>3 DEF CreateDocument, FindDocument, DeleteDocument, ListKeys
  <2> QED BY <2>1, <2>2, <2>3
<1>3. \A q : /\ AtWork(chat', q) = AtWork(chat, q) /\ OwingChats(chat', q) = OwingChats(chat, q)
             /\ AtWork(chat, q) \subseteq Chats /\ OwingChats(chat, q) \subseteq Chats
  BY <1>1 DEF AtWork, OwingChats
<1>4. OneAtWork'
  BY <1>1, <1>2, <1>3, StillOne
<1>5. \A q : Pending(chat', q) = Pending(chat, q)
  BY <1>1, <1>3, PendingSame
<1> QED BY <1>1, <1>4, <1>5, StillRecorded

LEMMA StepCounts ==
  ASSUME ChatTypeOK, EffectsRecorded, OneAtWork, NothingRun, [ChatNext]_chatVars
  PROVE  EffectsRecorded' /\ OneAtWork'
<1>1. CASE UNCHANGED chatVars
  BY <1>1, StillOne, StillRecorded DEF chatVars
<1>2. CASE ChatNext
  BY <1>2, QuietSteps, GetSharedCounts, ExecuteToolCounts, PersistCounts, SetSharedCounts,
     LoseChatCounts, OtherCounts DEF ChatNext
<1> QED BY <1>1, <1>2

\* All effects are those of the answer in Redis or of the only chat at work.
LEMMA CountsTell == ChatTypeOK /\ OneAtWork => ActedOnce
<1> SUFFICES ASSUME ChatTypeOK, OneAtWork, NEW q \in Question \ forgotten
             PROVE  \E answer \in {shared[q]} \cup {chat[c].answer : c \in WorkingOn(q)} :
                      effects[q] = Effects(answer.ran)
  BY DEF ActedOnce
<1>1. CASE WorkingOn(q) = {}
  BY <1>1 DEF OneAtWork
<1>2. CASE WorkingOn(q) # {}
  BY <1>2 DEF OneAtWork
<1> QED BY <1>1, <1>2

\* Rows and replies tell what tools did, a question is acted upon once while its
\* answer can be found, and followed-up changes of documents are missed only by
\* memories and overtaken chats: for any processes, chats, plans and documents.
THEOREM RepliesStayTrue == ChatSpec => []RepliesTellWhatRan
<1>1. ChatInit => ChatIInv
  BY ChatInitTyped, InitFollowed, InitAnswers, InitCounts DEF ChatIInv
<1>2. ChatIInv /\ [ChatNext]_chatVars => ChatIInv'
  BY ChatStepTyped, StepFollowed, StepReplayable, StepNothingRun, StepCounts DEF ChatIInv
<1>3. ChatIInv => RepliesTellWhatRan
  BY FollowedExplained, AnswersTell, CountsTell DEF ChatIInv, RepliesTellWhatRan
<1> QED BY <1>1, <1>2, <1>3, PTL DEF ChatSpec
=============================================================================
