-------------------------------- MODULE Tasks --------------------------------
(***************************************************************************)
(* The tasks of one project: creation with keys drawn from the project's   *)
(* nextTaskSequence, status changes with their transition rows, deletion   *)
(* of tasks and statuses, changes that arrive by WhatsApp, and one         *)
(* recurring template worked off by scheduler ticks.                       *)
(*                                                                         *)
(* The database is MySQL under REPEATABLE READ: a transaction reads a      *)
(* snapshot of its beginning, and its writes take effect when it commits.  *)
(* A task is named by the sequence number in its key.                      *)
(***************************************************************************)
EXTENDS Integers, Sequences, FiniteSets

CONSTANTS
    MaxKey,     \* bound on tasks
    Statuses,   \* task statuses of the project
    Done,       \* those with isDone
    Allowed,    \* transitions of the default workflow, as pairs; all of them
                \* when the project has no workflow
    LastRun,    \* occurrences of the template up to its endsAt
    Calls,      \* concurrent executions
    MaxRows,    \* bound on transition rows of a task
    NoStatus

Keys == 1..MaxKey

ASSUME ConstantsAssumption ==
    /\ MaxKey \in Nat /\ LastRun \in Nat /\ MaxRows \in Nat
    /\ Done \subseteq Statuses /\ Allowed \subseteq Statuses \X Statuses
    /\ NoStatus \notin Statuses

VARIABLES
    nextTaskSequence,
    live,        \* statuses that are not deleted
    taskStatus,  \* status of each task, NoStatus where there is none
    deleted,     \* tasks with deletedAt
    reopened,    \* reopenedCount
    run,         \* the occurrence of the template a task was generated for, or 0
    log,         \* TaskStatusTransition rows of each task, in order
    nextRun,     \* the occurrence nextRunAt stands for
    call         \* the executions

vars == <<nextTaskSequence, live, taskStatus, deleted, reopened, run, log, nextRun, call>>

CallRecord ==
    [pc: {"idle", "open", "create", "generate", "skip", "target", "move", "message", "drop"},
     target: Statuses \cup {NoStatus},
     seen: [Keys -> Statuses \cup {NoStatus}],  \* statuses read, of the tasks to change
     sequence: 1..(MaxKey + 1),                 \* nextTaskSequence in the snapshot
     due: 1..(LastRun + 1)]                     \* nextRun in the snapshot

Nothing == [k \in Keys |-> NoStatus]
Idle == [pc |-> "idle", target |-> NoStatus, seen |-> Nothing, sequence |-> 1, due |-> 1]

Existing == {k \in Keys : taskStatus[k] # NoStatus}
Row == [from: Statuses \cup {NoStatus}, to: Statuses]

TypeOK ==
    /\ nextTaskSequence \in 1..(MaxKey + 1)
    /\ live \subseteq Statuses
    /\ taskStatus \in [Keys -> Statuses \cup {NoStatus}]
    /\ deleted \subseteq Keys
    /\ reopened \in [Keys -> Nat]
    /\ run \in [Keys -> 0..LastRun]
    /\ log \in [Keys -> Seq(Row)]
    /\ nextRun \in 1..(LastRun + 1)
    /\ call \in [Calls -> CallRecord]

Init ==
    /\ nextTaskSequence = 1
    /\ live = Statuses
    /\ taskStatus = Nothing
    /\ deleted = {}
    /\ reopened = [k \in Keys |-> 0]
    /\ run = [k \in Keys |-> 0]
    /\ log = [k \in Keys |-> <<>>]
    /\ nextRun = 1
    /\ call = [c \in Calls |-> Idle]

-----------------------------------------------------------------------------
\* createTask

Return(c) == call' = [call EXCEPT ![c] = Idle]

\* The status is checked before the transaction begins.
CreateTask(c, s) ==
    /\ call[c].pc = "idle"
    /\ s \in live
    /\ call' = [call EXCEPT ![c].pc = "open", ![c].target = s]
    /\ UNCHANGED <<nextTaskSequence, live, taskStatus, deleted, reopened, run, log, nextRun>>

\* The transaction's snapshot, with the sequence the key is made from.
OpenCreate(c) ==
    /\ call[c].pc = "open"
    /\ call' = [call EXCEPT ![c].pc = "create", ![c].sequence = nextTaskSequence]
    /\ UNCHANGED <<nextTaskSequence, live, taskStatus, deleted, reopened, run, log, nextRun>>

\* Mutant: the key is looked up in the snapshot, not in the unique index.
KeyFreeInSnapshot(k) == k \in Keys

\* What the unique key (tenantId, key) admits.
KeyFree(k) == k \in Keys /\ taskStatus[k] = NoStatus

\* Mutant: the key is made from the sequence as it is when the row is stored.
StoreTaskFresh(c, occurrence) ==
    LET k == nextTaskSequence IN
    /\ KeyFree(k)
    /\ nextTaskSequence' = nextTaskSequence + 1
    /\ taskStatus' = [taskStatus EXCEPT ![k] = call[c].target]
    /\ run' = [run EXCEPT ![k] = occurrence]
    /\ log' = [log EXCEPT ![k] = Append(@, [from |-> NoStatus, to |-> call[c].target])]

\* The sequence is incremented where it stands, the key is the one of the snapshot.
StoreTask(c, occurrence) ==
    LET k == call[c].sequence IN
    /\ KeyFree(k)
    /\ nextTaskSequence' = nextTaskSequence + 1
    /\ taskStatus' = [taskStatus EXCEPT ![k] = call[c].target]
    /\ run' = [run EXCEPT ![k] = occurrence]
    /\ log' = [log EXCEPT ![k] = Append(@, [from |-> NoStatus, to |-> call[c].target])]

\* 'Task key already exists': the transaction is rolled back.
Conflict(c) ==
    /\ call[c].sequence \in Keys /\ ~KeyFree(call[c].sequence)
    /\ UNCHANGED <<nextTaskSequence, taskStatus, run, log, nextRun>>

CommitCreate(c) ==
    /\ call[c].pc = "create"
    /\ \/ StoreTask(c, 0) /\ UNCHANGED nextRun
       \/ Conflict(c)
    /\ Return(c)
    /\ UNCHANGED <<live, deleted, reopened>>

-----------------------------------------------------------------------------
\* RecurringTaskTemplatesService.processTemplate

\* A tick of the scheduler finds the template due and active; the snapshot shows
\* the sequence, the occurrence due and the statuses that are not deleted.
OpenRun(c) ==
    /\ call[c].pc = "idle"
    /\ nextRun <= LastRun
    /\ \/ \E s \in live :
             call' = [call EXCEPT ![c] = [Idle EXCEPT
                !.pc = "generate", !.target = s,
                !.sequence = nextTaskSequence, !.due = nextRun]]
       \/ /\ live = {}
          /\ call' = [call EXCEPT ![c] = [Idle EXCEPT !.pc = "skip", !.due = nextRun]]
    /\ UNCHANGED <<nextTaskSequence, live, taskStatus, deleted, reopened, run, log, nextRun>>

CommitRun(c) ==
    /\ \/ /\ call[c].pc = "generate"
          /\ StoreTask(c, call[c].due)
          /\ nextRun' = call[c].due + 1
       \/ /\ call[c].pc = "generate"
          /\ Conflict(c)
       \/ /\ call[c].pc = "skip"
          /\ nextRun' = call[c].due + 1
          /\ UNCHANGED <<nextTaskSequence, taskStatus, run, log>>
    /\ Return(c)
    /\ UNCHANGED <<live, deleted, reopened>>

-----------------------------------------------------------------------------
\* Status changes

\* updateTask and changeStatus (one task) and bulkOperate (several) read the
\* tasks with their statuses.
ReadTasks(c, K) ==
    /\ call[c].pc = "idle"
    /\ K # {} /\ K \subseteq Existing \ deleted
    /\ call' = [call EXCEPT ![c].pc = "target",
                            ![c].seen = [k \in Keys |-> IF k \in K THEN taskStatus[k] ELSE NoStatus]]
    /\ UNCHANGED <<nextTaskSequence, live, taskStatus, deleted, reopened, run, log, nextRun>>

Chosen(c) == {k \in Keys : call[c].seen[k] # NoStatus}

\* ensureTransitionAllowed
TransitionAllowed(from, to) == from = to \/ <<from, to>> \in Allowed

\* getTaskStatusInProject, then the workflow; a transition it lacks fails the
\* whole request.
ResolveTarget(c, s) ==
    /\ call[c].pc = "target"
    /\ \/ /\ s \in live
          /\ \A k \in Chosen(c) : TransitionAllowed(call[c].seen[k], s)
          /\ call' = [call EXCEPT ![c].pc = "move", ![c].target = s]
       \/ /\ s \notin live \/ \E k \in Chosen(c) : ~TransitionAllowed(call[c].seen[k], s)
          /\ Return(c)
    /\ UNCHANGED <<nextTaskSequence, live, taskStatus, deleted, reopened, run, log, nextRun>>

\* Mutant: the two statuses are swapped.
ReopensSwapped(from, to) == from # to /\ from \notin Done /\ to \in Done

\* A change from a done status to one that is not.
Reopens(from, to) == from # to /\ from \in Done /\ to \notin Done

\* Mutant: no transition row is written.
LoggedNever(from, to) == FALSE

\* isStatusChange
Logged(from, to) == from # to

\* The transaction writes the status in any case; row and counter follow the
\* status that was read.
MoveTasks(c) ==
    LET to == call[c].target IN
    /\ call[c].pc = "move"
    /\ \A k \in Chosen(c) : Len(log[k]) < MaxRows
    /\ taskStatus' = [k \in Keys |-> IF k \in Chosen(c) THEN to ELSE taskStatus[k]]
    /\ log' = [k \in Keys |->
                 IF k \in Chosen(c) /\ Logged(call[c].seen[k], to)
                 THEN Append(log[k], [from |-> call[c].seen[k], to |-> to]) ELSE log[k]]
    /\ reopened' = [k \in Keys |->
                      IF k \in Chosen(c) /\ Reopens(call[c].seen[k], to)
                      THEN reopened[k] + 1 ELSE reopened[k]]
    /\ Return(c)
    /\ UNCHANGED <<nextTaskSequence, live, deleted, run, nextRun>>

\* TASK_START and TASK_DONE of the WhatsApp commands look up a task and a status
\* and store it, without workflow or transition row.
OpenMessage(c, k, s) ==
    /\ call[c].pc = "idle"
    /\ k \in Existing \ deleted /\ s \in live
    /\ call' = [call EXCEPT ![c].pc = "message", ![c].target = s,
                            ![c].seen = [Nothing EXCEPT ![k] = taskStatus[k]]]
    /\ UNCHANGED <<nextTaskSequence, live, taskStatus, deleted, reopened, run, log, nextRun>>

ExecuteCommand(c) ==
    /\ call[c].pc = "message"
    /\ taskStatus' = [k \in Keys |->
                        IF k \in Chosen(c) THEN call[c].target ELSE taskStatus[k]]
    /\ Return(c)
    /\ UNCHANGED <<nextTaskSequence, live, deleted, reopened, run, log, nextRun>>

-----------------------------------------------------------------------------
\* Deletion

DeleteTask(k) ==
    /\ k \in Existing \ deleted
    /\ deleted' = deleted \cup {k}
    /\ UNCHANGED <<nextTaskSequence, live, taskStatus, reopened, run, log, nextRun, call>>

\* deleteStatus counts the tasks that have the status ...
CountTasks(c, s) ==
    /\ call[c].pc = "idle"
    /\ s \in live
    /\ \A k \in Existing \ deleted : taskStatus[k] # s
    /\ call' = [call EXCEPT ![c].pc = "drop", ![c].target = s]
    /\ UNCHANGED <<nextTaskSequence, live, taskStatus, deleted, reopened, run, log, nextRun>>

\* ... and deletes it in a second statement.
DropStatus(c) ==
    /\ call[c].pc = "drop"
    /\ live' = live \ {call[c].target}
    /\ Return(c)
    /\ UNCHANGED <<nextTaskSequence, taskStatus, deleted, reopened, run, log, nextRun>>

CallStep(c) ==
    \/ \E s \in Statuses : CreateTask(c, s)
    \/ OpenCreate(c) \/ CommitCreate(c)
    \/ OpenRun(c) \/ CommitRun(c)
    \/ \E K \in SUBSET Keys : ReadTasks(c, K)
    \/ \E s \in Statuses : ResolveTarget(c, s)
    \/ MoveTasks(c)
    \/ \E k \in Keys, s \in Statuses : OpenMessage(c, k, s)
    \/ ExecuteCommand(c)
    \/ \E s \in Statuses : CountTasks(c, s)
    \/ DropStatus(c)

Next ==
    \/ \E c \in Calls : CallStep(c)
    \/ \E k \in Keys : DeleteTask(k)

Spec == Init /\ [][Next]_vars

-----------------------------------------------------------------------------
\* Properties

\* The keys in use are those below the project's sequence, without a gap,
\* although reading the sequence, incrementing it and storing the key are steps
\* that other creations come between.
KeysDense == \A k \in Keys : k \in Existing <=> k < nextTaskSequence

\* An occurrence of a recurring template yields at most one task, whichever
\* ticks, replicas and creations overlap; it is the unique key of tasks that
\* makes the second of two overlapping generations fail.
GeneratedOnce == \A j, k \in Keys : run[j] = run[k] /\ run[j] # 0 => j = k

\* The path the rows of a task describe, from its creation to its status.
Tracks(k) ==
    /\ log[k][Len(log[k])].to = taskStatus[k]
    /\ \A i \in 2..Len(log[k]) : log[k][i].from = log[k][i - 1].to

\* A status change that works on the status it has read extends the path; only
\* a stale one, or one by WhatsApp, can break it.
PathBreaksByStaleChange ==
    [][\A k \in Existing : Tracks(k) /\ ~Tracks(k)' =>
          \E c \in Calls :
             /\ call[c].pc \in {"move", "message"} /\ call'[c] = Idle
             /\ call[c].seen[k] # NoStatus
             /\ \/ call[c].pc = "message"
                \/ call[c].seen[k] # taskStatus[k]]_vars

\* reopenedCount tells how often the rows show the task leaving a done status
\* for one that is not, also when changes overlap.
ReopenedCounts ==
    \A k \in Keys :
        reopened[k] = Cardinality({i \in 2..Len(log[k]) :
                                      log[k][i].from \in Done /\ log[k][i].to \notin Done})
=============================================================================
