--------------------------------- MODULE Seed ---------------------------------
(***************************************************************************)
(* The seed script of the demo tenant: a sequence of statements without a  *)
(* transaction around them, run again after a failure, run twice at once,  *)
(* and run while the API serves the project it writes to.                  *)
(*                                                                         *)
(* The statements are those of SeedScript, or others in their order.  The  *)
(* three seeded tasks, T-101 to T-103, have the keys 1 to 3.               *)
(***************************************************************************)
EXTENDS Naturals, Sequences, FiniteSets

CONSTANTS
    Script,           \* the statements
    CreateMilestone,  \* the one that creates the milestone
    Runs,             \* executions of the script
    LastTaskKey       \* bound on the keys of tasks

TaskKeys == 1..LastTaskKey
SeededKeys == 1..3

Statements == DOMAIN Script

\* Those that create rows, which they share with no other statement.
Creating == {i \in Statements : Script[i].op \in {"keyed", "store", "insert"}}

\* The one statement of a kind, and the one that upserts a task.
The(op) == CHOOSE i \in Statements : Script[i].op = op
Upsert(k) == CHOOSE i \in Statements : Script[i].op = "task" /\ Script[i].key = k

Unique == {"project", "forget", "log", "advance"}

\* The order of the statements, as far as it matters: a row is looked for before it
\* is stored, a deletion comes before what creates the rows anew, the project before
\* its sequence is written, and the tasks and their old rows before the new ones.
InOrder ==
    /\ Len(Script) \in Nat \ {0} /\ Statements = 1..Len(Script)
    /\ LastTaskKey \in Nat /\ LastTaskKey >= 3
    /\ \A i \in Statements :
         /\ Script[i].op = "look" => i + 1 \in Statements /\ Script[i + 1].op = "store"
         /\ Script[i].op = "store" => i - 1 \in Statements /\ Script[i - 1].op = "look"
         /\ Script[i].op = "clear" => i + 1 \in Statements /\ Script[i + 1].op = "insert"
         /\ Script[i].op = "task" => Script[i].key \in SeededKeys
    /\ \A op \in Unique :
         The(op) \in Statements /\ \A i \in Statements : Script[i].op = op <=> i = The(op)
    /\ \A k \in SeededKeys :
         /\ Upsert(k) \in Statements /\ Upsert(k) < The("log")
         /\ Script[Upsert(k)].op = "task" /\ Script[Upsert(k)].key = k
    /\ The("forget") < The("log") /\ The("project") < The("advance")
    /\ \A op \in Unique : The(op) < Len(Script)
    /\ CreateMilestone \in Creating /\ Len(Script) \in Creating

ASSUME ScriptInOrder == InOrder

-----------------------------------------------------------------------------
\* State

VARIABLES
    stored,   \* copies of the rows that each statement creates
    next,     \* the project's nextTaskSequence, 0 before there is a project
    task,     \* status of the task with each key: "none", "seeded" or "moved"
    history,  \* status in the last transition row of each task
    running,  \* the executions: the statement due, what was read and who acted meanwhile
    crossed   \* history: what has ever acted during a run, of those with lasting effects

seedVars == <<stored, next, task, history, running, crossed>>

Stopped == [at |-> 0, found |-> FALSE, sequence |-> 0, met |-> {}]

SeedInit ==
    /\ stored = [i \in Statements |-> 0]
    /\ next = 0
    /\ task = [k \in TaskKeys |-> "none"] /\ history = [k \in TaskKeys |-> "none"]
    /\ running = [r \in Runs |-> Stopped]
    /\ crossed = {}

Active == {r \in Runs : running[r].at # 0}

\* What every run but r's own learns: something of this kind happened beside it.
Meets(record, kind) == [record EXCEPT !.met = @ \cup {kind}]

-----------------------------------------------------------------------------
\* The runs

\* A run at the first statement.
AtStart == [at |-> 1, found |-> FALSE, sequence |-> 0, met |-> IF Active = {} THEN {} ELSE {"run"}]

Begin(r) ==
    /\ running[r].at = 0
    /\ running' = [q \in Runs |->
                     CASE q = r -> AtStart
                       [] q \in Active -> Meets(running[q], "run")
                       [] OTHER -> running[q]]
    /\ crossed' = IF Active = {} THEN crossed ELSE crossed \cup {"run"}
    /\ UNCHANGED <<stored, next, task, history>>

\* To the next statement, or to the end.
Advanced(r) == IF running[r].at = Len(Script) THEN Stopped ELSE [running[r] EXCEPT !.at = @ + 1]

\* What a statement stores; the deletion is followed by the statement that
\* creates the rows anew.
PutRows(r, i) ==
    stored' = CASE Script[i].op = "keyed" -> [stored EXCEPT ![i] = 1]
              [] Script[i].op = "store" -> [stored EXCEPT ![i] = IF running[r].found THEN @ ELSE @ + 1]
              [] Script[i].op = "insert" -> [stored EXCEPT ![i] = @ + 1]
              [] Script[i].op = "clear" -> [stored EXCEPT ![i + 1] = 0]

\* Without skipDuplicates a row that is there is an error.
Write(r) ==
    LET i == running[r].at IN
    /\ Script[i].op \in {"keyed", "store", "insert", "clear"}
    /\ Script[i].op = "insert" => stored[i] = 0
    /\ PutRows(r, i)
    /\ running' = [running EXCEPT ![r] = [Advanced(r) EXCEPT !.found = FALSE]]
    /\ UNCHANGED <<next, task, history, crossed>>

\* The row is the one the next statement creates.
Look(r) ==
    LET i == running[r].at IN
    /\ Script[i].op = "look"
    /\ running' = [running EXCEPT ![r] = [Advanced(r) EXCEPT !.found = stored[i + 1] > 0]]
    /\ UNCHANGED <<stored, next, task, history, crossed>>

\* The upsert of the project, which yields the sequence as it is.
UpsertProject(r) ==
    /\ Script[running[r].at].op = "project"
    /\ next' = IF next = 0 THEN 1 ELSE next
    /\ running' = [running EXCEPT ![r] = [Advanced(r) EXCEPT !.sequence = next']]
    /\ UNCHANGED <<stored, task, history, crossed>>

\* The upsert of a task takes over the row that has its key, whoever created it.
UpsertTask(r) ==
    LET step == Script[running[r].at] IN
    /\ step.op = "task"
    /\ task' = [task EXCEPT ![step.key] = "seeded"]
    /\ running' = [running EXCEPT ![r] = Advanced(r)]
    /\ UNCHANGED <<stored, next, history, crossed>>

\* The rows of the three tasks are deleted; the new ones show the statuses their
\* upserts returned.
RewriteHistory(r) ==
    LET step == Script[running[r].at] IN
    /\ step.op \in {"forget", "log"}
    /\ history' = [k \in TaskKeys |->
                     IF k \notin SeededKeys THEN history[k]
                     ELSE IF step.op = "log" THEN "seeded" ELSE "none"]
    /\ running' = [running EXCEPT ![r] = Advanced(r)]
    /\ UNCHANGED <<stored, next, task, crossed>>

\* Mutant: the sequence is set to what follows the seeded keys.
SequenceReset(sequence) == 4

\* Past the seeded keys, and not behind the sequence that was read.
SequenceAfter(sequence) == IF sequence > 4 THEN sequence ELSE 4

AdvanceSequence(r) ==
    /\ Script[running[r].at].op = "advance"
    /\ next' = SequenceAfter(running[r].sequence)
    /\ running' = [running EXCEPT ![r] = [Advanced(r) EXCEPT !.sequence = 0]]
    /\ UNCHANGED <<stored, task, history, crossed>>

\* A statement or the process fails; so does a statement that finds the rows of
\* another run in its way.  The error ends the process.
Fail(r) ==
    /\ r \in Active
    /\ running' = [running EXCEPT ![r] = Stopped]
    /\ UNCHANGED <<stored, next, task, history, crossed>>

-----------------------------------------------------------------------------
\* The API, as far as it meets what the script writes

Beside(kind) ==
    running' = [r \in Runs |-> IF r \in Active THEN Meets(running[r], kind) ELSE running[r]]

\* createTask in the seeded project; the unique key refuses a second task.
CreateTaskBeside ==
    /\ next \in TaskKeys /\ task[next] = "none"
    /\ task' = [task EXCEPT ![next] = "seeded"]
    /\ history' = [history EXCEPT ![next] = "seeded"]
    /\ next' = next + 1
    /\ Beside("create")
    /\ crossed' = IF Active = {} THEN crossed ELSE crossed \cup {"create"}
    /\ UNCHANGED stored

\* changeStatus with its transition row.
ChangeStatus(k) ==
    /\ task[k] # "none"
    /\ task' = [task EXCEPT ![k] = IF @ = "moved" THEN "seeded" ELSE "moved"]
    /\ history' = [history EXCEPT ![k] = task'[k]]
    /\ Beside("change")
    /\ UNCHANGED <<stored, next, crossed>>

\* deleteMilestone; the script looks for milestones that are not deleted.
DeleteMilestone ==
    /\ stored[CreateMilestone] > 0
    /\ stored' = [stored EXCEPT ![CreateMilestone] = @ - 1]
    /\ Beside("delete")
    /\ UNCHANGED <<next, task, history, crossed>>

RunStep(r) ==
    \/ Begin(r)
    \/ r \in Active /\ (Write(r) \/ Look(r) \/ UpsertProject(r) \/ UpsertTask(r)
                        \/ RewriteHistory(r) \/ AdvanceSequence(r))
    \/ Fail(r)

SeedNext ==
    \/ \E r \in Runs : RunStep(r)
    \/ CreateTaskBeside
    \/ \E k \in TaskKeys : ChangeStatus(k)
    \/ DeleteMilestone

SeedSpec == SeedInit /\ [][SeedNext]_seedVars

-----------------------------------------------------------------------------
\* Properties

Completes(r) == r \in Active /\ running[r].at = Len(Script) /\ Write(r)

\* However often the script was stopped halfway, and whatever was done to its
\* rows in between, a run that comes to its end leaves every entry once, the
\* rows of its tasks ending at their statuses, and a sequence past all keys.
\* Only something beside a run can spoil that: a second run doubles what has no
\* unique key, a task created after the sequence was read leaves it behind the
\* key, for good, and a deletion or a status change shows in what it touched.
SeedConverges ==
    [][\A r \in Runs : Completes(r) =>
         LET met == running[r].met IN
         /\ (\E i \in Creating : stored'[i] > 1) => "run" \in crossed
         /\ (\E i \in Creating : stored'[i] = 0) => met \cap {"run", "delete"} # {}
         /\ (\E k \in SeededKeys : history[k] # task[k]) => met \cap {"run", "change"} # {}
         /\ (\E k \in TaskKeys : task[k] # "none" /\ k >= next) => "create" \in crossed]_seedVars
=============================================================================
