------------------------------- MODULE MCTasks -------------------------------
(* Scenario "tasks": one open and one done status.  The workflow only has    *)
(* the way back to the open one, tasks are finished by message: so changes   *)
(* are refused, tasks are reopened and statuses change without a row.        *)
(* Scenarios "again" and "twins": the seed script, stopped and run again     *)
(* with the API at work, and run twice at once.  Scenario "board": two cards *)
(* on a board with one column, and a second one that others add.             *)
EXTENDS Tasks, Board, Seed, SeedScript, TLC

CONSTANTS todo, done, noStatus, c1, c2

MCStatuses == {todo, done}
MCDone == {done}
MCAllowed == {<<done, todo>>}
MCCalls == {c1, c2}
MCCards == {1, 2}
MCFirst == {todo}
MCWays == {<<todo, done>>}
MCSymmetry == Permutations(Calls)

VARIABLES
    scenario,
    acts      \* what the API has done in scenario "again"

MCInit ==
    /\ Init /\ SeedInit /\ BoardInit /\ acts = 0
    /\ scenario \in {"tasks", "again", "twins", "board"}

\* The API acts twice at most.  A run meets one kind of thing, so that no excuse
\* hides another.
Alone ==
    /\ Cardinality({c \in Calls : running'[c].at # 0}) <= 1
    /\ \A c \in Calls : Cardinality(running'[c].met) <= 1
    /\ \A k \in 2..4 : task'[k] # "moved"
    /\ acts' = acts + (IF \E c \in Calls : running'[c].at # running[c].at THEN 0 ELSE 1)
    /\ acts' <= 2

\* Runs of twins end early only by a row in their way.
Twins ==
    /\ Cardinality({i \in Statements : stored'[i] > 1}) <= 1
    /\ \A c \in Calls : LET at == running[c].at IN
          at \notin {0, Len(Script)} /\ running'[c].at = 0 => Script[at].op = "insert"

MCNext ==
    /\ UNCHANGED scenario
    /\ \/ /\ scenario = "tasks" /\ Next
          /\ Len(log'[1]) + Len(log'[2]) <= 4 /\ deleted' \subseteq {1}
          /\ UNCHANGED <<acts, seedVars, boardVars>>
       \/ /\ \/ scenario = "again" /\ SeedNext /\ Alone
             \/ scenario = "twins" /\ (\E c \in Calls : RunStep(c)) /\ Twins /\ UNCHANGED acts
          /\ UNCHANGED <<vars, boardVars>>
       \/ /\ scenario = "board" /\ BoardNext /\ writes'[1] + writes'[2] <= 3
          /\ UNCHANGED <<acts, vars, seedVars>>

MCSpec == MCInit /\ [][MCNext]_<<vars, seedVars, boardVars, acts, scenario>>
===============================================================================
