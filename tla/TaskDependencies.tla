--------------------------- MODULE TaskDependencies ---------------------------
(***************************************************************************)
(* Dependencies between the tasks of one project.  createDependency walks  *)
(* the dependencies from the new one's far end (wouldCreateCycle), one     *)
(* query per task, and inserts a row when the walk did not come back;      *)
(* other calls insert and delete rows meanwhile.                           *)
(***************************************************************************)
CONSTANTS
    Tasks,
    Calls    \* concurrent executions of createDependency

VARIABLES
    dependsOn,  \* the TaskDependency rows, as pairs <<task, dependsOnTask>>
    call        \* the executions

vars == <<dependsOn, call>>

CallRecord ==
    [edge: SUBSET (Tasks \X Tasks),  \* the row to insert, {} when idle
     stack: SUBSET Tasks,            \* tasks to visit; the order is immaterial
     visited: SUBSET Tasks,
     alone: BOOLEAN]                 \* no row was inserted since (history)

Idle == [edge |-> {}, stack |-> {}, visited |-> {}, alone |-> TRUE]

TypeOK ==
    /\ dependsOn \subseteq Tasks \X Tasks
    /\ call \in [Calls -> CallRecord]

\* No set of tasks is such that each waits for another of them.
Acyclic ==
    \A S \in SUBSET Tasks :
        S # {} => \E t \in S : \A d \in S : <<t, d>> \notin dependsOn

Init ==
    /\ dependsOn = {}
    /\ call = [c \in Calls |-> Idle]

-----------------------------------------------------------------------------
Return(c) == call' = [call EXCEPT ![c] = Idle]

\* A task that is to depend on itself is refused at once.
CreateDependency(c, t, d) ==
    /\ call[c] = Idle
    /\ t # d
    /\ call' = [call EXCEPT ![c] = [Idle EXCEPT !.edge = {<<t, d>>}, !.stack = {d}]]
    /\ UNCHANGED dependsOn

\* Mutant: tasks visited before are visited again.
PushedAgain(t, visited) == {d \in Tasks : <<t, d>> \in dependsOn}

\* Mutant: the walk looks no further than the far end.
PushedNone(t, visited) == {}

\* What the query about t adds to the stack.
Pushed(t, visited) == {d \in Tasks : <<t, d>> \in dependsOn} \ visited

\* One round of wouldCreateCycle; coming back to the task refuses the row.
Walk(c) ==
    \E edge \in call[c].edge, t \in call[c].stack :
       /\ \/ t = edge[1] /\ Return(c)
          \/ /\ t # edge[1]
             /\ call' = [call EXCEPT
                  ![c].visited = @ \cup {t},
                  ![c].stack = (@ \ {t}) \cup Pushed(t, call[c].visited \cup {t})]
       /\ UNCHANGED dependsOn

\* 'Dependency already exists': the unique key refuses a second row for a pair.
InsertDependency(c) ==
    /\ call[c].edge # {} /\ call[c].stack = {}
    /\ \/ /\ call[c].edge \subseteq dependsOn
          /\ Return(c)
          /\ UNCHANGED dependsOn
       \/ /\ ~(call[c].edge \subseteq dependsOn)
          /\ dependsOn' = dependsOn \cup call[c].edge
          /\ call' = [d \in Calls |-> IF d = c \/ call[d].edge = {} THEN Idle
                                      ELSE [call[d] EXCEPT !.alone = FALSE]]

\* The row is looked up and deleted by id: deleting it twice fails.
DeleteDependency(edge) ==
    /\ edge \in dependsOn
    /\ dependsOn' = dependsOn \ {edge}
    /\ UNCHANGED call

CallStep(c) == Walk(c) \/ InsertDependency(c)

Next ==
    \/ \E c \in Calls, t \in Tasks, d \in Tasks : CreateDependency(c, t, d)
    \/ \E c \in Calls : CallStep(c)
    \/ \E edge \in Tasks \X Tasks : DeleteDependency(edge)

Spec == Init /\ [][Next]_vars

\* The server goes on with the calls it has accepted.
FairSpec == Spec /\ \A c \in Calls : WF_vars(CallStep(c))

-----------------------------------------------------------------------------
\* Properties

\* A cycle appears only by a call whose check ran while another dependency was
\* inserted: deletions, however they fall into the walk, never let one through.
CycleOnlyByOverlap ==
    [][Acyclic /\ ~Acyclic' =>
          \E c \in Calls : call[c] # Idle /\ ~call[c].alone /\ call'[c] = Idle]_vars

\* Every call ends, even among dependencies that have become circular and
\* although the rows change under the walk.
CallsEnd == \A c \in Calls : call[c] # Idle ~> call[c] = Idle
=============================================================================
