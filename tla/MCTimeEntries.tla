---------------------------- MODULE MCTimeEntries ----------------------------
(* One person, a cap of four quarter hours, a budget of five units: the      *)
(* thresholds are reached at 4, 5 and 6.  In the scenarios "figures" and      *)
(* "scopes" nothing of that happens: a dashboard is asked for while tasks    *)
(* change, or teams and members.                                             *)
EXTENDS TimeEntries, Dashboards, TLC

CONSTANTS ann, apollo, r1, r2

MCUsers == {ann}
MCProjects == {apollo}
MCRequests == {r1, r2}
MCHours == {3}
MCDeltas == {-1, 1}
MCThresholds == {80, 100, 120}
MCSymmetry == Permutations(Requests)

MCUser == {"lead", "ben"}
MCTask == {"t1", "t2"}
MCChanger == {"c1"}

VARIABLES scenario, moves

\* The figures are those of one user on the last day, after and during three
\* changes of tasks.  The first task is created in the range, and reassigned or
\* deleted only while it is counted; the second is only created, in the range or
\* before.  The scopes need no tasks.
Figures ==
    LET t1 == task'["t1"]
        t2 == task'["t2"]
    IN
    /\ call'.kind \in {"none", "user"} /\ call'.of = "lead"
    /\ (call'.kind = "user" => day = 2)
    /\ (t1.status = "none" \/ t1.created > 0 \/ Reading)
    /\ (t1.status = "deleted" \/ t1.assignee # "lead" => Reading \/ UNCHANGED task)
    /\ t2.status \in {"none", "todo"} /\ t2.assignee = "lead" /\ t2.created < 2
    /\ t2.since = t2.created
    /\ change'["c1"].task = "t1"
    /\ moves' <= 3
    /\ UNCHANGED <<active, team, member>>
Scopes == UNCHANGED <<day, task, change>>

MCInit ==
    /\ Init /\ DashboardsInit /\ moves = 0
    /\ scenario \in {"entries", "figures", "scopes"}
    /\ scenario # "scopes" => team = {} /\ member = {}

MCNext ==
    /\ UNCHANGED scenario
    /\ \/ /\ scenario = "entries"
          /\ Next
          /\ UNCHANGED <<moves, dashboardVars>>
       \/ /\ scenario # "entries"
          /\ DashboardsNext
          /\ moves' = moves + (IF task' # task THEN 1 ELSE 0)
          /\ (IF scenario = "figures" THEN Figures ELSE Scopes) = TRUE
          /\ UNCHANGED vars

MCSpec == MCInit /\ [][MCNext]_<<vars, scenario, moves, dashboardVars>>
=============================================================================
