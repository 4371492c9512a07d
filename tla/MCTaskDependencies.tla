------------------------- MODULE MCTaskDependencies -------------------------
(***************************************************************************)
(* Scenarios beside one another: dependencies between three tasks, the     *)
(* fewest with a cycle that no single row closes directly; reviews of one  *)
(* month, one user and one lead in one team; one project with what hangs   *)
(* on it; and three templates, of which a tick takes one, in a calendar    *)
(* whose second month is short.                                            *)
(***************************************************************************)
EXTENDS TaskDependencies, Reviews, Projects, TLC

CONSTANTS t1, t2, t3, c1, c2, admin, lead, person, team, month, p1, m1, s1, s2, w1, w2,
    early, late, weekly, p2

VARIABLES
    scenario,
    today, template, deleted, bare, broken, tick, stops

templateVars == <<today, template, deleted, bare, broken, tick, stops>>
all == <<dependsOn, call, scenario, reviewVars, projectVars, templateVars>>

MCTasks == {t1, t2, t3}
MaxRows == 2
MCCalls == {c1, c2}
MCCycles == {month}
MCTeams == {team}
MCLeads == {lead}
MCAdmins == {admin}
MCPersons == {person}
MCProjects == {p1}
MCMilestones == {m1}
MCStatuses == {s1, s2}
MCWorkflows == {w1, w2}

MCTemplates == {early, late, weekly}

T == INSTANCE Templates WITH
        Template <- MCTemplates, Project <- {p1, p2},
        ProjectOf <- [t \in MCTemplates |-> IF t = late THEN p2 ELSE p1],
        Frequency <- [t \in MCTemplates |-> IF t = weekly THEN "WEEKLY" ELSE "MONTHLY"],
        Interval <- [t \in MCTemplates |-> IF t = late THEN 0 ELSE 1],
        Start <- [t \in MCTemplates |-> IF t = late THEN 3 ELSE 2],
        End <- [t \in MCTemplates |-> IF t = weekly THEN 6 ELSE 99],
        MonthLengths <- <<3, 2, 3>>, WeekLength <- 3, Limit <- 1, MaxStops <- 1, MaxChanges <- 2

-----------------------------------------------------------------------------
MCInit ==
    /\ scenario \in {"dependencies", "reviews", "projects", "rows", "templates"}
    /\ Init /\ ReviewsInit /\ ProjectsInit /\ T!Init
    /\ \A u \in {lead, admin, person} : scenario # "reviews" \/ u = admin => teams[u] = {}

\* The reviewed user is the person, or the lead himself.
ReviewsStep ==
    /\ scenario = "reviews"
    /\ ReviewsNext
    /\ teams'[admin] = {} /\ {lead, admin} \subseteq present'
    /\ \A c \in Calls : \A e \in review'[c].of : e.reviewed = person
    /\ UNCHANGED <<scenario, vars, projectVars, templateVars>>

Taken == {i \in {s1, s2, w1, w2} :
            row[i] # NoRow \/ \E c \in Calls : request[c].item = i}

\* Members and milestones on their own, then statuses and workflows, two of one
\* kind and one of the other: callers are the administrator alone, who may also
\* delete the project.
ProjectsStep ==
    /\ scenario \in {"projects", "rows"}
    /\ ProjectsNext
    /\ \A c \in Calls : LET d == request'[c] IN
          /\ d.names \subseteq {s1}
          /\ IF scenario = "projects" THEN d.item \notin {s1, s2, w1, w2}
             ELSE /\ d.by # lead
                  /\ d.op \notin {"update project", "add members", "create milestone"}
    /\ scenario = "rows" => /\ member'[p1][lead] = None
                            /\ ~({s2, w2} \subseteq Taken')
    /\ UNCHANGED <<scenario, vars, reviewVars, templateVars>>

\* A call begins only while there are few rows.
Few == \A c \in Calls : call[c] # Idle \/ call'[c] = Idle \/ Cardinality(dependsOn) <= MaxRows

DependenciesStep(A) ==
    /\ scenario = "dependencies"
    /\ A
    /\ UNCHANGED <<scenario, reviewVars, projectVars, templateVars>>

TemplatesStep(A) ==
    /\ scenario = "templates"
    /\ A
    /\ UNCHANGED <<scenario, vars, reviewVars, projectVars>>

MCNext == DependenciesStep(Next /\ Few = TRUE) \/ ReviewsStep \/ ProjectsStep \/ TemplatesStep(T!Next)

MCSpec ==
    /\ MCInit /\ [][MCNext]_all
    /\ \A c \in Calls : WF_all(DependenciesStep(CallStep(c)))
    /\ WF_all(TemplatesStep(T!BeginTick)) /\ WF_all(TemplatesStep(T!ProcessTemplate))

-----------------------------------------------------------------------------
\* A template that is due is run until it is not, and keeps its day of the month
\* or its distance, unless it fails itself or as many that fail as a tick takes
\* keep their place before it (processDueTemplates, calculateNextRunAt).
TemplatesServed == T!TemplatesServed
=============================================================================
