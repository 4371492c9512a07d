----------------------------- MODULE MCAccounts -----------------------------
(* The owner, one more row, one contact and two calls, in three scenarios:   *)
(* "sessions", where the calls are about sessions and roles; "erasure",      *)
(* where they race with one erasure; and "faults", where two requests meet   *)
(* failing statements, and the numbers of erased users coincide.  In a       *)
(* fourth, "browser", two tabs with two requests share the tokens of two     *)
(* logins.                                                                   *)
EXTENDS Accounts, WebSession, TLC

CONSTANTS ann, ben, mail, s1, s2, c1, c2, q1, q2

MCUser == {ann, ben}
MCErasedPhone == (ann :> 0) @@ (ben :> 0)
MCRoleSets == {{}, {"USER"}, {"TEAM_LEAD"}}
MCContact == {mail}
MCSession == {s1, s2}
MCCall == {c1, c2}
MCRequest == {q1, q2}
MCTabs == {s1, s2}
MCRequests == {c1, c2}

VARIABLE scenario

Kinds(kinds) == \A c \in Call : call'[c].kind \in kinds \cup {"none"}

Sessions ==
    /\ Kinds({"login", "refresh", "logout", "assign"})
    /\ UNCHANGED req /\ faults' = 0 /\ ~user'[ben].exists
    /\ session'[s2].state = "unused"

Erasure ==
    /\ Kinds({"login", "refresh", "update", "import", "delete"})
    /\ UNCHANGED req[q2] /\ req'[q1].kind = "DATA_ERASURE" /\ faults' = 0
    /\ session'[s2].state = "unused" /\ session'[s1].last < 3 /\ ~session'[s1].expired
    /\ \A c \in Call : call'[c].on # "no"

Faulty ==
    /\ Kinds({"import"}) /\ UNCHANGED session
    /\ call'[c2].kind = "none"

MCInit ==
    /\ Init /\ WebInit
    /\ scenario \in {"sessions", "erasure", "faults", "browser"}
    /\ scenario # "sessions" => user[Owner].roles = {"USER"}

\* What the browser's property excuses happens in one way, if at all.
OneIncident == \A h, i \in hurt' : h = i

AccountsNext ==
    /\ scenario # "browser"
    /\ Next
    /\ scenario = "sessions" => Sessions
    /\ scenario = "erasure" => Erasure
    /\ scenario = "faults" => Faulty
    /\ UNCHANGED webVars

MCNext ==
    /\ UNCHANGED scenario
    /\ \/ AccountsNext
       \/ scenario = "browser" /\ WebNext /\ OneIncident /\ UNCHANGED vars

MCSpec == MCInit /\ [][MCNext]_<<vars, webVars, scenario>> /\ Fairness

=============================================================================
