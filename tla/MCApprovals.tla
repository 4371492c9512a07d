----------------------------- MODULE MCApprovals -----------------------------
(* Small instance of Approvals: a plain user's expense, a super admin's     *)
(* regularization, one team lead and one super admin, a single team.  In the *)
(* scenario "receipts" expenses are filed with their receipts.              *)
EXTENDS Approvals, Receipts, TLC

CONSTANTS user, lead, admin, engineering, travel, regularization, monday, c1, c2, c3

MCUsers == {user, lead, admin}
MCTeams == {engineering}
MCDays == {monday}
MCTwoCalls == {c1, c2}
MCThreeCalls == {c1, c2, c3}
MCBothTargets == {travel, regularization}
MCExpenseOnly == {travel}
MCRoleOf == [u \in MCUsers |->
               CASE u = user -> {"USER"}
                 [] u = lead -> {"TEAM_LEAD"}
                 [] u = admin -> {"SUPER_ADMIN", "TEAM_LEAD"}]
MCRequester == [t \in Targets |-> IF t = travel THEN user ELSE admin]
MCTypeOf == [t \in Targets |->
               IF t = travel THEN "EXPENSE" ELSE "ATTENDANCE_REGULARIZATION"]
MCDayOf == [t \in Targets |-> monday]

MCMainRole == [u \in MCUsers |->
                 CASE u = user -> "USER" [] u = lead -> "TEAM_LEAD" [] u = admin -> "SUPER_ADMIN"]
MCTaskReaders == {user, admin}
MCProjectReaders == {user, lead}

VARIABLES scenario, edits

\* Either two changes of the policy around an expense, or two uploads, the first
\* to be confirmed, two expenses of the user that name it, and then a change of
\* his team.  He has a task on the project; uploads come before the expenses or
\* between them, and the first expense has been looked up when the second begins.
ReceiptSteps ==
    LET pc(c) == call'[c].pc IN
    /\ edits' <= 2 /\ (edits' = 2 => open' /\ teams' = teams)
    /\ (granted' # {} => policy' = None) /\ (granted' = {} => pc(c2) = "none" /\ ~expense'[2].exists)
    /\ (granted # {} => UNCHANGED open)
    /\ (granted # {} => UNCHANGED teams \/ expense[1].exists \/ \E c \in {c1, c2} : pc(c) # "none")
    /\ (category'.exists \/ UNCHANGED <<open, teams, now, granted, call>>)
    /\ \A g \in granted' : g.by # admin /\ g.key.entity # 2 /\ (g.by = lead => g.key.kind = "EXPENSE" /\ g.key.entity = None)
    /\ (now' # now => granted # {} /\ \A c \in {c1, c2} : pc(c) = "none")
    /\ Cardinality(granted') <= 2 /\ (granted' # {} => category.cap = None)
    /\ (granted' # granted \/ object' # object => \A c \in {c1, c2} : pc(c) \in {"none", "confirm"})
    /\ teams'[admin] = {} /\ teams'[lead] = {1}
    /\ \A c \in {c1, c2} :
          pc(c) = "reads" => /\ call'[c].by = user
                             /\ call'[c].todo \notin {{"policy"}, {"category"}, {"project", "category"}}
                             /\ (granted' # {} => call'[c].amount = 1 /\ call'[c].receipt # None)
    /\ pc(c2) # "confirm"
    /\ (pc(c2) = "reads" => pc(c1) \in {"none", "insert", "link"})

MCInit ==
    /\ Init /\ ReceiptsInit /\ edits = 0
    /\ scenario \in {"approvals", "receipts"}
    /\ (scenario # "approvals" => member = [u \in MCUsers |-> {}])
    /\ teams = [u \in MCUsers |-> IF u = admin THEN {} ELSE {1}]

MCNext ==
    /\ UNCHANGED scenario
    /\ \/ /\ scenario = "approvals"
          /\ Next
          /\ UNCHANGED <<edits, receiptVars>>
       \/ /\ scenario = "receipts"
          /\ ReceiptsNext
          /\ edits' = edits + (IF UNCHANGED <<open, teams, policy>> THEN 0 ELSE 1)
          /\ ReceiptSteps = TRUE
          /\ UNCHANGED vars

MCSpec == MCInit /\ [][MCNext]_<<vars, scenario, edits, receiptVars>>
=============================================================================
