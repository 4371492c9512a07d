--------------------------- MODULE MCIntegrations ---------------------------
(* The two webhooks, each in scenarios of its own.  "serial": one WhatsApp   *)
(* request at a time, no faults, any command followed by one that depends on *)
(* it; "overlap": two of them at once; "faulty": one, with a failing send or *)
(* a process that stops, test commands and templates.  "github": two         *)
(* requests, of webhook or manager; "github faults": one, with a fault.      *)
(* And the assistant, with a process for each of two chats: "documents",     *)
(* asked about a document while it is changed, and "tools", told to do       *)
(* things.  These requests all act on behalf of users; who may see what is   *)
(* TaskAccess: "tasks" and "comments".                                       *)
EXTENDS TaskAccess, Github, WhatsApp, AiChat, TLC

CONSTANTS ann, t1, t2, p1, p2, c1, c2, x1, x2, d1, d2, n1, n2, o1, e1, e2,
          user, lead, admin, b1, b2

VARIABLES edits, scenario

Text(name, t) == [from |-> ann, name |-> name, task |-> t]

Batches ==
    {<<Text(name, t1)>> : name \in CommandName}
    \cup {<<Text("TASK_DETAIL", t2)>>, <<[from |-> Stranger, name |-> "TASKS", task |-> None]>>,
          <<Text("TASK_LOG", t1), Text("CHECK_IN", t1)>>,
          <<Text("TASK_DETAIL", t1), Text("EXPENSE_APPLY", t1)>>,
          <<Text("NOT_TEXT", t1), Text("UNKNOWN", t1)>>}
Dependent == {<<Text("TASK_DETAIL", t2)>>, <<Text("EXPENSE_APPLY", t1)>>}
Racing == {<<Text(name, t1)>> : name \in {"TASK_DETAIL", "TASK_LOG", "LEAVE_APPROVE"}}

MCPhones == {ann}
MCTopics == {t1, t2}
MCPayloads == {p1, p2}
MCHandlers == {c1, c2}

MCTickets == {t1, t2}
MCShas == {x1, x2}
MCCommit(s, k, b) == [sha |-> s, key |-> k, bot |-> b]
Pushes == {<<MCCommit(x1, t1, FALSE), MCCommit(x2, t1, FALSE)>>,
           <<MCCommit(x2, None, FALSE), MCCommit(x1, t1, TRUE)>>}
MCContents == Pushes \cup {<<MCCommit(x1, None, FALSE)>>}
MCDeliveries == {d1, d2}
MCHookCalls == {c1, c2}
MCNoKey == None
MCAuthor == ann

MCPlan(tools, rag) == [tools |-> tools, rag |-> rag, confidence |-> 90]
Search == MCPlan(<<>>, TRUE)
MCPlans == {Search, MCPlan(<<"check_in", "get_project_burn">>, FALSE)}
MCProcess == {n1, n2}
MCQuestion == {o1}
MCDocument == {d1}
MCConf == {60, 80}
MCGranted == {"ai:chat", "attendance:check_in", "projects:burn:read"}
MCChats == {c1, c2}
MCEditors == {e1, e2}

Issue == Single(MCCommit(x1, None, FALSE))

-----------------------------------------------------------------------------
\* The people of TaskAccess, and what they ask for: a request names a milestone
\* or a parent, not both.
MCUsers == {user, lead, admin}
MCTeams == {1, 2}
MCTasks == {1, 2}
MCMilestones == {1}
MCCalls == {b1, b2}
MCRoleOf == [u \in MCUsers |-> CASE u = user -> "USER" [] u = lead -> "TEAM_LEAD"
                                  [] u = admin -> "SUPER_ADMIN"]
MCMatching == {2}
MCWishes(assignees, no) ==
    {[assignee |-> a, milestone |-> n[1], parent |-> n[2]] :
        a \in assignees, n \in {<<no, no>>, <<1, no>>, <<no, 1>>, <<no, 2>>}}
MCUpdates == MCWishes({user, None, Keep}, Keep)
MCPlain == [assignee |-> None, milestone |-> None, parent |-> None]
MCCreates == MCWishes({user, None}, None)
MCMentions == {{}, {user}, {user, lead}, {user, admin}}
MCQuery == [search |-> FALSE, deleted |-> FALSE, assignee |-> Keep, milestone |-> Keep]
MCQueries == {MCQuery, [MCQuery EXCEPT !.search = TRUE, !.deleted = TRUE],
              [MCQuery EXCEPT !.assignee = user], [MCQuery EXCEPT !.milestone = 1]}

ASSUME RequestsAreWishes

-----------------------------------------------------------------------------
Kinds(kinds) == \A c \in {c1, c2} : handler'[c].kind \in kinds \cup {"none"}
Alone == handler'[c2].kind = "none"
Awake == session'[ann].exists => session'[ann].fresh

Serial == Alone /\ Kinds({"webhook"}) /\ faults' = 0 /\ UNCHANGED subscribed
          /\ t2 \in assigned' /\ payload'[p2].tries < 2
Overlapping == Kinds({"webhook"}) /\ faults' = 0 /\ Awake /\ UNCHANGED <<assigned, subscribed>>
           /\ payload'[p2].tries < 2
Faulty == Alone /\ Awake /\ UNCHANGED assigned /\ payload'[p2].tries = 0

Webhooks == hookFaults' = 0 /\ t2 \in openTickets' /\ delivery'[d2].tries < 2 /\ (linked => linked')
            /\ \A c \in {c1, c2} : hook'[c].kind = "manager" => hook'[c].sha = x1
Faults == hook'[c2].kind = "none" /\ UNCHANGED <<openTickets, linked>>

\* An answer expires between chats: for one under way, Redis fails instead.
AtHome == /\ chat'[c1].on \in {n1, None} /\ chat'[c2].on \in {n2, None}
          /\ UNCHANGED <<chat, edit>> => \A c \in {c1, c2} : chat[c].pc = "idle"
Documents == /\ AtHome /\ UNCHANGED lost
             /\ (UNCHANGED <<chat, edit>> => \A e \in {e1, e2} : edit[e].pc = "idle")
             /\ edit'[e1].pc # "delete"
             /\ (edit[e2].pc = "idle" => edit'[e2].pc \in {"idle", "delete"})
             /\ \A c \in {c1, c2} : /\ chat'[c].plan \in {Search, NoPlan}
                                    /\ chat'[c].status # "FALLBACK"
Tools == /\ AtHome /\ UNCHANGED edit
         /\ \A c \in {c1, c2} : chat'[c].plan # Search

\* One request at a time, up to two changes of tasks, teams, users and the
\* milestone after the first task, which gets nothing but an assignee.  The admin
\* has no team, the lead may have one, and the user is not on the project.
Tasks ==
    /\ EditTask(b1) \/ Lookup(b1) \/ LoseCall(b1) \/ Organise
    /\ edits' = edits + (IF UNCHANGED <<org, task>> THEN 0
                         ELSE IF task[1].state = "none" /\ task'[1].state # "none" THEN 0 ELSE 1)
    /\ edits' <= 2
    /\ task'[1].milestone = None /\ task'[1].parent = None
    /\ teams'[admin] = {} /\ teams'[lead] \subseteq {1}
    /\ member' \subseteq {lead} /\ {lead, admin} \subseteq active'

\* A task, a comment of the lead and one of the admin on it, in an organisation
\* that stays as it is.
Writer(c) == IF c = b1 THEN lead ELSE admin
Comments ==
    /\ \/ task[1].state = "none" /\ BeginCreate(b1, admin, MCPlain)
       \/ Write(b1)
       \/ \E c \in {b1, b2}, mentioned \in MCMentions :
             /\ \A m \in {Writer(c)} \X MCUsers : event[m] = "none"
             /\ task[1].state # "none" /\ (c = b2 => mentioned = {user})
             /\ BeginComment(c, Writer(c), 1, mentioned)
       \/ \E c \in {b1, b2} : StoreComment(c) \/ AddJob(c) \/ Lookup(c) \/ LoseCall(c)
       \/ \E m \in MCUsers \X MCUsers : Notify(m)
       \/ DeleteTask(1)
    /\ edits' = edits + (IF task' = task THEN 0 ELSE 1) /\ edits' <= 2

MCInit ==
    /\ member = {lead} /\ teams = [u \in MCUsers |-> IF u = admin THEN {} ELSE {1}]
    /\ Init /\ edits = 0 /\ WhatsAppInit /\ GithubInit /\ ChatInit
    /\ scenario \in {"serial", "overlap", "faulty", "github", "github faults",
                    "documents", "tools", "tasks", "comments"}
    /\ scenario # "documents" => document[d1] = "absent"
    /\ IF scenario \in {"github", "github faults"}
       THEN /\ payload[p1].messages = <<Text("TASKS", t1)>> /\ payload[p2].messages = <<Text("TASKS", t1)>>
            /\ delivery[d1].commits \in Pushes /\ delivery[d2].commits = Issue
       ELSE /\ delivery[d1].commits = Issue /\ delivery[d2].commits = Issue /\ ~linked
            /\ payload[p2].messages \in Dependent
            /\ scenario \in {"documents", "tools", "tasks", "comments"}
                 => /\ payload[p1].messages = <<Text("TASKS", t1)>>
                    /\ payload[p2].messages = <<Text("TASK_DETAIL", t2)>>
            /\ scenario = "overlap" => payload[p1].messages \in Racing

AccessVars == <<vars, edits>>

MCNext ==
    /\ UNCHANGED scenario
    /\ \/ scenario = "serial" /\ WhatsAppNext /\ Serial /\ UNCHANGED <<githubVars, chatVars, AccessVars>>
       \/ scenario = "overlap" /\ WhatsAppNext /\ Overlapping /\ UNCHANGED <<githubVars, chatVars, AccessVars>>
       \/ scenario = "faulty" /\ WhatsAppNext /\ Faulty /\ UNCHANGED <<githubVars, chatVars, AccessVars>>
       \/ scenario = "github" /\ GithubNext /\ Webhooks /\ UNCHANGED <<whatsAppVars, chatVars, AccessVars>>
       \/ scenario = "github faults" /\ GithubNext /\ Faults /\ UNCHANGED <<whatsAppVars, chatVars, AccessVars>>
       \/ scenario = "documents" /\ ChatNext /\ Documents
          /\ UNCHANGED <<whatsAppVars, githubVars, AccessVars>>
       \/ scenario = "tools" /\ ChatNext /\ Tools /\ UNCHANGED <<whatsAppVars, githubVars, AccessVars>>
       \/ scenario = "tasks" /\ Tasks /\ UNCHANGED <<whatsAppVars, githubVars, chatVars>>
       \/ scenario = "comments" /\ Comments /\ UNCHANGED <<whatsAppVars, githubVars, chatVars>>

MCSpec == MCInit /\ [][MCNext]_<<whatsAppVars, githubVars, chatVars, AccessVars, scenario>>

\* The two requests, or chats, with their processes, have one role in each
\* scenario, or the second has none.
MCSymmetry == {f \in Permutations({c1, c2, n1, n2}) :
                 f[c1] \in {c1, c2} /\ f[n1] \in {n1, n2} /\ (f[c1] = c1 <=> f[n1] = n1)}
=============================================================================
