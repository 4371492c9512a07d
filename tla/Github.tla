------------------------------- MODULE Github -------------------------------
(***************************************************************************)
(* The GitHub webhook of one tenant.  A delivery is stored under its id,   *)
(* and its commits are taken in turn: one that names a task is mapped to   *)
(* it and its author asked for the hours; one that does not is kept for a  *)
(* manager, who maps it by hand.                                           *)
(*                                                                         *)
(* A call is a request being handled, one statement at a time.  A pull     *)
(* request or an issue is a delivery with one commit.  The signature is    *)
(* right, or the request is refused before it changes anything; the texts  *)
(* in which a key is looked for are left out.                              *)
(***************************************************************************)
EXTENDS Integers, Sequences, FiniteSets

CONSTANTS
    Sha, Ticket,
    NoKey,      \* the key of a commit that names none
    Author,     \* the author of every commit, when an account is linked to him
    Nobody,     \* no account
    Delivery,   \* deliveries of the provider, by id
    Contents,   \* the sequences of commits a delivery may have
    HookCall,   \* concurrent executions of the handlers
    MaxSends,   \* times a delivery is sent
    MaxHookFaults  \* statements that fail and processes that stop

VARIABLES
    delivery,   \* [commits, tries] of each delivery
    received,   \* its row: NONE, RECEIVED, PROCESSED, FAILED
    mapping,    \* user of the row of a commit and a task, or "none"
    unmatched,  \* row of a commit: "none", NoKey, or the task it is mapped to
    asked,      \* commits and tasks whose confirmation event exists
    openTickets,  \* tasks that are not deleted
    linked,     \* whether the author has an account
    hook, hookFaults,
    runs        \* history: executions that have taken up each delivery

githubVars == <<delivery, received, mapping, unmatched, asked, openTickets, linked, hook, hookFaults, runs>>

Commit == [sha: Sha, key: Ticket \cup {NoKey}, bot: BOOLEAN]
Accounts == {Author, Nobody}

\* processPullRequestEvent, processIssueEvent: the request, or the issue, stands
\* for one commit, and is handled as a push of it alone.
Single(x) == <<x>>

\* The ids of rows and users, and the marks that stand for none of them, differ.
ASSUME GithubAssumption ==
    /\ NoKey \notin Ticket \cup {"none"} /\ "none" \notin Ticket \cup Accounts
    /\ Author # Nobody
    /\ Contents \subseteq Seq(Commit)
    /\ Sha # {} /\ Delivery # {} /\ MaxSends \in Nat /\ MaxHookFaults \in Nat

HookRecord == [kind: {"none", "webhook", "manager"},
               pc: {"idle", "create", "take", "keep", "map", "mark", "ask", "failed"},
               d: Delivery, i: Nat, sha: Sha, task: Ticket \cup {NoKey}, user: Accounts]

NoHook == [kind |-> "none", pc |-> "idle", d |-> CHOOSE d \in Delivery : TRUE, i |-> 1,
         sha |-> CHOOSE s \in Sha : TRUE, task |-> NoKey, user |-> Nobody]

GithubTypeOK ==
    /\ delivery \in [Delivery -> [commits: Contents, tries: 0..MaxSends]]
    /\ received \in [Delivery -> {"NONE", "RECEIVED", "PROCESSED", "FAILED"}]
    /\ mapping \in [Sha \X Ticket -> Accounts \cup {"none"}]
    /\ unmatched \in [Sha -> Ticket \cup {NoKey, "none"}]
    /\ asked \subseteq Sha \X Ticket /\ openTickets \subseteq Ticket /\ linked \in BOOLEAN
    /\ hook \in [HookCall -> HookRecord] /\ hookFaults \in 0..MaxHookFaults
    /\ runs \in [Delivery -> Nat]

GithubInit ==
    /\ delivery \in [Delivery -> [commits: Contents, tries: {0}]]
    /\ received = [d \in Delivery |-> "NONE"]
    /\ mapping = [x \in Sha \X Ticket |-> "none"] /\ unmatched = [s \in Sha |-> "none"]
    /\ asked = {} /\ openTickets = Ticket /\ linked \in BOOLEAN
    /\ hook = [c \in HookCall |-> NoHook] /\ hookFaults = 0 /\ runs = [d \in Delivery |-> 0]

-----------------------------------------------------------------------------
HookAt(c, pc) == hook[c].pc = pc
SetHook(c, record) == hook' = [hook EXCEPT ![c] = record]
HookStep(c, pc) == [hook[c] EXCEPT !.pc = pc]
EndHook(c) == SetHook(c, NoHook)
HookRows == <<received, mapping, unmatched, asked, runs>>
World == <<delivery, openTickets, linked>>

\* resolveUserIdFromIdentity: the account linked to the author's name or address.
Resolve == IF linked THEN Author ELSE Nobody

Next1(c) == [hook[c] EXCEPT !.pc = "take", !.i = @ + 1]

-----------------------------------------------------------------------------
(* handleWebhook                                                             *)

\* The id is looked up; a delivery that has a row, whatever became of it, is
\* answered as a duplicate.
DeliverHook(c, d) ==
    /\ HookAt(c, "idle") /\ delivery[d].tries < MaxSends
    /\ delivery' = [delivery EXCEPT ![d].tries = @ + 1]
    /\ IF received[d] = "NONE"
       THEN SetHook(c, [NoHook EXCEPT !.kind = "webhook", !.pc = "create", !.d = d])
       ELSE UNCHANGED hook
    /\ UNCHANGED <<HookRows, openTickets, linked, hookFaults>>

\* The row is created: of two requests with one id the later fails on the key.
Create(c) ==
    /\ HookAt(c, "create")
    /\ IF received[hook[c].d] = "NONE"
       THEN /\ received' = [received EXCEPT ![hook[c].d] = "RECEIVED"]
            /\ runs' = [runs EXCEPT ![hook[c].d] = @ + 1] /\ SetHook(c, HookStep(c, "take"))
       ELSE EndHook(c) /\ UNCHANGED <<received, runs>>
    /\ UNCHANGED <<mapping, unmatched, asked, World, hookFaults>>

\* processPushEvent and its kin: the next commit, or the end of the delivery.
\* What a bot has made is passed over; a key that no task has is no key.
TakeCommit(c) ==
    LET commits == delivery[hook[c].d].commits
        x == commits[hook[c].i]
    IN /\ HookAt(c, "take")
       /\ IF hook[c].i > Len(commits)
          THEN received' = [received EXCEPT ![hook[c].d] = "PROCESSED"] /\ EndHook(c)
          ELSE /\ UNCHANGED received
               /\ SetHook(c, IF x.bot THEN Next1(c)
                        ELSE IF x.key \in openTickets
                        THEN [HookStep(c, "map") EXCEPT !.sha = x.sha, !.task = x.key, !.user = Resolve]
                        ELSE [HookStep(c, "keep") EXCEPT !.sha = x.sha])
       /\ UNCHANGED <<mapping, unmatched, asked, runs, World, hookFaults>>

\* createUnmatchedCommit: a commit has one row, and the first one stays.
KeepUnmatched(c) ==
    /\ HookAt(c, "keep") /\ SetHook(c, Next1(c))
    /\ unmatched' = [unmatched EXCEPT ![hook[c].sha] = IF @ = "none" THEN NoKey ELSE @]
    /\ UNCHANGED <<received, mapping, asked, runs, World, hookFaults>>

AfterMap(c) ==
    IF hook[c].kind = "manager" THEN HookStep(c, "mark")
    ELSE IF hook[c].user = Nobody THEN Next1(c) ELSE HookStep(c, "ask")

\* upsertCommitMapping: a commit and a task have one row, and the first one stays.
Map(c) ==
    LET x == <<hook[c].sha, hook[c].task>>
    IN /\ HookAt(c, "map") /\ SetHook(c, AfterMap(c))
       /\ mapping' = [mapping EXCEPT ![x] = IF @ = "none" THEN hook[c].user ELSE @]
       /\ UNCHANGED <<received, unmatched, asked, runs, World, hookFaults>>

\* emitCommitConfirmationEvent: the event of a commit and a task has one key.
Ask(c) ==
    /\ HookAt(c, "ask") /\ asked' = asked \cup {<<hook[c].sha, hook[c].task>>}
    /\ SetHook(c, IF hook[c].kind = "manager" THEN NoHook ELSE Next1(c))
    /\ UNCHANGED <<received, mapping, unmatched, runs, World, hookFaults>>

-----------------------------------------------------------------------------
(* mapUnmatchedCommit, by a manager: the row and the task are read, and the  *)
(* mapping is created before the row is marked.                              *)

\* Mutant: the row is marked first.
ChooseToMark(c, s, t) ==
    /\ HookAt(c, "idle") /\ unmatched[s] # "none" /\ t \in openTickets
    /\ SetHook(c, [NoHook EXCEPT !.kind = "manager", !.pc = "mark", !.sha = s, !.task = t, !.user = Resolve])
    /\ UNCHANGED <<HookRows, World, hookFaults>>

Choose(c, s, t) ==
    /\ HookAt(c, "idle") /\ unmatched[s] # "none" /\ t \in openTickets
    /\ SetHook(c, [NoHook EXCEPT !.kind = "manager", !.pc = "map", !.sha = s, !.task = t, !.user = Resolve])
    /\ UNCHANGED <<HookRows, World, hookFaults>>

Mark(c) ==
    /\ HookAt(c, "mark")
    /\ unmatched' = [unmatched EXCEPT ![hook[c].sha] = hook[c].task]
    /\ IF hook[c].user = Nobody THEN EndHook(c) ELSE SetHook(c, HookStep(c, "ask"))
    /\ UNCHANGED <<received, mapping, asked, runs, World, hookFaults>>

-----------------------------------------------------------------------------
(* Faults: a statement after the row is created throws, and the row is       *)
(* marked; or the process stops.                                             *)

Throw(c) ==
    /\ hook[c].pc \in {"take", "keep", "map", "mark", "ask"}
    /\ hookFaults < MaxHookFaults /\ hookFaults' = hookFaults + 1
    /\ IF hook[c].kind = "webhook" THEN SetHook(c, HookStep(c, "failed")) ELSE EndHook(c)
    /\ UNCHANGED <<HookRows, World>>

MarkFailed(c) ==
    /\ HookAt(c, "failed") /\ received' = [received EXCEPT ![hook[c].d] = "FAILED"] /\ EndHook(c)
    /\ UNCHANGED <<mapping, unmatched, asked, runs, World, hookFaults>>

StopHook(c) ==
    /\ ~HookAt(c, "idle") /\ hookFaults < MaxHookFaults /\ hookFaults' = hookFaults + 1 /\ EndHook(c)
    /\ UNCHANGED <<HookRows, World>>

\* A task is deleted; the author gets or loses his account.
DropTicket(t) ==
    /\ t \in openTickets /\ openTickets' = openTickets \ {t}
    /\ UNCHANGED <<HookRows, delivery, linked, hook, hookFaults>>
Link == linked' = ~linked /\ UNCHANGED <<HookRows, delivery, openTickets, hook, hookFaults>>

HandleHook(c) == Create(c) \/ TakeCommit(c) \/ KeepUnmatched(c) \/ Map(c) \/ Ask(c) \/ Mark(c) \/ MarkFailed(c)

GithubNext ==
    \/ \E c \in HookCall :
          \/ HandleHook(c) \/ Throw(c) \/ StopHook(c)
          \/ \E d \in Delivery : DeliverHook(c, d)
          \/ \E s \in Sha, t \in Ticket : Choose(c, s, t)
    \/ Link \/ \E t \in Ticket : DropTicket(t)

GithubSpec == GithubInit /\ [][GithubNext]_githubVars

-----------------------------------------------------------------------------
(* Properties                                                                *)

HooksIdle == \A c \in HookCall : HookAt(c, "idle")

Accounted(x) ==
    x.bot \/ unmatched[x.sha] # "none" \/ \E t \in Ticket : mapping[<<x.sha, t>>] # "none"

\* Every commit of a delivery that is PROCESSED and that no bot has made is
\* mapped to a task or kept for a manager (handleWebhook).
ProcessedAccountsForAll ==
    \A d \in Delivery : received[d] = "PROCESSED" =>
        \A i \in 1..Len(delivery[d].commits) : Accounted(delivery[d].commits[i])

\* A delivery is taken up once, however often and however close it is sent.
TakenUpOnce == \A d \in Delivery : runs[d] <= 1

\* A delivery that is not PROCESSED when nothing is being handled has met a
\* fault: since its redelivery is a duplicate, its commits are lost for good.
LostOnlyByFault ==
    HooksIdle /\ hookFaults = 0 => \A d \in Delivery : received[d] \in {"NONE", "PROCESSED"}

\* An unmatched commit that is marked as mapped has the mapping, wherever its
\* handler stopped (mapUnmatchedCommit).
MarkedIsMapped == \A s \in Sha, t \in Ticket : unmatched[s] = t => mapping[<<s, t>>] # "none"

\* Without faults, the user a commit is attributed to has been asked for its
\* hours once nothing is being handled (mapCommitToTaskAndNotify).
AttributedIsAsked ==
    HooksIdle /\ hookFaults = 0 => \A x \in Sha \X Ticket : mapping[x] = Author => x \in asked

\* A delivery is taken up once, however often it is sent; when it is PROCESSED
\* every commit of it is mapped or kept, and only a fault leaves it unprocessed,
\* then for good; an unmatched commit marked as mapped has the mapping, and the
\* user a commit is attributed to is asked for its hours (handleWebhook,
\* mapUnmatchedCommit).
CommitsAccounted ==
    /\ GithubTypeOK /\ TakenUpOnce /\ ProcessedAccountsForAll /\ LostOnlyByFault
    /\ MarkedIsMapped /\ AttributedIsAsked
=============================================================================
