------------------------------ MODULE Accounts ------------------------------
(***************************************************************************)
(* The accounts of one tenant: the rows of users and their roles, the      *)
(* sessions that exchange refresh tokens, and the compliance requests that *)
(* erase a user's data or export it.                                       *)
(*                                                                         *)
(* A call is a request being handled; each of its database statements, or  *)
(* transactions, is one step.  What a statement has read may be out of     *)
(* date when the next one writes.  A compliance request is taken by a      *)
(* worker from a queue that retries it.  Passwords, names and the times of *)
(* the access tokens are left out; an address or a phone number is a       *)
(* contact.                                                                *)
(***************************************************************************)
EXTENDS Integers, FiniteSets

CONSTANTS
    User,         \* rows of the users table, used or not
    Contact,      \* addresses and numbers people are reached at
    None,         \* no contact
    ErasedPhone,  \* the number that replaces the one of an erased user
    RoleSets,     \* the sets of roles a user may have
    Owner,        \* the user created with the tenant
    Session,      \* rows of the sessions table, used or not
    Call,         \* concurrent executions of the handlers
    Request,      \* compliance requests
    MaxVersion,   \* bound on the refresh tokens of a session
    MaxTries,     \* attempts of a queued job
    MaxFaults     \* bound on the statements that fail and the processes that stop

ASSUME ConstantsAssumption ==
    /\ None \notin Contact /\ "erased" \notin Contact /\ None # "erased"
    /\ Owner \in User /\ Session # {} /\ {} \in RoleSets
    /\ DOMAIN ErasedPhone = User
    /\ MaxVersion \in Nat \ {0} /\ MaxTries \in Nat \ {0} /\ MaxFaults \in Nat

VARIABLES
    user,       \* [exists, active, deleted, pref, contact, roles] of each row
    session,    \* [state, user, token, revoked, expired, after] of each row
    call,       \* the calls being executed
    req,        \* [status, kind, user, job, pc, tries] of each request
    faults,
    exchanged,  \* history: refresh tokens that have been exchanged
    loggedOut,  \* history: sessions a logout has revoked
    erased,     \* history: users whose erasure has been committed
    returned    \* history: erased users whose row was written over

vars == <<user, session, call, req, faults, exchanged, loggedOut, erased, returned>>

Contacts == Contact \cup {None, "erased"}

UserRecord == [exists: BOOLEAN, active: BOOLEAN, deleted: BOOLEAN, pref: BOOLEAN,
               contact: Contacts, roles: RoleSets]

\* token is the version whose hash the row holds; after: the row was created
\* when its user's data had been erased.
SessionRecord == [state: {"unused", "live", "deleted"}, user: User,
                  token: 0..MaxVersion, last: 0..MaxVersion,
                  revoked: BOOLEAN, expired: BOOLEAN, after: BOOLEAN]

\* early: the user was read before an erasure; given: the contact to write was
\* in the input; again: the token had been exchanged when the session was read;
\* since: the sets of roles the user has had since the call began.
CallRecord == [kind: {"none", "login", "refresh", "logout", "update", "delete", "import", "assign"},
               pc: {"idle", "resolve", "issue", "revoke", "write", "create", "pref"},
               u: User, s: Session, token: 0..MaxVersion,
               contact: Contacts, on: {"keep", "yes", "no"}, roles: RoleSets,
               since: SUBSET RoleSets, early: BOOLEAN, given: BOOLEAN, again: BOOLEAN]

RequestRecord == [status: {"NONE", "PENDING", "IN_PROGRESS", "COMPLETED", "FAILED"},
                  kind: {"DATA_EXPORT", "DATA_ERASURE"}, user: User,
                  job: {"none", "queued", "active", "ended"},
                  pc: {"idle", "enqueue", "mark", "start", "run", "audit", "fail"},
                  tries: 0..MaxTries, done: BOOLEAN, auditLost: BOOLEAN]

AnySession == CHOOSE s \in Session : TRUE

Idle == [kind |-> "none", pc |-> "idle", u |-> Owner, s |-> AnySession, token |-> 0,
         contact |-> None, on |-> "keep", roles |-> {}, since |-> {},
         early |-> FALSE, given |-> FALSE, again |-> FALSE]
NoUser == [exists |-> FALSE, active |-> FALSE, deleted |-> FALSE, pref |-> FALSE,
           contact |-> None, roles |-> {}]
NoSession == [state |-> "unused", user |-> Owner, token |-> 0, last |-> 0,
              revoked |-> FALSE, expired |-> FALSE, after |-> FALSE]
NoRequest == [status |-> "NONE", kind |-> "DATA_EXPORT", user |-> Owner, job |-> "none",
              pc |-> "idle", tries |-> 0, done |-> FALSE, auditLost |-> FALSE]

TypeOK ==
    /\ user \in [User -> UserRecord] /\ session \in [Session -> SessionRecord]
    /\ call \in [Call -> CallRecord] /\ req \in [Request -> RequestRecord]
    /\ faults \in 0..MaxFaults
    /\ exchanged \subseteq Session \X (0..MaxVersion) /\ loggedOut \subseteq Session
    /\ erased \subseteq User /\ returned \subseteq User

\* createTenant: the owner is created with the tenant's roles and a preference
\* row, in one transaction.
Init ==
    /\ \E k \in Contact, R \in RoleSets \ {{}} :
          user = [u \in User |-> IF u = Owner
                    THEN [exists |-> TRUE, active |-> TRUE, deleted |-> FALSE,
                          pref |-> TRUE, contact |-> k, roles |-> R]
                    ELSE NoUser]
    /\ session = [s \in Session |-> NoSession] /\ call = [c \in Call |-> Idle]
    /\ req = [r \in Request |-> NoRequest] /\ faults = 0
    /\ exchanged = {} /\ loggedOut = {} /\ erased = {} /\ returned = {}

-----------------------------------------------------------------------------
(* Helpers: the unique keys of the users table, the start and the end of a   *)
(* call, and what a call writes to a row.                                    *)

InUse(u) == user[u].exists /\ user[u].active /\ ~user[u].deleted

\* No other row has the contact: a write that would repeat it is refused.
Free(k, u) ==
    \A w \in User \ {u} : user[w].contact # k \/ k \notin Contact

Start(c, kind, pc, u) ==
    [Idle EXCEPT !.kind = kind, !.pc = pc, !.u = u,
                 !.since = {user[u].roles}, !.early = u \notin erased]

Begin(c, record) == call[c].pc = "idle" /\ call' = [call EXCEPT ![c] = record]
Go(c, pc) == call' = [call EXCEPT ![c].pc = pc]
Return(c) == call' = [call EXCEPT ![c] = Idle]
At(c, kind, pc) == call[c].kind = kind /\ call[c].pc = pc

\* An erased row gets personal data again.
Rewrite(c) ==
    returned' = IF call[c].u \in erased /\ (call[c].early \/ call[c].given)
                THEN returned \cup {call[c].u} ELSE returned

-----------------------------------------------------------------------------
(* Sessions                                                                  *)

\* login: the user is looked up by contact.
Login(c) ==
    /\ \E u \in User :
          /\ InUse(u) /\ user[u].contact \in Contact
          /\ Begin(c, Start(c, "login", "resolve", u))
    /\ UNCHANGED <<user, session, req, faults, exchanged, loggedOut, erased, returned>>

\* The row found by the hash of the token.
Accepts(s, v) == session[s].state = "live" /\ v = session[s].token

Refreshable(s) ==
    ~session[s].revoked /\ ~session[s].expired /\ InUse(session[s].user)

Refresh(c) ==
    /\ \E s \in Session, v \in 1..MaxVersion :
          /\ Accepts(s, v) /\ Refreshable(s)
          /\ Begin(c, [Start(c, "refresh", "resolve", session[s].user) EXCEPT
                          !.s = s, !.token = v, !.again = <<s, v>> \in exchanged])
    /\ UNCHANGED <<user, session, req, faults, exchanged, loggedOut, erased, returned>>

\* resolveUserAccess: the user is read again, with the roles the access token
\* will carry.
ResolveUserAccess(c) ==
    /\ call[c].pc = "resolve"
    /\ IF InUse(call[c].u)
       THEN call' = [call EXCEPT ![c].pc = "issue", ![c].roles = user[call[c].u].roles]
       ELSE Return(c)
    /\ UNCHANGED <<user, session, req, faults, exchanged, loggedOut, erased, returned>>

CreateAuthTokens(c) ==
    /\ At(c, "login", "issue")
    /\ \E s \in Session :
          /\ session[s].state = "unused"
          /\ session' = [session EXCEPT ![s] =
                [NoSession EXCEPT !.state = "live", !.user = call[c].u, !.token = 1,
                                  !.last = 1, !.after = call[c].u \in erased]]
    /\ Return(c)
    /\ UNCHANGED <<user, req, faults, exchanged, loggedOut, erased, returned>>

\* Mutant: the row is opened again.
RotatedReopens(row) == [row EXCEPT !.token = row.last + 1, !.last = @ + 1,
                                   !.expired = FALSE, !.revoked = FALSE]

\* revokedAt is left as it is.
Rotated(row) ==
    [row EXCEPT !.token = row.last + 1, !.last = @ + 1, !.expired = FALSE]

\* rotateSessionAndIssueTokens: the update is by id, and fails when the row is
\* gone.
RotateSession(c) ==
    /\ At(c, "refresh", "issue")
    /\ LET s == call[c].s IN
       IF session[s].state = "live"
       THEN /\ session[s].last < MaxVersion
            /\ session' = [session EXCEPT ![s] = Rotated(@)]
            /\ exchanged' = exchanged \cup {<<s, call[c].token>>}
       ELSE UNCHANGED <<session, exchanged>>
    /\ Return(c)
    /\ UNCHANGED <<user, req, faults, loggedOut, erased, returned>>

Logout(c) ==
    /\ \E s \in Session, v \in 1..MaxVersion :
          /\ Accepts(s, v) /\ ~session[s].revoked
          /\ Begin(c, [Start(c, "logout", "revoke", session[s].user) EXCEPT !.s = s])
    /\ UNCHANGED <<user, session, req, faults, exchanged, loggedOut, erased, returned>>

RevokeSession(c) ==
    /\ At(c, "logout", "revoke")
    /\ LET s == call[c].s IN
       IF session[s].state = "live"
       THEN /\ session' = [session EXCEPT ![s].revoked = TRUE]
            /\ loggedOut' = loggedOut \cup {s}
       ELSE UNCHANGED <<session, loggedOut>>
    /\ Return(c)
    /\ UNCHANGED <<user, req, faults, exchanged, erased, returned>>

ExpireSession(s) ==
    /\ session[s].state = "live" /\ ~session[s].expired
    /\ session' = [session EXCEPT ![s].expired = TRUE]
    /\ UNCHANGED <<user, call, req, faults, exchanged, loggedOut, erased, returned>>

-----------------------------------------------------------------------------
(* Users and roles                                                           *)

CreateUser(c) ==
    /\ call[c].pc = "idle"
    /\ \E u \in User, k \in Contact :
          /\ ~user[u].exists /\ Free(k, u)
          /\ user' = [user EXCEPT ![u] = [exists |-> TRUE, active |-> TRUE, deleted |-> FALSE,
                                          pref |-> TRUE, contact |-> k, roles |-> {}]]
    /\ UNCHANGED <<session, call, req, faults, exchanged, loggedOut, erased, returned>>

\* updateUser: the row is read, a deleted one too, and what the input leaves
\* out is taken from it; the user must keep a contact.
UpdateUser(c) ==
    /\ \E u \in User, k \in Contact \cup {None}, on \in {"keep", "yes", "no"} :
          LET next == IF k = None THEN user[u].contact ELSE k IN
          /\ user[u].exists /\ next # None
          /\ Begin(c, [Start(c, "update", "write", u) EXCEPT
                          !.contact = next, !.given = k # None, !.on = on])
    /\ UNCHANGED <<user, session, req, faults, exchanged, loggedOut, erased, returned>>

WriteUpdate(c) ==
    /\ At(c, "update", "write")
    /\ LET u == call[c].u IN
       IF Free(call[c].contact, u)
       THEN /\ user' = [user EXCEPT ![u].contact = call[c].contact,
                     ![u].active = CASE call[c].on = "keep" -> @
                                     [] OTHER -> call[c].on = "yes"]
            /\ Rewrite(c)
       ELSE UNCHANGED <<user, returned>>
    /\ Return(c)
    /\ UNCHANGED <<session, req, faults, exchanged, loggedOut, erased>>

DeleteUser(c) ==
    /\ \E u \in User : /\ user[u].exists /\ ~user[u].deleted
                       /\ Begin(c, Start(c, "delete", "write", u))
    /\ UNCHANGED <<user, session, req, faults, exchanged, loggedOut, erased, returned>>

WriteDelete(c) ==
    /\ At(c, "delete", "write")
    /\ user' = [user EXCEPT ![call[c].u].deleted = TRUE, ![call[c].u].active = FALSE,
                            ![call[c].u].contact = None]
    /\ Return(c)
    /\ UNCHANGED <<session, req, faults, exchanged, loggedOut, erased, returned>>

\* A row of importUsers: it is looked up by contact, deleted or not.
ImportUser(c) ==
    /\ \E k \in Contact :
          LET found == {u \in User : user[u].contact = k} IN
          \/ /\ found = {}
             /\ Begin(c, [Idle EXCEPT !.kind = "import", !.pc = "create", !.contact = k])
          \/ \E u \in found :
                Begin(c, [Start(c, "import", "write", u) EXCEPT !.contact = k])
    /\ UNCHANGED <<user, session, req, faults, exchanged, loggedOut, erased, returned>>

\* The row found is written over and restored.
WriteImport(c) ==
    /\ At(c, "import", "write")
    /\ LET u == call[c].u IN
       IF Free(call[c].contact, u)
       THEN /\ user' = [user EXCEPT ![u].contact = call[c].contact,
                                    ![u].deleted = FALSE, ![u].active = TRUE]
            /\ Rewrite(c)
       ELSE UNCHANGED <<user, returned>>
    /\ Return(c)
    /\ UNCHANGED <<session, req, faults, exchanged, loggedOut, erased>>

\* The user and the preference row of a new person are two statements.
CreateImported(c) ==
    /\ At(c, "import", "create")
    /\ \/ \E u \in User :
             /\ ~user[u].exists /\ Free(call[c].contact, u)
             /\ user' = [user EXCEPT ![u] =
                   [exists |-> TRUE, active |-> TRUE, deleted |-> FALSE,
                    pref |-> FALSE, contact |-> call[c].contact, roles |-> {}]]
             /\ call' = [call EXCEPT ![c].pc = "pref", ![c].u = u]
       \/ /\ \E w \in User : user[w].contact = call[c].contact
          /\ Return(c) /\ UNCHANGED user
    /\ UNCHANGED <<session, req, faults, exchanged, loggedOut, erased, returned>>

CreatePreference(c) ==
    /\ At(c, "import", "pref")
    /\ user' = [user EXCEPT ![call[c].u].pref = TRUE]
    /\ Return(c)
    /\ UNCHANGED <<session, req, faults, exchanged, loggedOut, erased, returned>>

\* assignUserRoles: the user and the roles are read, then one transaction
\* replaces the rows.
AssignUserRoles(c) ==
    /\ \E u \in User, R \in RoleSets :
          /\ user[u].exists /\ ~user[u].deleted
          /\ Begin(c, [Start(c, "assign", "write", u) EXCEPT !.roles = R])
    /\ UNCHANGED <<user, session, req, faults, exchanged, loggedOut, erased, returned>>

Replaced(old, new) == new

WriteRoles(c) ==
    /\ At(c, "assign", "write")
    /\ LET u == call[c].u IN
       /\ user' = [user EXCEPT ![u].roles = Replaced(@, call[c].roles)]
       /\ call' = [d \in Call |->
             IF d = c THEN Idle
             ELSE IF call[d].u = u /\ call[d].pc # "idle"
                  THEN [call[d] EXCEPT !.since = @ \cup {call[c].roles}]
                  ELSE call[d]]
    /\ UNCHANGED <<session, req, faults, exchanged, loggedOut, erased, returned>>

\* A statement of a call fails, or its process stops.
LoseCall(c) ==
    /\ call[c].pc # "idle" /\ faults < MaxFaults
    /\ faults' = faults + 1 /\ Return(c)
    /\ UNCHANGED <<user, session, req, exchanged, loggedOut, erased, returned>>

-----------------------------------------------------------------------------
(* Compliance requests                                                       *)

Unchanged == UNCHANGED <<call, exchanged, loggedOut, returned>>
Step(r, record) == req' = [req EXCEPT ![r] = record]
Fault == faults < MaxFaults /\ faults' = faults + 1

\* createDataExportRequest, createDataErasureRequest: the holder of an access
\* token asks for his own data; the row is created and then queued.
CreateRequest(r) ==
    /\ req[r].status = "NONE"
    /\ \E u \in User, kind \in {"DATA_EXPORT", "DATA_ERASURE"} :
          /\ user[u].exists
          /\ Step(r, [NoRequest EXCEPT !.status = "PENDING", !.kind = kind, !.user = u,
                                       !.pc = "enqueue"])
    /\ UNCHANGED <<user, session, faults, erased>> /\ Unchanged

Enqueue(r) ==
    /\ req[r].pc = "enqueue"
    /\ \/ Step(r, [req[r] EXCEPT !.pc = "idle", !.job = "queued"]) /\ UNCHANGED faults
       \/ Step(r, [req[r] EXCEPT !.pc = "idle"]) /\ Fault
    /\ UNCHANGED <<user, session, erased>> /\ Unchanged

EndJob(record) == [record EXCEPT !.pc = "idle", !.job = "ended"]

\* The job throws: the queue runs it again until its attempts are spent.
Throw(record) ==
    [record EXCEPT !.pc = "idle", !.tries = @ + 1,
                   !.job = IF record.tries + 1 < MaxTries THEN "queued" ELSE "ended"]

\* Mutant: only a request that has failed is taken.
SettledUnlessFailed(r) == req[r].status # "FAILED"

Settled(r) == req[r].status \in {"COMPLETED", "IN_PROGRESS"}

\* processRequest reads the request; one that is done or in progress is left.
ProcessRequest(r) ==
    /\ req[r].job = "queued"
    /\ IF Settled(r) THEN Step(r, EndJob(req[r]))
       ELSE Step(r, [req[r] EXCEPT !.job = "active", !.pc = "mark"])
    /\ UNCHANGED <<user, session, faults, erased>> /\ Unchanged

MarkInProgress(r) ==
    /\ req[r].pc = "mark"
    /\ Step(r, [req[r] EXCEPT !.status = "IN_PROGRESS", !.pc = "start"])
    /\ UNCHANGED <<user, session, faults, erased>> /\ Unchanged

\* The audit rows around the work: the first is outside the try, the second
\* inside.
AuditStart(r) ==
    /\ req[r].pc = "start"
    /\ Step(r, [req[r] EXCEPT !.pc = "run"])
    /\ UNCHANGED <<user, session, faults, erased>> /\ Unchanged

AuditComplete(r) ==
    /\ req[r].pc = "audit"
    /\ Step(r, EndJob(req[r]))
    /\ UNCHANGED <<user, session, faults, erased>> /\ Unchanged

ProcessDataExport(r) ==
    /\ req[r].pc = "run" /\ req[r].kind = "DATA_EXPORT"
    /\ Step(r, [req[r] EXCEPT !.status = "COMPLETED", !.pc = "audit", !.done = TRUE])
    /\ UNCHANGED <<user, session, faults, erased>> /\ Unchanged

\* Mutant: the contact data stays.
ErasedRowKept(row) == [row EXCEPT !.deleted = TRUE, !.active = FALSE]

ErasedRow(row) ==
    [row EXCEPT !.deleted = TRUE, !.active = FALSE, !.contact = "erased"]

\* processDataErasure, one transaction with the status of the request.  The
\* anonymous number is unique like any other.
ProcessDataErasure(r) ==
    /\ req[r].pc = "run" /\ req[r].kind = "DATA_ERASURE"
    /\ LET u == req[r].user IN
       IF \E w \in User \ {u} : user[w].contact = "erased" /\ ErasedPhone[w] = ErasedPhone[u]
       THEN /\ Step(r, [req[r] EXCEPT !.pc = "fail"])
            /\ UNCHANGED <<user, session, erased>>
       ELSE /\ user' = [user EXCEPT ![u] = ErasedRow(@)]
            /\ session' = [s \in Session |->
                  IF session[s].state = "live" /\ session[s].user = u
                  THEN [session[s] EXCEPT !.state = "deleted"] ELSE session[s]]
            /\ erased' = erased \cup {u}
            /\ Step(r, [req[r] EXCEPT !.status = "COMPLETED", !.pc = "audit", !.done = TRUE])
    /\ UNCHANGED faults /\ Unchanged

\* Mutant: the error is logged, the status stays.
CaughtOnly(record) == record

Caught(record) == [record EXCEPT !.status = "FAILED"]

\* The catch block of processRequest; the job ends well.
MarkFailed(r) ==
    /\ req[r].pc = "fail"
    /\ Step(r, EndJob(Caught(req[r])))
    /\ UNCHANGED <<user, session, faults, erased>> /\ Unchanged

\* A statement of the job fails: inside the try the request is marked FAILED,
\* outside it the job throws.
FailStatement(r) ==
    /\ req[r].pc \in {"mark", "start", "run", "audit", "fail"}
    /\ IF req[r].pc \in {"run", "audit"}
       THEN Step(r, [req[r] EXCEPT !.pc = "fail", !.auditLost = req[r].pc = "audit"])
       ELSE Step(r, Throw(req[r]))
    /\ Fault
    /\ UNCHANGED <<user, session, erased>> /\ Unchanged

\* The worker stops; the queue finds the stalled job and runs it again.
StopWorker(r) ==
    /\ req[r].job = "active"
    /\ Step(r, [req[r] EXCEPT !.pc = "idle", !.job = "queued"])
    /\ Fault
    /\ UNCHANGED <<user, session, erased>> /\ Unchanged

-----------------------------------------------------------------------------
SessionStep(c) ==
    \/ Login(c) \/ Refresh(c) \/ ResolveUserAccess(c) \/ CreateAuthTokens(c)
    \/ RotateSession(c) \/ Logout(c) \/ RevokeSession(c)

UserStep(c) ==
    \/ CreateUser(c) \/ UpdateUser(c) \/ WriteUpdate(c) \/ DeleteUser(c) \/ WriteDelete(c)
    \/ ImportUser(c) \/ WriteImport(c) \/ CreateImported(c) \/ CreatePreference(c)
    \/ AssignUserRoles(c) \/ WriteRoles(c)

WorkerStep(r) ==
    \/ ProcessRequest(r) \/ MarkInProgress(r) \/ AuditStart(r) \/ ProcessDataExport(r)
    \/ ProcessDataErasure(r) \/ AuditComplete(r) \/ MarkFailed(r)

Next ==
    \/ \E c \in Call : SessionStep(c) \/ UserStep(c) \/ LoseCall(c)
    \/ \E s \in Session : ExpireSession(s)
    \/ \E r \in Request : CreateRequest(r) \/ Enqueue(r) \/ WorkerStep(r)
                          \/ FailStatement(r) \/ StopWorker(r)

\* A handler that has begun goes on, and the worker takes its jobs.
Fairness ==
    /\ \A r \in Request : WF_vars(Enqueue(r)) /\ WF_vars(WorkerStep(r))

Spec == Init /\ [][Next]_vars /\ Fairness

-----------------------------------------------------------------------------
(* Properties                                                                *)

\* A refresh token buys new tokens once: a refresh that begins after the token
\* has been exchanged is refused, whatever else runs (two that overlap may both
\* rotate the session, and the tokens of the first are then dead).  And a
\* session stays closed after a logout: a refresh that had read it before
\* rotates the row without opening it.  The roles that go into an access token
\* are a set that was assigned to the user, and that he had at some time since
\* the call began.
SessionsEnd ==
    /\ TypeOK
    /\ \A c \in Call : call[c].kind = "refresh" => ~call[c].again
    /\ \A s \in loggedOut : session[s].state = "live" => session[s].revoked
    /\ \A c \in Call : call[c].pc = "issue" => call[c].roles \in call[c].since

\* What an erasure removed comes back only through a call that had read the
\* user before it, or was given the contact anew: updateUser reads deleted rows
\* and importUsers restores the row it has found.  The user is out, too: the
\* sessions that exist were opened after the erasure by a login that had begun
\* before it, and no login or refresh gets past its first check afterwards.
ErasureHolds ==
    /\ \A u \in erased \ returned : user[u].deleted /\ user[u].contact \notin Contact
    /\ \A s \in Session : session[s].state = "live" /\ session[s].user \in erased
                            => session[s].after
    /\ \A c \in Call : /\ call[c].kind \in {"login", "refresh"}
                       /\ call[c].u \in erased /\ ~call[c].early
                       => call[c].u \in returned

\* A request is COMPLETED when its work was done, and FAILED when it was not,
\* or when the audit row that follows the work could not be written: that
\* insertion is inside the try.  And nothing is left half done unless a statement
\* failed or a process stopped: no user lacks its preference row, no request
\* waits without a job, and none is in progress without a worker.
HalfDoneOnlyByFault ==
    /\ \A r \in Request :
        /\ req[r].status = "COMPLETED" => req[r].done
        /\ req[r].status = "FAILED" => ~req[r].done \/ req[r].auditLost
    /\ faults = 0 =>
        /\ \A u \in User : user[u].exists /\ ~user[u].pref =>
              \E c \in Call : At(c, "import", "pref") /\ call[c].u = u
        /\ \A r \in Request :
              /\ req[r].status = "PENDING" => req[r].job # "ended"
              /\ req[r].status = "IN_PROGRESS" => req[r].job = "active"

\* A request that is queued is settled, or a fault happened on the way: the
\* attempts of the queue do not help, because a second attempt leaves a request
\* that is IN_PROGRESS alone.
RequestsSettle ==
    \A r \in Request :
        req[r].job = "queued" ~> (req[r].status \in {"COMPLETED", "FAILED"} \/ faults > 0)
=============================================================================
