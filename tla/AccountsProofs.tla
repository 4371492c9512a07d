---------------------------- MODULE AccountsProofs ----------------------------
(***************************************************************************)
(* Theorems about Accounts, for any users, sessions, calls and compliance  *)
(* requests, and any number of faults.                                     *)
(*                                                                         *)
(* The invariant says of each call, session, user and request what the     *)
(* steps to come rely on: a call what it has read, a session that its      *)
(* tokens only grow, a request which statement its job has reached.        *)
(*                                                                         *)
(* Theorems about WebSession follow, for any tabs, requests and logins: as *)
(* long as nothing has come late or between, the stored tokens and those   *)
(* that a refresh is about to store are the ones the session accepts       *)
(* (InTime, Intact).                                                       *)
(***************************************************************************)
EXTENDS Accounts, WebSession, TLAPS

\* What a call has read still holds, or the history says why not.
CallSound(r) ==
    /\ r.pc = "resolve" => user[r.u].exists /\ user[r.u].roles \in r.since
    /\ r.pc = "issue" => r.roles \in r.since
    /\ r.kind = "refresh" => ~r.again /\ r.token <= session[r.s].token
    /\ r.kind \in {"refresh", "logout"} => session[r.s].state # "unused"
    /\ r.kind \in {"login", "refresh"} /\ ~r.early => r.u \in returned
    /\ r.kind = "update" /\ ~r.early /\ ~r.given => r.u \in returned \/ r.contact \notin Contact
    /\ r.kind = "import" /\ r.pc = "write" /\ ~r.early => r.u \in returned

SessionSound(s) ==
    /\ session[s].token = session[s].last
    /\ session[s].state = "unused" => session[s].token = 0
    /\ s \in loggedOut => session[s].state # "unused" /\ session[s].revoked
    /\ \A v \in 0..MaxVersion :
          <<s, v>> \in exchanged => session[s].state # "unused" /\ v < session[s].token
    /\ session[s].state = "live" /\ session[s].user \in erased => session[s].after

UserSound(u) ==
    /\ u \in erased => user[u].exists
    /\ u \in erased \ returned => user[u].deleted /\ user[u].contact \notin Contact

\* The statements of a job, and the status they leave.
RequestSound(q) ==
    /\ q.status = "NONE" => q.pc = "idle" /\ q.job = "none"
    /\ q.status # "NONE" => user[q.user].exists
    /\ q.job = "active" <=> q.pc \in {"mark", "start", "run", "audit", "fail"}
    /\ q.job # "ended" => q.tries < MaxTries
    /\ q.pc = "enqueue" => q.status = "PENDING" /\ q.job = "none"
    /\ q.pc \in {"mark", "start", "run"} => ~q.done
    /\ q.pc \in {"start", "run"} => q.status = "IN_PROGRESS"
    /\ q.pc = "audit" => q.status = "COMPLETED"
    /\ q.pc = "fail" => ~q.done \/ q.auditLost
    /\ q.status = "COMPLETED" => q.done
    /\ q.done => q.status \in {"COMPLETED", "FAILED"}
    /\ q.status = "FAILED" => q.job = "ended" /\ (~q.done \/ q.auditLost)

\* A preference row that is missing is about to be inserted.
PreferencesFollow ==
    faults = 0 =>
       \A u \in User : user[u].exists /\ ~user[u].pref =>
          \E c \in Call : At(c, "import", "pref") /\ call[c].u = u

RequestsMove ==
    faults = 0 =>
       \A r \in Request : /\ req[r].status = "PENDING" => req[r].job # "ended"
                          /\ req[r].status = "IN_PROGRESS" => req[r].job = "active"

IInv ==
    /\ TypeOK
    /\ \A c \in Call : CallSound(call[c])
    /\ \A s \in Session : SessionSound(s)
    /\ \A u \in User : UserSound(u)
    /\ \A r \in Request : RequestSound(req[r])
    /\ PreferencesFollow /\ RequestsMove
-----------------------------------------------------------------------------
(* The invariant holds at first.                                             *)

USE ConstantsAssumption

LEMMA IdleCall ==
  /\ Idle \in CallRecord /\ CallSound(Idle)
  /\ Idle.kind = "none" /\ Idle.pc = "idle"
<1>1. AnySession \in Session
  BY DEF AnySession
<1>2. Idle \in CallRecord /\ Idle.kind = "none" /\ Idle.pc = "idle"
  BY <1>1 DEF Idle, CallRecord, Contacts
<1> QED BY <1>2 DEF CallSound

LEMMA EmptyRows ==
  NoUser \in UserRecord /\ NoSession \in SessionRecord /\ NoRequest \in RequestRecord
BY DEF NoUser, UserRecord, NoSession, SessionRecord, NoRequest, RequestRecord, Contacts

LEMMA InitIInv == Init => IInv
<1> SUFFICES ASSUME Init PROVE IInv
  OBVIOUS
<1>1. TypeOK
  BY IdleCall, EmptyRows DEF Init, TypeOK, UserRecord, Contacts
<1>2. \A c \in Call : CallSound(call[c])
  BY IdleCall DEF Init
<1>3. \A s \in Session : SessionSound(s)
  BY DEF Init, SessionSound, NoSession
<1>4. \A u \in User : UserSound(u)
  BY DEF Init, UserSound
<1>5. \A r \in Request : RequestSound(req[r])
  BY DEF Init, RequestSound, NoRequest
<1>6. PreferencesFollow
  BY DEF Init, PreferencesFollow, NoUser
<1>7. RequestsMove
  BY DEF Init, RequestsMove, NoRequest
<1> QED BY <1>1, <1>2, <1>3, <1>4, <1>5, <1>6, <1>7 DEF IInv

-----------------------------------------------------------------------------
(* Steps that write one row.                                                 *)

\* A call goes on, ends or is lost; nothing else changes.
LEMMA CallStep ==
  ASSUME IInv, NEW c \in Call, NEW rec \in CallRecord, CallSound(rec),
         call' = [call EXCEPT ![c] = rec],
         UNCHANGED <<user, session, req, exchanged, loggedOut, erased, returned>>,
         faults' \in 0..MaxFaults, faults' = 0 => faults = 0 /\ ~At(c, "import", "pref")
  PROVE  IInv'
<1>1. TypeOK'
  BY DEF IInv, TypeOK
<1>2. \A d \in Call : CallSound(call[d])'
  BY DEF IInv, TypeOK, CallSound
<1>3. \A s \in Session : SessionSound(s)'
  BY DEF IInv, SessionSound
<1>4. \A u \in User : UserSound(u)'
  BY DEF IInv, UserSound
<1>5. \A r \in Request : RequestSound(req[r])'
  BY DEF IInv, RequestSound
<1>6. PreferencesFollow'
  BY DEF IInv, TypeOK, PreferencesFollow, At
<1>7. RequestsMove'
  BY DEF IInv, RequestsMove
<1> QED BY <1>1, <1>2, <1>3, <1>4, <1>5, <1>6, <1>7 DEF IInv

\* A call writes the row of a user and goes on; the roles stay.
LEMMA UserWrite ==
  ASSUME IInv, NEW c \in Call, NEW rec \in CallRecord, CallSound(rec),
         NEW u \in User, NEW row \in UserRecord,
         call' = [call EXCEPT ![c] = rec], user' = [user EXCEPT ![u] = row],
         UNCHANGED <<session, req, faults, exchanged, loggedOut, erased>>,
         returned \subseteq returned', returned' \subseteq User,
         user[u].exists => row.exists /\ row.roles = user[u].roles,
         u \in erased => user[u].exists,
         u \in erased \ returned' => row.deleted /\ row.contact \notin Contact,
         \/ row.pref
         \/ row.exists = user[u].exists /\ row.pref = user[u].pref
         \/ rec.kind = "import" /\ rec.pc = "pref" /\ rec.u = u,
         At(c, "import", "pref") => call[c].u = u /\ row.pref
  PROVE  IInv'
<1>1. TypeOK'
  BY DEF IInv, TypeOK
<1>2. ASSUME NEW d \in Call PROVE CallSound(call[d])'
  <2>1. CallSound(call'[d])
    BY DEF IInv, TypeOK
  <2>2. call'[d] \in CallRecord
    BY <1>1 DEF TypeOK
  <2>3. call'[d].u \in User
    BY <2>2 DEF CallRecord
  <2> QED BY <2>1, <2>3 DEF CallSound, IInv, TypeOK
<1>3. \A s \in Session : SessionSound(s)'
  BY DEF IInv, SessionSound
<1>4. \A w \in User : UserSound(w)'
  BY DEF IInv, TypeOK, UserSound
<1>5. ASSUME NEW r \in Request PROVE RequestSound(req[r])'
  <2>1. RequestSound(req[r]) /\ req[r].user \in User
    BY DEF IInv, TypeOK, RequestRecord
  <2>2. user[req[r].user].exists => user'[req[r].user].exists
    BY <2>1 DEF IInv, TypeOK
  <2> QED BY <2>1, <2>2 DEF RequestSound
<1>6. PreferencesFollow'
  <2> SUFFICES ASSUME faults = 0, NEW w \in User, user'[w].exists, ~user'[w].pref
               PROVE  \E d \in Call : At(d, "import", "pref")' /\ call'[d].u = w
    BY DEF PreferencesFollow
  <2>1. CASE w = u /\ rec.kind = "import" /\ rec.pc = "pref" /\ rec.u = u
    BY <2>1 DEF At, IInv, TypeOK
  <2>2. CASE ~(w = u /\ rec.kind = "import" /\ rec.pc = "pref" /\ rec.u = u)
    <3>1. user[w].exists /\ ~user[w].pref
      BY <2>2 DEF IInv, TypeOK
    <3>2. PICK d \in Call : At(d, "import", "pref") /\ call[d].u = w
      BY <3>1 DEF IInv, PreferencesFollow
    <3>3. d # c
      BY <3>2 DEF IInv, TypeOK
    <3> QED BY <3>2, <3>3 DEF At, IInv, TypeOK
  <2> QED BY <2>1, <2>2
<1>7. RequestsMove'
  BY DEF IInv, RequestsMove
<1> QED BY <1>1, <1>2, <1>3, <1>4, <1>5, <1>6, <1>7 DEF IInv

\* The row of a session is written; its token does not go back.
LEMMA SessionWrite ==
  ASSUME IInv, NEW s \in Session, NEW row \in SessionRecord,
         session' = [session EXCEPT ![s] = row], call' \in [Call -> CallRecord],
         \A d \in Call : CallSound(call'[d]),
         \A d \in Call : At(d, "import", "pref") => call'[d] = call[d],
         UNCHANGED <<user, req, faults, erased, returned>>,
         exchanged' \subseteq Session \X (0..MaxVersion), loggedOut' \subseteq Session,
         \A q \in Session \ {s} : \A v \in 0..MaxVersion :
            <<q, v>> \in exchanged' => <<q, v>> \in exchanged,
         \A q \in Session \ {s} : q \in loggedOut' => q \in loggedOut,
         row.state # "unused", session[s].token <= row.token, SessionSound(s)'
  PROVE  IInv'
<1>1. TypeOK'
  BY DEF IInv, TypeOK
<1>2. ASSUME NEW d \in Call PROVE CallSound(call[d])'
  <2>1. CallSound(call'[d]) /\ call'[d].s \in Session /\ call'[d].token \in 0..MaxVersion
    BY DEF CallRecord
  <2>2. /\ session[call'[d].s].token <= session'[call'[d].s].token
        /\ session[call'[d].s].state # "unused" => session'[call'[d].s].state # "unused"
    BY <2>1 DEF IInv, TypeOK, SessionRecord
  <2>3. /\ session[call'[d].s].token \in 0..MaxVersion
        /\ session'[call'[d].s].token \in 0..MaxVersion
    BY <2>1, <1>1 DEF IInv, TypeOK, SessionRecord
  <2> QED BY <2>1, <2>2, <2>3 DEF CallSound
<1>3. ASSUME NEW q \in Session PROVE SessionSound(q)'
  <2>1. CASE q = s
    BY <2>1
  <2>2. CASE q # s
    BY <2>2 DEF IInv, TypeOK, SessionSound
  <2> QED BY <2>1, <2>2
<1>4. \A u \in User : UserSound(u)'
  BY DEF IInv, UserSound
<1>5. \A r \in Request : RequestSound(req[r])'
  BY DEF IInv, RequestSound
<1>6. PreferencesFollow'
  BY DEF IInv, TypeOK, PreferencesFollow, At
<1>7. RequestsMove'
  BY DEF IInv, RequestsMove
<1> QED BY <1>1, <1>2, <1>3, <1>4, <1>5, <1>6, <1>7 DEF IInv

\* A statement of a compliance request or of its job.
LEMMA RequestStep ==
  ASSUME IInv, NEW r \in Request, NEW q \in RequestRecord, RequestSound(q),
         req' = [req EXCEPT ![r] = q],
         UNCHANGED <<user, session, call, exchanged, loggedOut, erased, returned>>,
         faults' \in 0..MaxFaults,
         faults' = 0 => /\ faults = 0
                        /\ q.status = "PENDING" => q.job # "ended"
                        /\ q.status = "IN_PROGRESS" => q.job = "active"
  PROVE  IInv'
<1>1. TypeOK'
  BY DEF IInv, TypeOK
<1>2. \A d \in Call : CallSound(call[d])'
  BY DEF IInv, CallSound
<1>3. \A s \in Session : SessionSound(s)'
  BY DEF IInv, SessionSound
<1>4. \A u \in User : UserSound(u)'
  BY DEF IInv, UserSound
<1>5. \A p \in Request : RequestSound(req[p])'
  BY DEF IInv, TypeOK, RequestSound
<1>6. PreferencesFollow'
  BY DEF IInv, PreferencesFollow, At
<1>7. RequestsMove'
  BY DEF IInv, TypeOK, RequestsMove
<1> QED BY <1>1, <1>2, <1>3, <1>4, <1>5, <1>6, <1>7 DEF IInv
-----------------------------------------------------------------------------
(* Sessions                                                                  *)

\* A call that ends is idle again.
LEMMA ReturnStep ==
  ASSUME IInv, NEW c \in Call, Return(c), ~At(c, "import", "pref"),
         UNCHANGED <<user, session, req, faults, exchanged, loggedOut, erased, returned>>
  PROVE  IInv'
BY IdleCall, CallStep DEF Return, IInv, TypeOK

\* What a call starts with.
LEMMA StartCall ==
  ASSUME TypeOK, NEW c \in Call, NEW u \in User,
         NEW kind \in {"login", "refresh", "logout", "update", "delete", "import", "assign"},
         NEW pc \in {"resolve", "revoke", "write"}
  PROVE  LET r == Start(c, kind, pc, u) IN
         /\ r \in CallRecord
         /\ r.kind = kind /\ r.pc = pc /\ r.u = u /\ r.token = 0 /\ ~r.again /\ ~r.given
         /\ r.since = {user[u].roles} /\ (r.early <=> u \notin erased)
<1>1. user[u].roles \in RoleSets
  BY DEF TypeOK, UserRecord
<1>2. ASSUME NEW e \in BOOLEAN, (u \notin erased) = e
      PROVE  LET r == Start(c, kind, pc, u) IN
             /\ r \in CallRecord
             /\ r.kind = kind /\ r.pc = pc /\ r.u = u /\ r.token = 0 /\ ~r.again /\ ~r.given
             /\ r.since = {user[u].roles} /\ r.early = e
  <2>1. Start(c, kind, pc, u) = [Idle EXCEPT !.kind = kind, !.pc = pc, !.u = u,
                                             !.since = {user[u].roles}, !.early = e]
    BY <1>2, Zenon DEF Start
  <2>2. Start(c, kind, pc, u) =
           [kind |-> kind, pc |-> pc, u |-> u, s |-> AnySession, token |-> 0, contact |-> None,
            on |-> "keep", roles |-> {}, since |-> {user[u].roles}, early |-> e, given |-> FALSE,
            again |-> FALSE]
    BY <2>1 DEF Idle
  <2>3. AnySession \in Session /\ {} \in RoleSets /\ None \in Contacts /\ 0 \in 0..MaxVersion
    BY IdleCall DEF Idle, CallRecord
  <2> QED BY <1>1, <2>2, <2>3 DEF CallRecord
<1>3. CASE u \in erased
  <2>1. (u \notin erased) = FALSE
    BY <1>3
  <2> QED BY <1>2, <1>3, <2>1, Zenon
<1>4. CASE u \notin erased
  <2>1. (u \notin erased) = TRUE
    BY <1>4
  <2> QED BY <1>2, <1>4, <2>1, Zenon
<1> QED BY <1>3, <1>4

\* A call that begins was idle before.
LEMMA BeginStep ==
  ASSUME IInv, NEW c \in Call, NEW rec \in CallRecord, CallSound(rec), Begin(c, rec),
         UNCHANGED <<user, session, req, faults, exchanged, loggedOut, erased, returned>>
  PROVE  IInv'
BY CallStep DEF Begin, At, IInv, TypeOK

LEMMA LoginStep == ASSUME IInv, NEW c \in Call, Login(c) PROVE IInv'
<1>1. PICK u \in User : InUse(u) /\ Begin(c, Start(c, "login", "resolve", u))
  BY DEF Login
<1> DEFINE rec == Start(c, "login", "resolve", u)
<1>2. /\ rec \in CallRecord /\ rec.kind = "login" /\ rec.pc = "resolve" /\ rec.u = u
      /\ rec.since = {user[u].roles} /\ (rec.early <=> u \notin erased)
  BY StartCall DEF IInv
<1>3. user[u].exists /\ (u \in erased => u \in returned)
  BY <1>1 DEF InUse, IInv, UserSound
<1> HIDE DEF rec
<1>4. CallSound(rec)
  BY <1>2, <1>3 DEF CallSound
<1> QED BY <1>1, <1>2, <1>4, BeginStep DEF Login, rec

LEMMA RefreshStep == ASSUME IInv, NEW c \in Call, Refresh(c) PROVE IInv'
<1>1. PICK s \in Session, v \in 1..MaxVersion :
         /\ Accepts(s, v) /\ Refreshable(s)
         /\ Begin(c, [Start(c, "refresh", "resolve", session[s].user) EXCEPT
                         !.s = s, !.token = v, !.again = <<s, v>> \in exchanged])
  BY DEF Refresh
<1> DEFINE u == session[s].user
<1> DEFINE first == Start(c, "refresh", "resolve", u)
<1> DEFINE rec == [first EXCEPT !.s = s, !.token = v, !.again = <<s, v>> \in exchanged]
<1>2. u \in User
  BY DEF IInv, TypeOK, SessionRecord
<1>3. /\ first \in CallRecord /\ first.kind = "refresh" /\ first.pc = "resolve" /\ first.u = u
      /\ first.since = {user[u].roles} /\ (first.early <=> u \notin erased)
  BY <1>2, StartCall DEF IInv
<1>4. user[u].exists /\ (u \in erased => u \in returned)
  BY <1>1, <1>2 DEF Refreshable, InUse, IInv, UserSound
<1>5. session[s].state = "live" /\ v = session[s].token /\ v \in 0..MaxVersion
  BY <1>1 DEF Accepts
<1>6. (<<s, v>> \in exchanged) = FALSE
  BY <1>5 DEF IInv, SessionSound, TypeOK, SessionRecord
<1> HIDE DEF first, u
<1>0. rec = [first EXCEPT !.s = s, !.token = v, !.again = FALSE]
  BY <1>6
<1>7. /\ rec \in CallRecord /\ rec.kind = "refresh" /\ rec.pc = "resolve" /\ rec.u = u
      /\ rec.since = {user[u].roles} /\ (rec.early <=> u \notin erased)
      /\ rec.s = s /\ rec.token = v /\ ~rec.again
  <2> HIDE DEF rec
  <2> QED BY <1>0, <1>3, <1>5 DEF CallRecord
<1>8. Begin(c, rec)
  BY <1>1 DEF first, u
<1> HIDE DEF rec
<1>9. CallSound(rec)
  BY <1>4, <1>5, <1>7 DEF CallSound
<1> QED BY <1>7, <1>8, <1>9, BeginStep DEF Refresh

LEMMA ResolveStep == ASSUME IInv, NEW c \in Call, ResolveUserAccess(c) PROVE IInv'
<1>1. call[c] \in CallRecord /\ CallSound(call[c]) /\ call[c].pc = "resolve"
  BY DEF IInv, TypeOK, ResolveUserAccess
<1>2. ~At(c, "import", "pref")
  BY <1>1 DEF At
<1>3. CASE ~InUse(call[c].u)
  BY <1>2, <1>3, ReturnStep DEF ResolveUserAccess
<1>4. CASE InUse(call[c].u)
  <2> DEFINE rec == [call[c] EXCEPT !.pc = "issue", !.roles = user[call[c].u].roles]
  <2>1. user[call[c].u].roles \in RoleSets
    BY <1>1 DEF IInv, TypeOK, UserRecord, CallRecord
  <2>2. rec \in CallRecord
    BY <1>1, <2>1 DEF CallRecord
  <2>3. CallSound(rec)
    BY <1>1, <2>1 DEF CallSound, CallRecord
  <2>4. call' = [call EXCEPT ![c] = rec]
    BY <1>4 DEF ResolveUserAccess, IInv, TypeOK
  <2> HIDE DEF rec
  <2> QED BY <1>2, <2>2, <2>3, <2>4, CallStep DEF ResolveUserAccess, IInv, TypeOK
<1> QED BY <1>3, <1>4

LEMMA LogoutStep == ASSUME IInv, NEW c \in Call, Logout(c) PROVE IInv'
<1>1. PICK s \in Session, v \in 1..MaxVersion :
         /\ Accepts(s, v)
         /\ Begin(c, [Start(c, "logout", "revoke", session[s].user) EXCEPT !.s = s])
  BY DEF Logout
<1> DEFINE first == Start(c, "logout", "revoke", session[s].user)
<1> DEFINE rec == [first EXCEPT !.s = s]
<1>2. session[s].user \in User /\ session[s].state = "live"
  BY <1>1 DEF IInv, TypeOK, SessionRecord, Accepts
<1>3. first \in CallRecord /\ first.kind = "logout" /\ first.pc = "revoke"
  BY <1>2, StartCall DEF IInv
<1> HIDE DEF first
<1>4. rec \in CallRecord /\ rec.kind = "logout" /\ rec.pc = "revoke" /\ rec.s = s
  BY <1>3 DEF CallRecord
<1>5. Begin(c, rec)
  BY <1>1 DEF first
<1> HIDE DEF rec
<1>6. CallSound(rec)
  BY <1>2, <1>4 DEF CallSound
<1> QED BY <1>4, <1>5, <1>6, BeginStep DEF Logout

\* A call that returns while a session is written.
LEMMA ReturnOnly ==
  ASSUME IInv, NEW c \in Call, Return(c)
  PROVE  /\ call' \in [Call -> CallRecord] /\ \A d \in Call : CallSound(call'[d])
         /\ \A d \in Call \ {c} : call'[d] = call[d]
BY IdleCall DEF Return, IInv, TypeOK

LEMMA TokensStep == ASSUME IInv, NEW c \in Call, CreateAuthTokens(c) PROVE IInv'
<1>1. PICK s \in Session :
         /\ session[s].state = "unused"
         /\ session' = [session EXCEPT ![s] =
               [NoSession EXCEPT !.state = "live", !.user = call[c].u, !.token = 1,
                                 !.last = 1, !.after = call[c].u \in erased]]
  BY DEF CreateAuthTokens
<1> DEFINE row == [NoSession EXCEPT !.state = "live", !.user = call[c].u, !.token = 1,
                                    !.last = 1, !.after = call[c].u \in erased]
<1>2. call[c].u \in User
  BY DEF IInv, TypeOK, CallRecord
<1>3. /\ row \in SessionRecord /\ row.state = "live" /\ row.user = call[c].u
      /\ row.token = 1 /\ row.last = 1 /\ (row.after <=> call[c].u \in erased)
  <2>1. ASSUME NEW e \in BOOLEAN, (call[c].u \in erased) = e
        PROVE  row \in SessionRecord /\ row.state = "live" /\ row.user = call[c].u
               /\ row.token = 1 /\ row.last = 1 /\ row.after = e
    <3>1. row = [NoSession EXCEPT !.state = "live", !.user = call[c].u, !.token = 1,
                                  !.last = 1, !.after = e]
      BY <2>1, Zenon
    <3>2. 1 \in 0..MaxVersion
      OBVIOUS
    <3> HIDE DEF row
    <3>3. row = [state |-> "live", user |-> call[c].u, token |-> 1, last |-> 1,
                 revoked |-> FALSE, expired |-> FALSE, after |-> e]
      BY <3>1 DEF NoSession
    <3> QED BY <1>2, <3>2, <3>3 DEF SessionRecord
  <2> HIDE DEF row
  <2>2. CASE call[c].u \in erased
    <3>1. (call[c].u \in erased) = TRUE
      BY <2>2
    <3> QED BY <2>1, <2>2, <3>1, Zenon
  <2>3. CASE call[c].u \notin erased
    <3>1. (call[c].u \in erased) = FALSE
      BY <2>3
    <3> QED BY <2>1, <2>3, <3>1, Zenon
  <2> QED BY <2>2, <2>3
<1>4. session' = [session EXCEPT ![s] = row] /\ Return(c)
  BY <1>1 DEF CreateAuthTokens
<1> HIDE DEF row
<1>5. session[s].state = "unused" /\ s \notin loggedOut
      /\ \A v \in 0..MaxVersion : <<s, v>> \notin exchanged
  BY <1>1 DEF IInv, SessionSound
<1>6. session'[s] = row
  BY <1>4 DEF IInv, TypeOK
<1>7. SessionSound(s)'
  BY <1>3, <1>5, <1>6 DEF SessionSound, CreateAuthTokens
<1>8. session[s].token <= row.token
  BY <1>1, <1>3 DEF IInv, SessionSound
<1>9. /\ At(c, "login", "issue")
      /\ UNCHANGED <<user, req, faults, exchanged, loggedOut, erased, returned>>
  BY DEF CreateAuthTokens
<1>10. /\ call' \in [Call -> CallRecord] /\ \A d \in Call : CallSound(call'[d])
       /\ \A d \in Call : At(d, "import", "pref") => call'[d] = call[d]
  BY <1>4, <1>9, ReturnOnly DEF At
<1>11. exchanged' \subseteq Session \X (0..MaxVersion) /\ loggedOut' \subseteq Session
  BY <1>9 DEF IInv, TypeOK
<1>12. row.state # "unused"
  BY <1>3
<1> QED BY <1>3, <1>4, <1>7, <1>8, <1>9, <1>10, <1>11, <1>12, SessionWrite

LEMMA RotateStep == ASSUME IInv, NEW c \in Call, RotateSession(c) PROVE IInv'
<1>0. PICK s \in Session : s = call[c].s
  BY DEF IInv, TypeOK, CallRecord
<1>1. /\ call[c] \in CallRecord /\ CallSound(call[c])
      /\ call[c].kind = "refresh" /\ call[c].pc = "issue"
  BY DEF RotateSession, At, IInv, TypeOK
<1>2. s \in Session /\ call[c].token \in 0..MaxVersion /\ call[c].token <= session[s].token
  BY <1>0, <1>1 DEF CallRecord, CallSound
<1>3. ~At(c, "import", "pref")
  BY <1>1 DEF At
<1>4. CASE session[s].state # "live"
  BY <1>0, <1>3, <1>4, ReturnStep DEF RotateSession
<1>5. CASE session[s].state = "live"
  <2> DEFINE row == Rotated(session[s])
  <2>1. session[s] \in SessionRecord /\ SessionSound(s) /\ session[s].last < MaxVersion
    BY <1>0, <1>2, <1>5 DEF IInv, TypeOK, RotateSession
  <2>2. session[s].last \in 0..MaxVersion /\ session[s].last + 1 \in 0..MaxVersion
    BY <2>1 DEF SessionRecord
  <2>3. /\ row \in SessionRecord /\ row.state = "live" /\ row.user = session[s].user
        /\ row.token = session[s].last + 1 /\ row.last = session[s].last + 1
        /\ row.revoked = session[s].revoked /\ row.after = session[s].after
    BY <1>5, <2>1, <2>2 DEF Rotated, SessionRecord
  <2>4. /\ session' = [session EXCEPT ![s] = row] /\ Return(c)
        /\ exchanged' = exchanged \cup {<<s, call[c].token>>}
        /\ UNCHANGED <<user, req, faults, loggedOut, erased, returned>>
    BY <1>0, <1>2, <1>5 DEF RotateSession, IInv, TypeOK
  <2> HIDE DEF row
  <2>5. session'[s] = row
    BY <1>2, <2>4 DEF IInv, TypeOK
  <2>6. \A v \in 0..MaxVersion : <<s, v>> \in exchanged' => v < row.token
    <3> SUFFICES ASSUME NEW v \in 0..MaxVersion, <<s, v>> \in exchanged' PROVE v < row.token
      OBVIOUS
    <3>1. <<s, v>> \in exchanged \/ v = call[c].token
      BY <2>4
    <3>2. v <= session[s].token
      BY <1>2, <2>1, <2>2, <3>1 DEF SessionSound
    <3> QED BY <2>1, <2>2, <2>3, <3>2 DEF SessionSound
  <2>7. SessionSound(s)'
    <3>1. session'[s].token = session'[s].last /\ session'[s].state = "live"
      BY <2>1, <2>3, <2>5 DEF SessionSound
    <3>2. s \in loggedOut' => session'[s].revoked
      BY <2>1, <2>3, <2>4, <2>5 DEF SessionSound
    <3>4. session'[s].user \in erased' => session'[s].after
      BY <1>5, <2>1, <2>3, <2>4, <2>5 DEF SessionSound
    <3> QED BY <2>5, <2>6, <3>1, <3>2, <3>4 DEF SessionSound
  <2>8. exchanged' \subseteq Session \X (0..MaxVersion)
    BY <1>2, <2>4 DEF IInv, TypeOK
  <2>9. \A q \in Session \ {s} : \A v \in 0..MaxVersion :
            <<q, v>> \in exchanged' => <<q, v>> \in exchanged
    BY <2>4
  <2>10. session[s].token <= row.token
    BY <2>1, <2>2, <2>3 DEF SessionSound
  <2>11. loggedOut' \subseteq Session /\ \A q \in Session \ {s} : q \in loggedOut' => q \in loggedOut
    BY <2>4 DEF IInv, TypeOK
  <2>12. \A d \in Call : At(d, "import", "pref") => call'[d] = call[d]
    BY <1>3, <2>4, ReturnOnly
  <2>13. call' \in [Call -> CallRecord] /\ \A d \in Call : CallSound(call'[d])
    BY <2>4, ReturnOnly
  <2>14. row.state # "unused"
    BY <2>3
  <2> QED BY <1>2, <2>3, <2>4, <2>7, <2>8, <2>9, <2>10, <2>11, <2>12, <2>13, <2>14, SessionWrite
<1> QED BY <1>4, <1>5

LEMMA RevokeStep == ASSUME IInv, NEW c \in Call, RevokeSession(c) PROVE IInv'
<1>0. PICK s \in Session : s = call[c].s
  BY DEF IInv, TypeOK, CallRecord
<1>1. /\ call[c] \in CallRecord /\ call[c].kind = "logout" /\ s \in Session
  BY DEF RevokeSession, At, IInv, TypeOK, CallRecord
<1>2. ~At(c, "import", "pref")
  BY <1>1 DEF At
<1>3. CASE session[s].state # "live"
  BY <1>0, <1>2, <1>3, ReturnStep DEF RevokeSession
<1>4. CASE session[s].state = "live"
  <2> DEFINE row == [session[s] EXCEPT !.revoked = TRUE]
  <2>1. session[s] \in SessionRecord /\ SessionSound(s)
    BY <1>1 DEF IInv, TypeOK
  <2>2. /\ row \in SessionRecord /\ row.state = "live" /\ row.user = session[s].user
        /\ row.token = session[s].token /\ row.last = session[s].last
        /\ row.revoked /\ row.after = session[s].after
    BY <1>4, <2>1 DEF SessionRecord
  <2>3. /\ session' = [session EXCEPT ![s] = row] /\ Return(c)
        /\ loggedOut' = loggedOut \cup {s}
        /\ UNCHANGED <<user, req, faults, exchanged, erased, returned>>
    BY <1>0, <1>1, <1>4 DEF RevokeSession, IInv, TypeOK
  <2> HIDE DEF row
  <2>4. session'[s] = row
    BY <1>1, <2>3 DEF IInv, TypeOK
  <2>5. SessionSound(s)'
    <3>1. session'[s].token = session'[s].last /\ session'[s].state = "live"
      BY <2>1, <2>2, <2>4 DEF SessionSound
    <3>2. session'[s].revoked
      BY <2>2, <2>4
    <3>3. \A v \in 0..MaxVersion : <<s, v>> \in exchanged' => v < session'[s].token
      BY <2>1, <2>2, <2>3, <2>4 DEF SessionSound
    <3>4. session'[s].user \in erased' => session'[s].after
      BY <1>4, <2>1, <2>2, <2>3, <2>4 DEF SessionSound
    <3> QED BY <3>1, <3>2, <3>3, <3>4 DEF SessionSound
  <2>6. session[s].token <= row.token
    BY <2>1, <2>2 DEF SessionRecord
  <2>7. loggedOut' \subseteq Session /\ \A q \in Session \ {s} : q \in loggedOut' => q \in loggedOut
    BY <1>1, <2>3 DEF IInv, TypeOK
  <2>8. exchanged' \subseteq Session \X (0..MaxVersion)
    BY <2>3 DEF IInv, TypeOK
  <2>9. \A d \in Call : At(d, "import", "pref") => call'[d] = call[d]
    BY <1>2, <2>3, ReturnOnly
  <2>10. call' \in [Call -> CallRecord] /\ \A d \in Call : CallSound(call'[d])
    BY <2>3, ReturnOnly
  <2>11. row.state # "unused"
    BY <2>2
  <2> QED BY <1>1, <2>2, <2>3, <2>5, <2>6, <2>7, <2>8, <2>9, <2>10, <2>11, SessionWrite
<1> QED BY <1>3, <1>4

LEMMA ExpireStep == ASSUME IInv, NEW s \in Session, ExpireSession(s) PROVE IInv'
<1> DEFINE row == [session[s] EXCEPT !.expired = TRUE]
<1>1. session[s] \in SessionRecord /\ SessionSound(s) /\ session[s].state = "live"
  BY DEF IInv, TypeOK, ExpireSession
<1>2. /\ row \in SessionRecord /\ row.state = "live" /\ row.user = session[s].user
      /\ row.token = session[s].token /\ row.last = session[s].last
      /\ row.revoked = session[s].revoked /\ row.after = session[s].after
  BY <1>1 DEF SessionRecord
<1>3. /\ session' = [session EXCEPT ![s] = row]
      /\ UNCHANGED <<user, call, req, faults, exchanged, loggedOut, erased, returned>>
  BY DEF ExpireSession, IInv, TypeOK
<1> HIDE DEF row
<1>4. session'[s] = row
  BY <1>3 DEF IInv, TypeOK
<1>5. SessionSound(s)'
  BY <1>1, <1>2, <1>3, <1>4 DEF SessionSound
<1>6. session[s].token <= row.token /\ row.state # "unused"
  BY <1>1, <1>2 DEF SessionRecord
<1> QED BY <1>2, <1>3, <1>5, <1>6, SessionWrite DEF IInv, TypeOK

-----------------------------------------------------------------------------
(* Users                                                                     *)

LEMMA CreateUserStep == ASSUME IInv, NEW c \in Call, CreateUser(c) PROVE IInv'
<1>1. PICK u \in User, k \in Contact :
         /\ ~user[u].exists
         /\ user' = [user EXCEPT ![u] = [exists |-> TRUE, active |-> TRUE, deleted |-> FALSE,
                                         pref |-> TRUE, contact |-> k, roles |-> {}]]
  BY DEF CreateUser
<1> DEFINE row == [exists |-> TRUE, active |-> TRUE, deleted |-> FALSE,
                   pref |-> TRUE, contact |-> k, roles |-> {}]
<1>2. row \in UserRecord /\ row.exists /\ row.pref
  BY DEF UserRecord, Contacts
<1>3. user' = [user EXCEPT ![u] = row]
  BY <1>1
<1>4. u \notin erased
  BY <1>1 DEF IInv, UserSound
<1>5. /\ call' = [call EXCEPT ![c] = call[c]] /\ call[c].pc = "idle"
      /\ UNCHANGED <<session, req, faults, exchanged, loggedOut, erased, returned>>
  BY DEF CreateUser, IInv, TypeOK
<1>7. returned' \subseteq User /\ ~At(c, "import", "pref")
  BY <1>5 DEF At, IInv, TypeOK
<1>6. call[c] \in CallRecord /\ CallSound(call[c])
  BY DEF IInv, TypeOK
<1> HIDE DEF row
<1> QED BY <1>1, <1>2, <1>3, <1>4, <1>5, <1>6, <1>7, UserWrite

LEMMA UpdateStep == ASSUME IInv, NEW c \in Call, UpdateUser(c) PROVE IInv'
<1>1. PICK u \in User, k \in Contact \cup {None}, on \in {"keep", "yes", "no"} :
         LET next == IF k = None THEN user[u].contact ELSE k IN
         /\ user[u].exists /\ next # None
         /\ Begin(c, [Start(c, "update", "write", u) EXCEPT
                         !.contact = next, !.given = k # None, !.on = on])
  BY Zenon DEF UpdateUser
<1> DEFINE next == IF k = None THEN user[u].contact ELSE k
<1> DEFINE first == Start(c, "update", "write", u)
<1> DEFINE rec == [first EXCEPT !.contact = next, !.given = k # None, !.on = on]
<1>2. next \in Contacts
  BY DEF IInv, TypeOK, UserRecord, Contacts
<1>3. /\ first \in CallRecord /\ first.kind = "update" /\ first.pc = "write"
      /\ first.u = u /\ (first.early <=> u \notin erased)
  BY StartCall DEF IInv
<1>4. Begin(c, rec)
  BY <1>1
<1>5. k = None => u \notin erased \ returned \/ next \notin Contact
  BY DEF IInv, UserSound
<1> HIDE DEF first, next
<1>6. /\ rec \in CallRecord /\ rec.kind = "update" /\ rec.pc = "write" /\ rec.u = u
      /\ (rec.early <=> u \notin erased) /\ rec.contact = next /\ (rec.given <=> k # None)
  <2>1. ASSUME NEW e \in BOOLEAN, (k # None) = e
        PROVE  /\ rec \in CallRecord /\ rec.kind = "update" /\ rec.pc = "write" /\ rec.u = u
               /\ (rec.early <=> u \notin erased) /\ rec.contact = next /\ rec.given = e
    <3>1. rec = [first EXCEPT !.contact = next, !.given = e, !.on = on]
      BY <2>1, Zenon
    <3> HIDE DEF rec
    <3> QED BY <1>2, <1>3, <3>1 DEF CallRecord
  <2> HIDE DEF rec
  <2>2. CASE k # None
    <3>1. (k # None) = TRUE
      BY <2>2
    <3> QED BY <2>1, <2>2, <3>1, Zenon
  <2>3. CASE k = None
    <3>1. (k # None) = FALSE
      BY <2>3
    <3> QED BY <2>1, <2>3, <3>1, Zenon
  <2> QED BY <2>2, <2>3
<1> HIDE DEF rec
<1>7. CallSound(rec)
  BY <1>5, <1>6 DEF CallSound
<1> QED BY <1>4, <1>6, <1>7, BeginStep DEF UpdateUser
\* A row written over: who comes back is counted.
LEMMA RewriteStep ==
  ASSUME IInv, NEW c \in Call, Return(c), Rewrite(c),
         call[c].kind \in {"update", "import"}, call[c].pc = "write", NEW row \in UserRecord,
         user' = [user EXCEPT ![call[c].u] = row],
         UNCHANGED <<session, req, faults, exchanged, loggedOut, erased>>,
         row.exists = user[call[c].u].exists, row.pref = user[call[c].u].pref,
         row.roles = user[call[c].u].roles, row.contact = call[c].contact,
         call[c].kind = "update" => row.deleted = user[call[c].u].deleted
  PROVE  IInv'
<1>0. PICK u \in User : u = call[c].u
  BY DEF IInv, TypeOK, CallRecord
<1>1. CallSound(call[c]) /\ UserSound(u) /\ ~At(c, "import", "pref")
  BY DEF IInv, At
<1>2. returned \subseteq returned' /\ returned' \subseteq User
  BY <1>0 DEF Rewrite, IInv, TypeOK
<1>3. ASSUME u \in erased \ returned' PROVE row.deleted /\ row.contact \notin Contact
  <2>1. u \notin returned /\ ~call[c].early /\ ~call[c].given
    BY <1>0, <1>3 DEF Rewrite
  <2>2. call[c].kind = "update" /\ call[c].contact \notin Contact
    BY <1>0, <1>1, <2>1 DEF CallSound
  <2>3. user[u].deleted
    BY <1>1, <1>3, <2>1 DEF UserSound
  <2> QED BY <1>0, <2>2, <2>3
<1>4. call' = [call EXCEPT ![c] = Idle] /\ user' = [user EXCEPT ![u] = row]
  BY <1>0 DEF Return
<1>5. Idle \in CallRecord /\ CallSound(Idle)
  BY IdleCall
<1>6. u \in erased => user[u].exists
  BY <1>1 DEF UserSound
<1>7. row.exists = user[u].exists /\ row.pref = user[u].pref /\ row.roles = user[u].roles
  BY <1>0
<1>8. UNCHANGED <<session, req, faults, exchanged, loggedOut, erased>>
  OBVIOUS
<1> QED BY ONLY IInv, <1>1, <1>2, <1>3, <1>4, <1>5, <1>6, <1>7, <1>8, UserWrite

LEMMA WriteUpdateStep == ASSUME IInv, NEW c \in Call, WriteUpdate(c) PROVE IInv'
<1>0. PICK u \in User : u = call[c].u
  BY DEF IInv, TypeOK, CallRecord
<1>1. call[c].kind = "update" /\ call[c].pc = "write" /\ Return(c)
  BY DEF WriteUpdate, At
<1>2. CASE ~Free(call[c].contact, u)
  BY <1>0, <1>1, <1>2, ReturnStep DEF WriteUpdate, At
<1>3. CASE Free(call[c].contact, u)
  <2> DEFINE on == CASE call[c].on = "keep" -> user[u].active [] OTHER -> call[c].on = "yes"
  <2> DEFINE row == [user[u] EXCEPT !.contact = call[c].contact, !.active = on]
  <2>1. user[u] \in UserRecord /\ call[c].contact \in Contacts
    BY DEF IInv, TypeOK, CallRecord
  <2>2. on \in BOOLEAN
    BY <2>1 DEF UserRecord
  <2>3. user' = [user EXCEPT ![u] = row]
    BY <1>0, <1>3 DEF WriteUpdate, IInv, TypeOK
  <2> HIDE DEF on
  <2>4. /\ row \in UserRecord /\ row.exists = user[u].exists /\ row.pref = user[u].pref
        /\ row.roles = user[u].roles /\ row.contact = call[c].contact
        /\ row.deleted = user[u].deleted
    BY <2>1, <2>2 DEF UserRecord
  <2> HIDE DEF row
  <2> QED BY <1>0, <1>1, <1>3, <2>3, <2>4, RewriteStep DEF WriteUpdate
<1> QED BY <1>2, <1>3
LEMMA DeleteStep == ASSUME IInv, NEW c \in Call, DeleteUser(c) PROVE IInv'
<1>1. PICK u \in User : Begin(c, Start(c, "delete", "write", u))
  BY DEF DeleteUser
<1> DEFINE rec == Start(c, "delete", "write", u)
<1>2. rec \in CallRecord /\ rec.kind = "delete" /\ rec.pc = "write"
  BY StartCall DEF IInv
<1>3. CallSound(rec)
  <2> HIDE DEF rec
  <2> QED BY <1>2 DEF CallSound
<1> QED BY <1>1, <1>2, <1>3, BeginStep DEF DeleteUser

LEMMA WriteDeleteStep == ASSUME IInv, NEW c \in Call, WriteDelete(c) PROVE IInv'
<1>0. PICK u \in User : u = call[c].u
  BY DEF IInv, TypeOK, CallRecord
<1> DEFINE row == [user[u] EXCEPT !.deleted = TRUE, !.active = FALSE, !.contact = None]
<1>1. user[u] \in UserRecord /\ UserSound(u)
  BY DEF IInv, TypeOK
<1>2. /\ row \in UserRecord /\ row.exists = user[u].exists /\ row.pref = user[u].pref
      /\ row.roles = user[u].roles /\ row.deleted /\ row.contact \notin Contact
  BY <1>1 DEF UserRecord, Contacts
<1>3. user' = [user EXCEPT ![u] = row]
  BY <1>0, <1>1 DEF WriteDelete, IInv, TypeOK
<1> HIDE DEF row
<1>4. /\ call' = [call EXCEPT ![c] = Idle] /\ ~At(c, "import", "pref")
      /\ UNCHANGED <<session, req, faults, exchanged, loggedOut, erased, returned>>
  BY DEF WriteDelete, Return, At
<1>5. returned' \subseteq User /\ (u \in erased => user[u].exists)
  BY <1>1, <1>4 DEF IInv, TypeOK, UserSound
<1> QED BY <1>2, <1>3, <1>4, <1>5, IdleCall, UserWrite

LEMMA ImportStep == ASSUME IInv, NEW c \in Call, ImportUser(c) PROVE IInv'
<1>1. PICK k \in Contact :
         \/ Begin(c, [Idle EXCEPT !.kind = "import", !.pc = "create", !.contact = k])
         \/ \E u \in User : /\ user[u].contact = k
                            /\ Begin(c, [Start(c, "import", "write", u) EXCEPT !.contact = k])
  BY DEF ImportUser
<1>2. CASE Begin(c, [Idle EXCEPT !.kind = "import", !.pc = "create", !.contact = k])
  <2> DEFINE rec == [Idle EXCEPT !.kind = "import", !.pc = "create", !.contact = k]
  <2>1. rec \in CallRecord /\ rec.kind = "import" /\ rec.pc = "create"
    BY IdleCall DEF CallRecord, Contacts
  <2> HIDE DEF rec
  <2>2. CallSound(rec)
    BY <2>1 DEF CallSound
  <2> QED BY <1>2, <2>1, <2>2, BeginStep DEF ImportUser, rec
<1>3. ASSUME NEW u \in User, user[u].contact = k,
             Begin(c, [Start(c, "import", "write", u) EXCEPT !.contact = k])
      PROVE  IInv'
  <2> DEFINE first == Start(c, "import", "write", u)
  <2> DEFINE rec == [first EXCEPT !.contact = k]
  <2>1. /\ first \in CallRecord /\ first.kind = "import" /\ first.pc = "write"
        /\ first.u = u /\ (first.early <=> u \notin erased)
    BY StartCall DEF IInv
  <2>2. Begin(c, rec)
    BY <1>3
  <2> HIDE DEF first
  <2>3. /\ rec \in CallRecord /\ rec.kind = "import" /\ rec.pc = "write" /\ rec.u = u
        /\ (rec.early <=> u \notin erased)
    BY <2>1 DEF CallRecord, Contacts
  <2> HIDE DEF rec
  <2>4. u \in erased => u \in returned
    BY <1>3 DEF IInv, UserSound
  <2>5. CallSound(rec)
    BY <2>3, <2>4 DEF CallSound
  <2> QED BY <2>2, <2>3, <2>5, BeginStep DEF ImportUser
<1> QED BY <1>1, <1>2, <1>3

LEMMA WriteImportStep == ASSUME IInv, NEW c \in Call, WriteImport(c) PROVE IInv'
<1>0. PICK u \in User : u = call[c].u
  BY DEF IInv, TypeOK, CallRecord
<1>1. call[c].kind = "import" /\ call[c].pc = "write" /\ Return(c)
  BY DEF WriteImport, At
<1>2. CASE ~Free(call[c].contact, u)
  BY <1>0, <1>1, <1>2, ReturnStep DEF WriteImport, At
<1>3. CASE Free(call[c].contact, u)
  <2> DEFINE row == [user[u] EXCEPT !.contact = call[c].contact, !.deleted = FALSE,
                                    !.active = TRUE]
  <2>1. user[u] \in UserRecord /\ call[c].contact \in Contacts
    BY DEF IInv, TypeOK, CallRecord
  <2>2. user' = [user EXCEPT ![u] = row]
    BY <1>0, <1>3, <2>1 DEF WriteImport, IInv, TypeOK
  <2>3. /\ row \in UserRecord /\ row.exists = user[u].exists /\ row.pref = user[u].pref
        /\ row.roles = user[u].roles /\ row.contact = call[c].contact
    BY <2>1 DEF UserRecord
  <2> HIDE DEF row
  <2> QED BY <1>0, <1>1, <1>3, <2>2, <2>3, RewriteStep DEF WriteImport
<1> QED BY <1>2, <1>3

LEMMA CreateImportedStep == ASSUME IInv, NEW c \in Call, CreateImported(c) PROVE IInv'
<1>1. /\ call[c] \in CallRecord /\ CallSound(call[c])
      /\ call[c].kind = "import" /\ call[c].pc = "create"
      /\ UNCHANGED <<session, req, faults, exchanged, loggedOut, erased, returned>>
  BY DEF CreateImported, At, IInv, TypeOK
<1>2. ~At(c, "import", "pref") /\ returned' \subseteq User
  BY <1>1 DEF At, IInv, TypeOK
<1>3. CASE Return(c) /\ UNCHANGED user
  BY <1>1, <1>2, <1>3, ReturnStep
<1>4. ASSUME NEW u \in User, ~user[u].exists,
             user' = [user EXCEPT ![u] =
                   [exists |-> TRUE, active |-> TRUE, deleted |-> FALSE,
                    pref |-> FALSE, contact |-> call[c].contact, roles |-> {}]],
             call' = [call EXCEPT ![c].pc = "pref", ![c].u = u]
      PROVE  IInv'
  <2> DEFINE row == [exists |-> TRUE, active |-> TRUE, deleted |-> FALSE,
                     pref |-> FALSE, contact |-> call[c].contact, roles |-> {}]
  <2> DEFINE rec == [call[c] EXCEPT !.pc = "pref", !.u = u]
  <2>1. row \in UserRecord /\ user' = [user EXCEPT ![u] = row]
    BY <1>1, <1>4 DEF UserRecord, CallRecord
  <2>2. rec \in CallRecord /\ rec.kind = "import" /\ rec.pc = "pref" /\ rec.u = u
    BY <1>1 DEF CallRecord
  <2>3. call' = [call EXCEPT ![c] = rec]
    BY <1>4 DEF IInv, TypeOK
  <2> HIDE DEF row, rec
  <2>4. CallSound(rec)
    BY <2>2 DEF CallSound
  <2>5. u \notin erased /\ ~user[u].exists /\ returned \subseteq returned'
    BY <1>1, <1>4 DEF IInv, UserSound
  <2>6. UNCHANGED <<session, req, faults, exchanged, loggedOut, erased>>
    BY <1>1
  <2> QED BY <1>2, <2>1, <2>2, <2>3, <2>4, <2>5, <2>6, UserWrite
<1> QED BY <1>3, <1>4 DEF CreateImported

LEMMA PreferenceStep == ASSUME IInv, NEW c \in Call, CreatePreference(c) PROVE IInv'
<1>0. PICK u \in User : u = call[c].u
  BY DEF IInv, TypeOK, CallRecord
<1> DEFINE row == [user[u] EXCEPT !.pref = TRUE]
<1>1. user[u] \in UserRecord /\ UserSound(u)
  BY DEF IInv, TypeOK
<1>2. /\ row \in UserRecord /\ row.exists = user[u].exists /\ row.pref
      /\ row.roles = user[u].roles /\ row.deleted = user[u].deleted
      /\ row.contact = user[u].contact
  BY <1>1 DEF UserRecord
<1>3. user' = [user EXCEPT ![u] = row]
  BY <1>0, <1>1 DEF CreatePreference, IInv, TypeOK
<1> HIDE DEF row
<1>4. /\ call' = [call EXCEPT ![c] = Idle]
      /\ UNCHANGED <<session, req, faults, exchanged, loggedOut, erased, returned>>
  BY DEF CreatePreference, Return
<1>5. /\ returned' \subseteq User /\ (u \in erased => user[u].exists)
      /\ u \in erased \ returned' => row.deleted /\ row.contact \notin Contact
  BY <1>1, <1>2, <1>4 DEF IInv, TypeOK, UserSound
<1> QED BY <1>0, <1>2, <1>3, <1>4, <1>5, IdleCall, UserWrite

LEMMA AssignStep == ASSUME IInv, NEW c \in Call, AssignUserRoles(c) PROVE IInv'
<1>1. PICK u \in User, R \in RoleSets :
         Begin(c, [Start(c, "assign", "write", u) EXCEPT !.roles = R])
  BY DEF AssignUserRoles
<1> DEFINE first == Start(c, "assign", "write", u)
<1> DEFINE rec == [first EXCEPT !.roles = R]
<1>2. first \in CallRecord /\ first.kind = "assign" /\ first.pc = "write"
  BY StartCall DEF IInv
<1>3. Begin(c, rec)
  BY <1>1
<1> HIDE DEF first
<1>4. rec \in CallRecord /\ rec.kind = "assign" /\ rec.pc = "write"
  BY <1>2 DEF CallRecord
<1> HIDE DEF rec
<1>5. CallSound(rec)
  BY <1>4 DEF CallSound
<1> QED BY <1>3, <1>4, <1>5, BeginStep DEF AssignUserRoles

\* The roles are replaced under the calls that are going on.
LEMMA WriteRolesStep == ASSUME IInv, NEW c \in Call, WriteRoles(c) PROVE IInv'
<1>0. PICK u \in User : u = call[c].u
  BY DEF IInv, TypeOK, CallRecord
<1>1. /\ call[c] \in CallRecord /\ call[c].kind = "assign" /\ user[u] \in UserRecord
      /\ call[c].roles \in RoleSets
  BY DEF WriteRoles, At, IInv, TypeOK, CallRecord
<1> DEFINE row == [user[u] EXCEPT !.roles = call[c].roles]
<1>2. /\ row \in UserRecord /\ row.exists = user[u].exists /\ row.pref = user[u].pref
      /\ row.deleted = user[u].deleted /\ row.contact = user[u].contact
      /\ row.roles = call[c].roles
  BY <1>1 DEF UserRecord
<1>3. user' = [user EXCEPT ![u] = row]
  BY <1>0, <1>1 DEF WriteRoles, Replaced, IInv, TypeOK
<1> HIDE DEF row
<1>4. call' = [d \in Call |->
                 IF d = c THEN Idle
                 ELSE IF call[d].u = u /\ call[d].pc # "idle"
                      THEN [call[d] EXCEPT !.since = @ \cup {call[c].roles}]
                      ELSE call[d]]
  BY <1>0 DEF WriteRoles
<1>5. UNCHANGED <<session, req, faults, exchanged, loggedOut, erased, returned>>
  BY DEF WriteRoles
<1>6. ASSUME NEW d \in Call \ {c}
      PROVE  /\ call'[d] \in CallRecord
             /\ \A f \in {"kind", "pc", "u", "s", "token", "contact", "roles", "early",
                          "given", "again"} : call'[d][f] = call[d][f]
             /\ call[d].since \subseteq call'[d].since
             /\ call[d].u = u /\ call[d].pc # "idle" => call[c].roles \in call'[d].since
  <2>1. call[d] \in CallRecord
    BY DEF IInv, TypeOK
  <2>2. CASE call[d].u = u /\ call[d].pc # "idle"
    <3>1. call'[d] = [call[d] EXCEPT !.since = call[d].since \cup {call[c].roles}]
      BY <1>4, <2>2
    <3> QED BY <1>1, <2>1, <3>1 DEF CallRecord
  <2>3. CASE ~(call[d].u = u /\ call[d].pc # "idle")
    BY <1>4, <2>1, <2>3
  <2> QED BY <2>2, <2>3
<1>7. TypeOK'
  BY <1>2, <1>3, <1>4, <1>5, <1>6, IdleCall DEF IInv, TypeOK
<1>8. ASSUME NEW d \in Call PROVE CallSound(call[d])'
  <2>1. CASE d = c
    BY <1>4, <2>1, IdleCall DEF CallSound
  <2>2. CASE d # c
    <3>1. call[d] \in CallRecord /\ CallSound(call[d])
      BY DEF IInv, TypeOK
    <3>2. /\ user'[call[d].u].exists = user[call[d].u].exists
          /\ user'[call[d].u].roles =
               IF call[d].u = u THEN call[c].roles ELSE user[call[d].u].roles
      BY <1>2, <1>3, <3>1 DEF IInv, TypeOK, CallRecord
    <3> QED BY <1>5, <1>6, <2>2, <3>1, <3>2 DEF CallSound
  <2> QED BY <2>1, <2>2
<1>9. \A s \in Session : SessionSound(s)'
  BY <1>5 DEF IInv, SessionSound
<1>10. \A w \in User : /\ UserSound(w)' /\ user'[w].exists = user[w].exists
                       /\ user'[w].pref = user[w].pref
  BY <1>2, <1>3, <1>5 DEF IInv, TypeOK, UserSound
<1>11. \A r \in Request : RequestSound(req[r])'
  BY <1>5, <1>10 DEF IInv, TypeOK, RequestRecord, RequestSound
<1>12. PreferencesFollow'
  BY <1>1, <1>5, <1>6, <1>10 DEF IInv, PreferencesFollow, At
<1>13. RequestsMove'
  BY <1>5 DEF IInv, RequestsMove
<1> QED BY <1>7, <1>8, <1>9, <1>10, <1>11, <1>12, <1>13 DEF IInv

LEMMA LoseStep == ASSUME IInv, NEW c \in Call, LoseCall(c) PROVE IInv'
<1>1. faults' = faults + 1 /\ faults < MaxFaults /\ faults \in 0..MaxFaults
  BY DEF LoseCall, IInv, TypeOK
<1>2. faults' \in 0..MaxFaults /\ faults' # 0
  BY <1>1
<1> QED BY <1>2, IdleCall, CallStep DEF LoseCall, Return
-----------------------------------------------------------------------------
(* Compliance requests                                                       *)

LEMMA CreateRequestStep == ASSUME IInv, NEW r \in Request, CreateRequest(r) PROVE IInv'
<1>1. PICK u \in User, kind \in {"DATA_EXPORT", "DATA_ERASURE"} :
         /\ user[u].exists
         /\ Step(r, [NoRequest EXCEPT !.status = "PENDING", !.kind = kind, !.user = u,
                                      !.pc = "enqueue"])
  BY DEF CreateRequest
<1> DEFINE q == [NoRequest EXCEPT !.status = "PENDING", !.kind = kind, !.user = u,
                                  !.pc = "enqueue"]
<1>2. /\ q \in RequestRecord /\ q.status = "PENDING" /\ q.user = u /\ q.pc = "enqueue"
      /\ q.job = "none" /\ q.tries = 0 /\ q.done = FALSE
  <2>1. /\ NoRequest \in RequestRecord /\ NoRequest.job = "none" /\ NoRequest.tries = 0
        /\ NoRequest.done = FALSE
    BY EmptyRows DEF NoRequest
  <2> QED BY <2>1 DEF RequestRecord
<1>3. req' = [req EXCEPT ![r] = q]
  BY <1>1 DEF Step
<1> HIDE DEF q
<1>4. RequestSound(q)
  BY <1>1, <1>2 DEF RequestSound
<1> QED BY <1>2, <1>3, <1>4, RequestStep DEF CreateRequest, Unchanged, IInv, TypeOK

\* What the statements of a job leave alone.
LEMMA FaultOnce == ASSUME IInv, Fault PROVE faults' \in 0..MaxFaults /\ faults' # 0
<1>1. faults \in 0..MaxFaults /\ faults < MaxFaults /\ faults' = faults + 1
  BY DEF Fault, IInv, TypeOK
<1> QED BY <1>1

LEMMA EnqueueStep == ASSUME IInv, NEW r \in Request, Enqueue(r) PROVE IInv'
<1>1. /\ req[r] \in RequestRecord /\ RequestSound(req[r]) /\ req[r].pc = "enqueue"
      /\ req[r].status = "PENDING" /\ req[r].job = "none"
  BY DEF Enqueue, IInv, TypeOK, RequestSound
<1>2. UNCHANGED <<user, session, call, exchanged, loggedOut, erased, returned>>
  BY DEF Enqueue, Unchanged
<1>3. CASE Step(r, [req[r] EXCEPT !.pc = "idle", !.job = "queued"]) /\ UNCHANGED faults
  <2> DEFINE q == [req[r] EXCEPT !.pc = "idle", !.job = "queued"]
  <2>1. /\ q \in RequestRecord /\ q.pc = "idle" /\ q.job = "queued" /\ q.status = "PENDING"
        /\ q.user = req[r].user /\ q.tries = req[r].tries /\ q.done = req[r].done
    BY <1>1 DEF RequestRecord
  <2>2. req' = [req EXCEPT ![r] = q]
    BY <1>3 DEF Step
  <2> HIDE DEF q
  <2>3. RequestSound(q)
    BY <1>1, <2>1 DEF RequestSound
  <2> QED BY <1>2, <1>3, <2>1, <2>2, <2>3, RequestStep DEF IInv, TypeOK
<1>4. CASE Step(r, [req[r] EXCEPT !.pc = "idle"]) /\ Fault
  <2> DEFINE q == [req[r] EXCEPT !.pc = "idle"]
  <2>1. /\ q \in RequestRecord /\ q.pc = "idle" /\ q.job = "none" /\ q.status = "PENDING"
        /\ q.user = req[r].user /\ q.tries = req[r].tries /\ q.done = req[r].done
    BY <1>1 DEF RequestRecord
  <2>2. req' = [req EXCEPT ![r] = q]
    BY <1>4 DEF Step
  <2> HIDE DEF q
  <2>3. RequestSound(q)
    BY <1>1, <2>1 DEF RequestSound
  <2> QED BY <1>2, <1>4, <2>1, <2>2, <2>3, FaultOnce, RequestStep
<1> QED BY <1>3, <1>4 DEF Enqueue

LEMMA ProcessStep == ASSUME IInv, NEW r \in Request, ProcessRequest(r) PROVE IInv'
<1>1. /\ req[r] \in RequestRecord /\ RequestSound(req[r]) /\ req[r].job = "queued"
      /\ UNCHANGED <<user, session, faults, call, exchanged, loggedOut, erased, returned>>
  BY DEF ProcessRequest, Unchanged, IInv, TypeOK
<1>2. CASE Settled(r)
  <2> DEFINE q == [req[r] EXCEPT !.pc = "idle", !.job = "ended"]
  <2>1. /\ q \in RequestRecord /\ q.pc = "idle" /\ q.job = "ended"
        /\ q.status = req[r].status /\ q.user = req[r].user /\ q.tries = req[r].tries
        /\ q.done = req[r].done /\ q.auditLost = req[r].auditLost
    BY <1>1 DEF RequestRecord
  <2>2. req' = [req EXCEPT ![r] = q]
    BY <1>2 DEF ProcessRequest, Step, EndJob
  <2> HIDE DEF q
  <2>3. RequestSound(q)
    BY <1>1, <2>1 DEF RequestSound
  <2>4. faults = 0 => q.status = "COMPLETED"
    BY <1>1, <1>2, <2>1 DEF Settled, IInv, RequestsMove
  <2> QED BY <1>1, <2>1, <2>2, <2>3, <2>4, RequestStep DEF IInv, TypeOK
<1>3. CASE ~Settled(r)
  <2> DEFINE q == [req[r] EXCEPT !.job = "active", !.pc = "mark"]
  <2>1. /\ q \in RequestRecord /\ q.pc = "mark" /\ q.job = "active"
        /\ q.status = req[r].status /\ q.user = req[r].user /\ q.tries = req[r].tries
        /\ q.done = req[r].done /\ q.auditLost = req[r].auditLost
    BY <1>1 DEF RequestRecord
  <2>2. req' = [req EXCEPT ![r] = q]
    BY <1>3 DEF ProcessRequest, Step
  <2>0. req[r].status \notin {"COMPLETED", "IN_PROGRESS"}
    BY <1>3 DEF Settled
  <2> HIDE DEF q
  <2>3. RequestSound(q)
    BY <1>1, <2>0, <2>1 DEF RequestSound
  <2> QED BY <1>1, <2>1, <2>2, <2>3, RequestStep DEF IInv, TypeOK
<1> QED BY <1>2, <1>3

\* The statements of a job that do not fail.
LEMMA JobStep ==
  ASSUME IInv, NEW r \in Request,
         MarkInProgress(r) \/ AuditStart(r) \/ ProcessDataExport(r) \/ AuditComplete(r)
         \/ MarkFailed(r)
  PROVE  IInv'
<1>1. /\ req[r] \in RequestRecord /\ RequestSound(req[r])
      /\ UNCHANGED <<user, session, faults, call, exchanged, loggedOut, erased, returned>>
  BY DEF MarkInProgress, AuditStart, ProcessDataExport, AuditComplete, MarkFailed, Unchanged,
         IInv, TypeOK
<1>2. CASE MarkInProgress(r)
  <2> DEFINE q == [req[r] EXCEPT !.status = "IN_PROGRESS", !.pc = "start"]
  <2>1. /\ q \in RequestRecord /\ q.pc = "start" /\ q.job = req[r].job
        /\ q.status = "IN_PROGRESS" /\ q.user = req[r].user /\ q.tries = req[r].tries
        /\ q.done = req[r].done
    BY <1>1 DEF RequestRecord
  <2>2. req' = [req EXCEPT ![r] = q] /\ req[r].pc = "mark"
    BY <1>2 DEF MarkInProgress, Step
  <2> HIDE DEF q
  <2>3. RequestSound(q) /\ q.job = "active"
    BY <1>1, <2>1, <2>2 DEF RequestSound
  <2> QED BY <1>1, <2>1, <2>2, <2>3, RequestStep DEF IInv, TypeOK
<1>3. CASE AuditStart(r)
  <2> DEFINE q == [req[r] EXCEPT !.pc = "run"]
  <2>1. /\ q \in RequestRecord /\ q.pc = "run" /\ q.job = req[r].job
        /\ q.status = req[r].status /\ q.user = req[r].user /\ q.tries = req[r].tries
        /\ q.done = req[r].done
    BY <1>1 DEF RequestRecord
  <2>2. req' = [req EXCEPT ![r] = q] /\ req[r].pc = "start"
    BY <1>3 DEF AuditStart, Step
  <2> HIDE DEF q
  <2>3. RequestSound(q) /\ q.job = "active" /\ q.status = "IN_PROGRESS"
    BY <1>1, <2>1, <2>2 DEF RequestSound
  <2> QED BY <1>1, <2>1, <2>2, <2>3, RequestStep DEF IInv, TypeOK
<1>4. CASE ProcessDataExport(r)
  <2> DEFINE q == [req[r] EXCEPT !.status = "COMPLETED", !.pc = "audit", !.done = TRUE]
  <2>1. /\ q \in RequestRecord /\ q.pc = "audit" /\ q.job = req[r].job
        /\ q.status = "COMPLETED" /\ q.user = req[r].user /\ q.tries = req[r].tries
        /\ q.done
    BY <1>1 DEF RequestRecord
  <2>2. req' = [req EXCEPT ![r] = q] /\ req[r].pc = "run"
    BY <1>4 DEF ProcessDataExport, Step
  <2> HIDE DEF q
  <2>3. RequestSound(q)
    BY <1>1, <2>1, <2>2 DEF RequestSound
  <2> QED BY <1>1, <2>1, <2>2, <2>3, RequestStep DEF IInv, TypeOK
<1>5. CASE AuditComplete(r)
  <2> DEFINE q == [req[r] EXCEPT !.pc = "idle", !.job = "ended"]
  <2>1. /\ q \in RequestRecord /\ q.pc = "idle" /\ q.job = "ended"
        /\ q.status = req[r].status /\ q.user = req[r].user /\ q.tries = req[r].tries
        /\ q.done = req[r].done
    BY <1>1 DEF RequestRecord
  <2>2. req' = [req EXCEPT ![r] = q] /\ req[r].pc = "audit"
    BY <1>5 DEF AuditComplete, Step, EndJob
  <2> HIDE DEF q
  <2>3. RequestSound(q) /\ q.status = "COMPLETED"
    BY <1>1, <2>1, <2>2 DEF RequestSound
  <2> QED BY <1>1, <2>1, <2>2, <2>3, RequestStep DEF IInv, TypeOK
<1>6. CASE MarkFailed(r)
  <2> DEFINE q == [[req[r] EXCEPT !.status = "FAILED"] EXCEPT !.pc = "idle", !.job = "ended"]
  <2>1. /\ q \in RequestRecord /\ q.pc = "idle" /\ q.job = "ended" /\ q.status = "FAILED"
        /\ q.user = req[r].user /\ q.tries = req[r].tries
        /\ q.done = req[r].done /\ q.auditLost = req[r].auditLost
    BY <1>1 DEF RequestRecord
  <2>2. req' = [req EXCEPT ![r] = q] /\ req[r].pc = "fail"
    BY <1>6 DEF MarkFailed, Step, EndJob, Caught
  <2> HIDE DEF q
  <2>3. user[req[r].user].exists
    BY <1>1, <2>2 DEF RequestSound
  <2>4. RequestSound(q)
    BY <1>1, <2>1, <2>2, <2>3 DEF RequestSound
  <2> QED BY <1>1, <2>1, <2>2, <2>4, RequestStep DEF IInv, TypeOK
<1> QED BY <1>2, <1>3, <1>4, <1>5, <1>6

\* A statement that fails, or the worker that stops.
LEMMA FailStep ==
  ASSUME IInv, NEW r \in Request, FailStatement(r) \/ StopWorker(r)
  PROVE  IInv'
<1>1. /\ req[r] \in RequestRecord /\ RequestSound(req[r])
      /\ UNCHANGED <<user, session, call, exchanged, loggedOut, erased, returned>>
      /\ faults' \in 0..MaxFaults /\ faults' # 0
  BY FaultOnce DEF FailStatement, StopWorker, Unchanged, IInv, TypeOK
<1>2. CASE FailStatement(r) /\ req[r].pc \in {"run", "audit"}
  <2>1. ASSUME NEW e \in BOOLEAN, (req[r].pc = "audit") = e PROVE IInv'
    <3> DEFINE q == [req[r] EXCEPT !.pc = "fail", !.auditLost = e]
    <3>1. req' = [req EXCEPT ![r] = q]
      BY <1>2, <2>1, Zenon DEF FailStatement, Step
    <3>2. /\ q \in RequestRecord /\ q.pc = "fail" /\ q.job = req[r].job
          /\ q.status = req[r].status /\ q.user = req[r].user /\ q.tries = req[r].tries
          /\ q.done = req[r].done /\ q.auditLost = e
      BY <1>1 DEF RequestRecord
    <3> HIDE DEF q
    <3>3. e \/ req[r].pc = "run"
      BY <1>2, <2>1
    <3>4. RequestSound(q)
      BY <1>1, <1>2, <3>2, <3>3 DEF RequestSound
    <3> QED BY <1>1, <3>1, <3>2, <3>4, RequestStep
  <2>2. CASE req[r].pc = "audit"
    <3>1. (req[r].pc = "audit") = TRUE
      BY <2>2
    <3> QED BY <2>1, <3>1, Zenon
  <2>3. CASE req[r].pc # "audit"
    <3>1. (req[r].pc = "audit") = FALSE
      BY <2>3
    <3> QED BY <2>1, <3>1, Zenon
  <2> QED BY <2>2, <2>3
<1>3. CASE FailStatement(r) /\ req[r].pc \notin {"run", "audit"}
  <2> DEFINE job == IF req[r].tries + 1 < MaxTries THEN "queued" ELSE "ended"
  <2> DEFINE q == [req[r] EXCEPT !.pc = "idle", !.tries = req[r].tries + 1, !.job = job]
  <2>1. req' = [req EXCEPT ![r] = q] /\ req[r].pc \in {"mark", "start", "fail"}
    BY <1>3 DEF FailStatement, Step, Throw
  <2>2. req[r].tries < MaxTries /\ req[r].tries + 1 \in 0..MaxTries
    BY <1>1, <2>1 DEF RequestSound, RequestRecord
  <2>3. job \in {"queued", "ended"} /\ (job = "queued" => req[r].tries + 1 < MaxTries)
    OBVIOUS
  <2> HIDE DEF job
  <2>4. /\ q \in RequestRecord /\ q.pc = "idle" /\ q.job = job /\ q.status = req[r].status
        /\ q.user = req[r].user /\ q.tries = req[r].tries + 1 /\ q.done = req[r].done
        /\ q.auditLost = req[r].auditLost
    BY <1>1, <2>2, <2>3 DEF RequestRecord
  <2> HIDE DEF q
  <2>5. RequestSound(q)
    BY <1>1, <2>1, <2>3, <2>4 DEF RequestSound
  <2> QED BY <1>1, <2>1, <2>4, <2>5, RequestStep
<1>4. CASE StopWorker(r)
  <2> DEFINE q == [req[r] EXCEPT !.pc = "idle", !.job = "queued"]
  <2>1. /\ q \in RequestRecord /\ q.pc = "idle" /\ q.job = "queued"
        /\ q.status = req[r].status /\ q.user = req[r].user /\ q.tries = req[r].tries
        /\ q.done = req[r].done /\ q.auditLost = req[r].auditLost
    BY <1>1 DEF RequestRecord
  <2>2. req' = [req EXCEPT ![r] = q] /\ req[r].job = "active"
    BY <1>4 DEF StopWorker, Step
  <2> HIDE DEF q
  <2>3. RequestSound(q)
    BY <1>1, <2>1, <2>2 DEF RequestSound
  <2> QED BY <1>1, <2>1, <2>2, <2>3, RequestStep
<1> QED BY <1>2, <1>3, <1>4
\* The transaction of an erasure.
LEMMA ErasureStep == ASSUME IInv, NEW r \in Request, ProcessDataErasure(r) PROVE IInv'
<1>0. PICK u \in User : u = req[r].user
  BY DEF IInv, TypeOK, RequestRecord
<1>1. /\ req[r] \in RequestRecord /\ RequestSound(req[r]) /\ req[r].pc = "run"
      /\ UNCHANGED <<faults, call, exchanged, loggedOut, returned>>
  BY DEF ProcessDataErasure, Unchanged, IInv, TypeOK
<1> DEFINE taken == \E w \in User \ {u} : user[w].contact = "erased" /\ ErasedPhone[w] = ErasedPhone[u]
<1>2. CASE taken
  <2> DEFINE q == [req[r] EXCEPT !.pc = "fail"]
  <2>1. /\ q \in RequestRecord /\ q.pc = "fail" /\ q.job = req[r].job
        /\ q.status = req[r].status /\ q.user = req[r].user /\ q.tries = req[r].tries
        /\ q.done = req[r].done
    BY <1>1 DEF RequestRecord
  <2>2. req' = [req EXCEPT ![r] = q] /\ UNCHANGED <<user, session, erased>>
    BY <1>0, <1>2 DEF ProcessDataErasure, Step
  <2> HIDE DEF q
  <2>3. RequestSound(q) /\ q.status = "IN_PROGRESS" /\ q.job = "active"
    BY <1>1, <2>1 DEF RequestSound
  <2> HIDE DEF taken
  <2> QED BY <1>1, <2>1, <2>2, <2>3, RequestStep DEF IInv, TypeOK
<1>3. CASE ~taken
  <2> DEFINE q == [req[r] EXCEPT !.status = "COMPLETED", !.pc = "audit", !.done = TRUE]
  <2> DEFINE row == ErasedRow(user[u])
  <2>1. /\ user' = [user EXCEPT ![u] = row] /\ req' = [req EXCEPT ![r] = q]
        /\ session' = [s \in Session |->
              IF session[s].state = "live" /\ session[s].user = u
              THEN [session[s] EXCEPT !.state = "deleted"] ELSE session[s]]
        /\ erased' = erased \cup {u}
    BY <1>0, <1>3 DEF ProcessDataErasure, Step, IInv, TypeOK
  <2>2. /\ q \in RequestRecord /\ q.pc = "audit" /\ q.job = req[r].job
        /\ q.status = "COMPLETED" /\ q.user = req[r].user /\ q.tries = req[r].tries
        /\ q.done
    BY <1>1 DEF RequestRecord
  <2>3. user[u] \in UserRecord
    BY DEF IInv, TypeOK
  <2>4. /\ row \in UserRecord /\ row.exists = user[u].exists /\ row.pref = user[u].pref
        /\ row.roles = user[u].roles /\ row.deleted /\ row.contact = "erased"
    BY <2>3 DEF ErasedRow, UserRecord, Contacts
  <2> HIDE DEF taken, q, row
  <2>5. ASSUME NEW s \in Session
        PROVE  /\ session'[s] \in SessionRecord
               /\ session'[s].user = session[s].user /\ session'[s].token = session[s].token
               /\ session'[s].last = session[s].last
               /\ session'[s].revoked = session[s].revoked
               /\ session'[s].after = session[s].after
               /\ session'[s].state = "unused" <=> session[s].state = "unused"
               /\ session'[s].state = "live" =>
                     session[s].state = "live" /\ session[s].user # u
    <3>1. session[s] \in SessionRecord
      BY DEF IInv, TypeOK
    <3>2. CASE session[s].state = "live" /\ session[s].user = u
      <4>1. session'[s] = [session[s] EXCEPT !.state = "deleted"]
        BY <2>1, <3>2
      <4> QED BY <3>1, <3>2, <4>1 DEF SessionRecord
    <3>3. CASE ~(session[s].state = "live" /\ session[s].user = u)
      <4>1. session'[s] = session[s]
        BY <2>1, <3>3
      <4> QED BY <3>1, <3>3, <4>1
    <3> QED BY <3>2, <3>3
  <2>6. /\ \A w \in User : /\ user'[w].exists = user[w].exists
                           /\ user'[w].roles = user[w].roles /\ user'[w].pref = user[w].pref
        /\ \A w \in User \ {u} : user'[w] = user[w]
        /\ user'[u] = row
    BY <2>1, <2>4 DEF IInv, TypeOK
  <2>7. TypeOK'
    <3>1. session' \in [Session -> SessionRecord]
      BY <2>1, <2>5
    <3> QED BY <1>1, <2>1, <2>2, <2>4, <3>1 DEF IInv, TypeOK
  <2>8. ASSUME NEW d \in Call PROVE CallSound(call[d])'
    <3>1. call[d].u \in User /\ call[d].s \in Session /\ CallSound(call[d])
      BY DEF IInv, TypeOK, CallRecord
    <3> QED BY <1>1, <2>5, <2>6, <3>1 DEF CallSound
  <2>9. ASSUME NEW s \in Session PROVE SessionSound(s)'
    <3>1. SessionSound(s)
      BY DEF IInv
    <3>2. /\ session'[s].token = session'[s].last
          /\ session'[s].state = "unused" => session'[s].token = 0
          /\ s \in loggedOut' => session'[s].state # "unused" /\ session'[s].revoked
      BY <1>1, <2>5, <3>1 DEF SessionSound
    <3>3. \A v \in 0..MaxVersion : <<s, v>> \in exchanged' =>
             session'[s].state # "unused" /\ v < session'[s].token
      BY <1>1, <2>5, <3>1 DEF SessionSound
    <3>4. session'[s].state = "live" /\ session'[s].user \in erased' => session'[s].after
      BY <2>1, <2>5, <3>1 DEF SessionSound
    <3> QED BY <3>2, <3>3, <3>4 DEF SessionSound
  <2>10. ASSUME NEW w \in User PROVE UserSound(w)'
    <3>1. CASE w = u
      <4>1. user[u].exists
        BY <1>0, <1>1 DEF RequestSound
      <4> QED BY <2>4, <2>6, <3>1, <4>1 DEF UserSound
    <3>2. CASE w # u
      BY <1>1, <2>1, <2>6, <3>2 DEF IInv, UserSound
    <3> QED BY <3>1, <3>2
  <2>11. ASSUME NEW p \in Request PROVE RequestSound(req[p])'
    <3>1. CASE p = r
      <4>1. req'[p] = q
        BY <2>1, <3>1 DEF IInv, TypeOK
      <4>2. user'[q.user].exists
        BY <1>0, <1>1, <2>2, <2>6 DEF RequestSound
      <4> QED BY <1>1, <2>2, <4>1, <4>2 DEF RequestSound
    <3>2. CASE p # r
      <4>1. req'[p] = req[p] /\ RequestSound(req[p]) /\ req[p].user \in User
        BY <2>1, <3>2 DEF IInv, TypeOK, RequestRecord
      <4> QED BY <2>6, <4>1 DEF RequestSound
    <3> QED BY <3>1, <3>2
  <2>12. PreferencesFollow'
    BY <1>1, <2>6 DEF IInv, PreferencesFollow, At
  <2>13. RequestsMove'
    BY <1>1, <2>1, <2>2 DEF IInv, TypeOK, RequestsMove
  <2> QED BY <2>7, <2>8, <2>9, <2>10, <2>11, <2>12, <2>13 DEF IInv
<1> QED BY <1>2, <1>3

-----------------------------------------------------------------------------
LEMMA NextIInv == IInv /\ [Next]_vars => IInv'
<1> SUFFICES ASSUME IInv, [Next]_vars PROVE IInv'
  OBVIOUS
<1>1. ASSUME NEW c \in Call, SessionStep(c) PROVE IInv'
  BY <1>1, LoginStep, RefreshStep, ResolveStep, TokensStep, RotateStep, LogoutStep, RevokeStep
     DEF SessionStep
<1>2. ASSUME NEW c \in Call, UserStep(c) PROVE IInv'
  BY <1>2, CreateUserStep, UpdateStep, WriteUpdateStep, DeleteStep, WriteDeleteStep, ImportStep,
     WriteImportStep, CreateImportedStep, PreferenceStep, AssignStep, WriteRolesStep DEF UserStep
<1>3. ASSUME NEW c \in Call, LoseCall(c) PROVE IInv'
  BY <1>3, LoseStep
<1>4. ASSUME NEW s \in Session, ExpireSession(s) PROVE IInv'
  BY <1>4, ExpireStep
<1>5. ASSUME NEW r \in Request, CreateRequest(r) \/ Enqueue(r) PROVE IInv'
  BY <1>5, CreateRequestStep, EnqueueStep
<1>6. ASSUME NEW r \in Request, WorkerStep(r) PROVE IInv'
  BY <1>6, ProcessStep, JobStep, ErasureStep DEF WorkerStep
<1>7. ASSUME NEW r \in Request, FailStatement(r) \/ StopWorker(r) PROVE IInv'
  BY <1>7, FailStep
<1>8. CASE UNCHANGED vars
  <2>1. /\ TypeOK' /\ PreferencesFollow' /\ RequestsMove'
    BY <1>8 DEF vars, IInv, TypeOK, PreferencesFollow, At, RequestsMove
  <2>2. \A c \in Call : CallSound(call[c])'
    BY <1>8 DEF vars, IInv, CallSound
  <2>3. /\ \A s \in Session : SessionSound(s)'
        /\ \A u \in User : UserSound(u)'
    BY <1>8 DEF vars, IInv, SessionSound, UserSound
  <2>4. \A r \in Request : RequestSound(req[r])'
    BY <1>8 DEF vars, IInv, RequestSound
  <2> QED BY <2>1, <2>2, <2>3, <2>4 DEF IInv
<1> QED BY <1>1, <1>2, <1>3, <1>4, <1>5, <1>6, <1>7, <1>8 DEF Next

LEMMA InvariantHolds == Spec => []IInv
BY InitIInv, NextIInv, PTL DEF Spec

\* Every row of every table has its columns, and every history names rows.
THEOREM TypeCorrect == Spec => []TypeOK
<1>1. IInv => TypeOK
  BY DEF IInv
<1> QED BY <1>1, InvariantHolds, PTL

\* A refresh token buys new tokens once, a session stays closed after a logout,
\* and an access token carries roles the user had while the call ran, whatever
\* handlers overlap.
THEOREM SessionsStayEnded == Spec => []SessionsEnd
<1>1. IInv => SessionsEnd
  <2> SUFFICES ASSUME IInv PROVE SessionsEnd
    OBVIOUS
  <2>1. TypeOK
    BY DEF IInv
  <2>2. \A c \in Call : call[c].kind = "refresh" => ~call[c].again
    BY DEF IInv, CallSound
  <2>3. \A s \in loggedOut : session[s].state = "live" => session[s].revoked
    BY <2>1 DEF IInv, TypeOK, SessionSound
  <2>4. \A c \in Call : call[c].pc = "issue" => call[c].roles \in call[c].since
    BY DEF IInv, CallSound
  <2> QED BY <2>1, <2>2, <2>3, <2>4 DEF SessionsEnd
<1> QED BY <1>1, InvariantHolds, PTL

\* Erased data comes back only through a call that had read the user before or
\* was given it anew, and the erased user is out.
THEOREM ErasuresHold == Spec => []ErasureHolds
<1>1. IInv => ErasureHolds
  <2> SUFFICES ASSUME IInv PROVE ErasureHolds
    OBVIOUS
  <2>1. \A u \in erased \ returned : user[u].deleted /\ user[u].contact \notin Contact
    BY DEF IInv, TypeOK, UserSound
  <2>2. \A s \in Session : session[s].state = "live" /\ session[s].user \in erased
                             => session[s].after
    BY DEF IInv, SessionSound
  <2>3. \A c \in Call : /\ call[c].kind \in {"login", "refresh"}
                        /\ call[c].u \in erased /\ ~call[c].early
                        => call[c].u \in returned
    BY DEF IInv, CallSound
  <2> QED BY <2>1, <2>2, <2>3 DEF ErasureHolds
<1> QED BY <1>1, InvariantHolds, PTL

\* A request tells what became of its work, and nothing is left half done
\* without a statement that failed or a process that stopped.
THEOREM HalvesAreFaults == Spec => []HalfDoneOnlyByFault
<1>1. IInv => HalfDoneOnlyByFault
  BY DEF IInv, RequestSound, PreferencesFollow, RequestsMove, HalfDoneOnlyByFault
<1> QED BY <1>1, InvariantHolds, PTL

-----------------------------------------------------------------------------
(* The web client's side of a session (WebSession).                          *)

\* As long as no answer has come late, the tokens are of the last login while the
\* user is signed in, and so is every refresh that is under way.
InTime ==
    "late" \notin hurt =>
        /\ login.out => stored = NoTokens
        /\ stored # NoTokens => stored.login = login.last
        /\ \A t \in Refreshing : ~login.out /\ refresh[t].sent.login = login.last

\* A refresh has begun with tokens, and ends with another pair of their session.
Exchange ==
    \A t \in Refreshing :
        /\ refresh[t].sent # NoTokens
        /\ refresh[t].pc = "rotated" =>
              refresh[t].result # NoTokens /\ refresh[t].result.login = refresh[t].sent.login

\* The enrichment belongs to a login.
Enrichment == \A r \in Requests : request[r].kind = "me" => request[r].from # 0

\* As long as nothing has come between, the user keeps the tokens, one tab at a
\* time refreshes them, and the session accepts the stored pair or the one that
\* is about to replace it.
Intact ==
    hurt = {} =>
        /\ ~login.out => stored # NoTokens
        /\ \A t, o \in Refreshing : t = o
        /\ \A t \in Refreshing : refresh[t].sent = stored
        /\ stored # NoTokens =>
              \/ /\ current[stored.login] = stored.number
                 /\ \A t \in Refreshing : refresh[t].pc # "rotated"
              \/ \E t \in Refreshing :
                    /\ refresh[t].pc = "rotated"
                    /\ current[stored.login] = refresh[t].result.number

WInv == WebTypeOK /\ Exchange /\ Enrichment /\ InTime /\ Intact

LEMMA TokenFacts ==
  /\ NoTokens \notin Tokens
  /\ \A l \in Logins, n \in Nat \ {0} :
        /\ Signed(l, n) \in Tokens /\ Signed(l, n).login = l /\ Signed(l, n).number = n
        /\ Signed(l, n) # NoTokens
  /\ \A k \in Tokens : k.login \in Logins /\ k.number \in Nat \ {0}
  BY TabsAssumption DEF NoTokens, Tokens, Signed, Logins

RequestShape ==
    [pc: {"none", "sent", "waiting"}, tab: Tabs, kind: {"data", "me", "logout"},
     sent: Tokens \cup {NoTokens}, retried: BOOLEAN, from: Logins \cup {0}]
RefreshShape ==
    [pc: {"none", "sent", "found", "rotated"}, sent: Tokens \cup {NoTokens},
     result: Tokens \cup {NoTokens}]

LEMMA ShapeFacts ==
  /\ Unsent \in RequestShape /\ Unsent.kind = "data" /\ Unsent.pc = "none"
  /\ NoRefresh \in RefreshShape /\ NoRefresh.pc = "none"
  /\ \A ts : Late(ts) \subseteq {"late"}
<1>1. (CHOOSE t \in Tabs : TRUE) \in Tabs
  BY TabsAssumption, Zenon
<1>2. Unsent \in RequestShape /\ Unsent.kind = "data" /\ Unsent.pc = "none"
  BY <1>1 DEF Unsent, RequestShape
<1>3. NoRefresh \in RefreshShape /\ NoRefresh.pc = "none"
  BY DEF NoRefresh, RefreshShape
<1> QED BY <1>2, <1>3 DEF Late

LEMMA WebTyped ==
  WebTypeOK <=>
    /\ current \in [Logins -> Nat] /\ issued \in [Logins -> Nat]
    /\ fresh \subseteq Tokens
    /\ stored \in Tokens \cup {NoTokens}
    /\ request \in [Requests -> RequestShape]
    /\ refresh \in [Tabs -> RefreshShape]
    /\ login \in [last: Logins \cup {0}, out: BOOLEAN]
    /\ hurt \subseteq {"late", "lost", "overlap", "expired"}
  BY DEF WebTypeOK, RequestShape, RefreshShape

LEMMA WebInitInv == WebInit => WInv
<1> SUFFICES ASSUME WebInit PROVE WInv
  OBVIOUS
<1>1. WebTypeOK
  BY ShapeFacts, WebTyped DEF WebInit
<1>2. Refreshing = {}
  BY ShapeFacts DEF WebInit, Refreshing
<1>3. Exchange /\ InTime /\ Intact
  BY <1>2 DEF WebInit, Exchange, InTime, Intact
<1>4. Enrichment
  BY ShapeFacts DEF WebInit, Enrichment
<1> QED BY <1>1, <1>3, <1>4 DEF WInv

-----------------------------------------------------------------------------
\* Steps that concern neither the stored tokens nor a refresh.
LEMMA WebFrame ==
  ASSUME WInv, UNCHANGED <<current, stored, refresh, login>>, hurt \subseteq hurt'
  PROVE  Exchange' /\ InTime' /\ Intact'
<1>1. Refreshing' = Refreshing
  BY DEF Refreshing
<1>2. Exchange'
  BY <1>1 DEF WInv, Exchange
<1>3. InTime'
  BY <1>1 DEF WInv, InTime
<1>4. Intact'
  BY <1>1 DEF WInv, Intact
<1> QED BY <1>2, <1>3, <1>4

\* The tab is left by its requests and its refresh, and the tokens are removed or
\* were not there.
LEMMA LeftAlone ==
  ASSUME WInv, NEW t \in Tabs, refresh' = [refresh EXCEPT ![t] = NoRefresh],
         UNCHANGED <<current, login>>, hurt \subseteq hurt',
         \/ stored' = stored /\ (t \in Refreshing => hurt' # {})
         \/ /\ stored' = NoTokens
            /\ "late" \in hurt' \/ Refreshing \subseteq {t}
            /\ hurt' # {}
  PROVE  Exchange' /\ InTime' /\ Intact'
<1>1. /\ Refreshing' = Refreshing \ {t}
      /\ \A o \in Refreshing' : refresh'[o] = refresh[o]
  BY ShapeFacts, WebTyped DEF Refreshing, WInv
<1>2. Exchange'
  BY <1>1 DEF WInv, Exchange
<1>3. InTime'
  BY <1>1 DEF WInv, InTime
<1>4. Intact'
  <2>1. SUFFICES ASSUME hurt' = {} PROVE stored' = stored /\ Refreshing' = Refreshing /\ hurt = {}
                                         /\ \A o \in Refreshing : refresh'[o] = refresh[o]
    BY DEF WInv, Intact
  <2> QED BY <1>1, <2>1
<1> QED BY <1>2, <1>3, <1>4

LEMMA SignInInv ==
  ASSUME WInv, NEW t \in Tabs, NEW r \in Requests, SignIn(t, r)
  PROVE  WInv'
<1> DEFINE l == login.last + 1
<1>0. l \in Logins /\ l # 0
  BY DEF SignIn, Logins
<1>1. Signed(l, 1) \in Tokens /\ Signed(l, 1).login = l /\ Signed(l, 1).number = 1
      /\ Signed(l, 1) # NoTokens
  BY <1>0, TokenFacts
<1>2. /\ current' = [current EXCEPT ![l] = 1] /\ issued' = [issued EXCEPT ![l] = 1]
      /\ fresh' = fresh \cup {Signed(l, 1)}
      /\ stored' = Signed(l, 1)
      /\ login' = [last |-> l, out |-> FALSE]
      /\ request' = [request EXCEPT ![r] = [Unsent EXCEPT
                        !.pc = "sent", !.tab = t, !.kind = "me", !.sent = Signed(l, 1), !.from = l]]
      /\ hurt' = hurt \cup Late(Tabs) /\ refresh' = refresh
  BY DEF SignIn
<1> HIDE DEF l
<1>3. [Unsent EXCEPT !.pc = "sent", !.tab = t, !.kind = "me", !.sent = Signed(l, 1), !.from = l]
         \in RequestShape
  BY <1>0, <1>1, ShapeFacts DEF RequestShape
<1>4. WebTypeOK'
  <2>1. request' \in [Requests -> RequestShape]
    BY <1>2, <1>3, WebTyped DEF WInv
  <2>2. current' \in [Logins -> Nat] /\ issued' \in [Logins -> Nat] /\ fresh' \subseteq Tokens
    BY <1>0, <1>1, <1>2, WebTyped DEF WInv
  <2>3. hurt' \subseteq {"late", "lost", "overlap", "expired"}
    BY <1>2, ShapeFacts, WebTyped DEF WInv
  <2>4. login' \in [last: Logins \cup {0}, out: BOOLEAN]
    BY <1>0, <1>2
  <2> QED BY <1>1, <1>2, <2>1, <2>2, <2>3, <2>4, WebTyped DEF WInv, WebTypeOK, RequestShape
<1>5. Enrichment'
  <2>1. ASSUME NEW q \in Requests, request'[q].kind = "me" PROVE request'[q].from # 0
    <3>1. CASE q = r
      BY <1>0, <1>2, <3>1, ShapeFacts, WebTyped DEF WInv, RequestShape
    <3>2. CASE q # r
      BY <1>2, <2>1, <3>2, WebTyped DEF WInv, Enrichment
    <3> QED BY <3>1, <3>2
  <2> QED BY <2>1 DEF Enrichment
<1>6. Refreshing' = Refreshing /\ Refreshing \subseteq Tabs
  BY <1>2 DEF Refreshing
<1>7. "late" \notin hurt' => Refreshing = {}
  BY <1>2, <1>6 DEF Late
<1>8. Exchange'
  BY <1>2, <1>6 DEF WInv, Exchange
<1>9. InTime'
  BY <1>1, <1>2, <1>6, <1>7 DEF InTime
<1>10. Intact'
  <2>1. current'[l] = 1
    BY <1>0, <1>2, WebTyped DEF WInv
  <2> QED BY <1>1, <1>2, <1>6, <1>7, <2>1 DEF Intact
<1> QED BY <1>4, <1>5, <1>8, <1>9, <1>10 DEF WInv

LEMMA SendInv ==
  ASSUME WInv, NEW t \in Tabs, NEW r \in Requests, NEW kind \in {"data", "logout"},
         Send(t, r, kind)
  PROVE  WInv'
<1>1. [Unsent EXCEPT !.pc = "sent", !.tab = t, !.kind = kind, !.sent = stored] \in RequestShape
  BY ShapeFacts, WebTyped DEF WInv, RequestShape
<1>2. request' = [request EXCEPT ![r] = [Unsent EXCEPT
                      !.pc = "sent", !.tab = t, !.kind = kind, !.sent = stored]]
      /\ UNCHANGED <<current, issued, fresh, stored, refresh, login, hurt>>
  BY DEF Send
<1>3. WebTypeOK'
  <2>1. request' \in [Requests -> RequestShape]
    BY <1>1, <1>2, WebTyped DEF WInv
  <2> QED BY <1>2, <2>1 DEF WInv, WebTypeOK, RequestShape
<1>4. Enrichment'
  <2>1. request'[r].kind # "me" /\ \A q \in Requests \ {r} : request'[q] = request[q]
    BY <1>2, ShapeFacts, WebTyped DEF WInv, RequestShape
  <2> QED BY <2>1 DEF WInv, Enrichment
<1> QED BY <1>2, <1>3, <1>4, WebFrame DEF WInv

LEMMA EndedInv ==
  ASSUME WInv, NEW r \in Requests, NEW ok, Ended(r, ok),
         UNCHANGED <<current, issued, fresh>>
  PROVE  WInv'
<1>0. request' = [request EXCEPT ![r] = Unsent] /\ refresh' = refresh
  BY DEF Ended
<1>1. request' \in [Requests -> RequestShape] /\ Enrichment'
  <2>1. request' \in [Requests -> RequestShape]
    BY <1>0, ShapeFacts, WebTyped DEF WInv
  <2>2. request'[r].kind # "me" /\ \A q \in Requests \ {r} : request'[q] = request[q]
    BY <1>0, ShapeFacts, WebTyped DEF WInv
  <2> QED BY <2>1, <2>2 DEF WInv, Enrichment
<1>2. Refreshing' = Refreshing /\ Refreshing \subseteq Tabs
  BY <1>0 DEF Refreshing
<1>3. CASE /\ request[r].kind = "me"
           /\ stored' = Signed(request[r].from, 1)
           /\ hurt' = IF stored = stored' THEN hurt ELSE hurt \cup {"late"}
           /\ UNCHANGED login
  <2>1. request[r].from \in Logins
    BY <1>3, WebTyped DEF WInv, Enrichment, RequestShape
  <2>2. stored' \in Tokens
    BY <1>3, <2>1, TokenFacts
  <2>3. WebTypeOK'
    BY <1>0, <1>1, <1>3, <2>2 DEF WInv, WebTypeOK, RequestShape
  <2>4. CASE stored' = stored
    BY <1>0, <1>1, <1>3, <2>3, <2>4, WebFrame DEF WInv
  <2>5. CASE stored' # stored
    <3>1. "late" \in hurt'
      BY <1>3, <2>5
    <3>2. InTime' /\ Intact'
      BY <3>1 DEF InTime, Intact
    <3>3. Exchange'
      BY <1>0, <1>2 DEF WInv, Exchange
    <3> QED BY <1>1, <2>3, <3>2, <3>3 DEF WInv
  <2> QED BY <2>4, <2>5
<1>4. CASE /\ stored' = NoTokens
           /\ login' = [login EXCEPT !.out = TRUE]
           /\ hurt' = hurt \cup Late(Tabs)
  <2>1. WebTypeOK'
    <3>1. hurt' \subseteq {"late", "lost", "overlap", "expired"}
      BY <1>4, ShapeFacts, WebTyped DEF WInv
    <3>2. login' \in [last: Logins \cup {0}, out: BOOLEAN]
      BY <1>4, WebTyped DEF WInv
    <3> QED BY <1>0, <1>1, <1>4, <3>1, <3>2, WebTyped DEF WInv, WebTypeOK, RequestShape
  <2>2. "late" \notin hurt' => Refreshing = {}
    BY <1>2, <1>4 DEF Late
  <2>3. login'.out = TRUE
    BY <1>4, WebTyped DEF WInv
  <2>4. InTime' /\ Intact'
    BY <1>2, <1>4, <2>2, <2>3 DEF InTime, Intact
  <2>5. Exchange'
    BY <1>0, <1>2 DEF WInv, Exchange
  <2> QED BY <1>1, <2>1, <2>4, <2>5 DEF WInv
<1>5. CASE UNCHANGED <<stored, login, hurt>>
  <2>1. WebTypeOK'
    BY <1>0, <1>1, <1>5 DEF WInv, WebTypeOK, RequestShape
  <2> QED BY <1>0, <1>1, <1>5, <2>1, WebFrame DEF WInv
<1> QED BY <1>3, <1>4, <1>5 DEF Ended

LEMMA DenyInv ==
  ASSUME WInv, NEW r \in Requests, Deny(r)
  PROVE  WInv'
<1> DEFINE t == request[r].tab
<1>0. t \in Tabs /\ UNCHANGED <<current, issued, fresh, login>>
  BY WebTyped DEF WInv, RequestShape, Deny
<1>1. ASSUME request' = [request EXCEPT ![r].pc = "waiting"]
      PROVE  request' \in [Requests -> RequestShape] /\ Enrichment'
  <2>1. [request[r] EXCEPT !.pc = "waiting"] \in RequestShape
    BY WebTyped DEF WInv, RequestShape
  <2>2. request' \in [Requests -> RequestShape]
    BY <1>1, <2>1, WebTyped DEF WInv
  <2>3. \A q \in Requests : request'[q].kind = request[q].kind /\ request'[q].from = request[q].from
    BY <1>1, WebTyped DEF WInv, RequestShape
  <2> QED BY <2>2, <2>3 DEF WInv, Enrichment
<1>2. CASE request' = [request EXCEPT ![r].pc = "waiting"] /\ UNCHANGED <<stored, refresh, hurt>>
  <2>1. WebTypeOK'
    BY <1>0, <1>1, <1>2 DEF WInv, WebTypeOK, RequestShape
  <2> QED BY <1>0, <1>1, <1>2, <2>1, WebFrame DEF WInv
<1>3. CASE /\ ~Join(t) /\ stored # NoTokens
           /\ request' = [request EXCEPT ![r].pc = "waiting"]
           /\ refresh' = [refresh EXCEPT ![t] = [NoRefresh EXCEPT !.pc = "sent", !.sent = stored]]
           /\ hurt' = IF Refreshing \ {t} = {} THEN hurt ELSE hurt \cup {"overlap"}
           /\ UNCHANGED stored
  <2>1. [NoRefresh EXCEPT !.pc = "sent", !.sent = stored] \in RefreshShape
    BY ShapeFacts, WebTyped DEF WInv, RefreshShape
  <2>2. /\ refresh' \in [Tabs -> RefreshShape]
        /\ refresh'[t].pc = "sent" /\ refresh'[t].sent = stored
        /\ \A o \in Tabs \ {t} : refresh'[o] = refresh[o]
    BY <1>0, <1>3, <2>1, ShapeFacts, WebTyped DEF WInv, RefreshShape
  <2>3. WebTypeOK'
    <3>1. hurt' \subseteq {"late", "lost", "overlap", "expired"}
      BY <1>3, WebTyped DEF WInv
    <3> QED BY <1>0, <1>1, <1>3, <2>2, <3>1 DEF WInv, WebTypeOK, RequestShape, RefreshShape
  <2>4. t \notin Refreshing /\ Refreshing' = Refreshing \cup {t} /\ Refreshing \subseteq Tabs
    BY <1>0, <1>3, <2>2 DEF Join, Refreshing
  <2>5. Exchange'
    BY <1>3, <2>2, <2>4 DEF WInv, Exchange
  <2>6. InTime'
    BY <1>0, <1>3, <2>2, <2>4 DEF WInv, InTime
  <2>7. Intact'
    <3>1. SUFFICES ASSUME hurt' = {} PROVE Intact'
      BY DEF Intact
    <3>2. hurt = {} /\ Refreshing = {}
      BY <1>3, <2>4, <3>1
    <3> QED BY <1>0, <1>3, <2>2, <2>4, <3>2 DEF WInv, Intact
  <2> QED BY <1>1, <1>3, <2>3, <2>5, <2>6, <2>7 DEF WInv
<1>4. CASE ~Join(t) /\ stored = NoTokens /\ SignOut(t) /\ UNCHANGED hurt
  <2>1. request' \in [Requests -> RequestShape] /\ Enrichment'
    BY <1>4, ShapeFacts, WebTyped DEF WInv, SignOut, Enrichment
  <2>2. refresh' \in [Tabs -> RefreshShape]
    BY <1>4, ShapeFacts, WebTyped DEF WInv, SignOut
  <2>3. WebTypeOK'
    BY <1>0, <1>4, <2>1, <2>2 DEF WInv, WebTypeOK, RequestShape, RefreshShape, SignOut
  <2>4. t \notin Refreshing
    BY <1>4 DEF Join, Refreshing
  <2> QED BY <1>0, <1>4, <2>1, <2>3, <2>4, LeftAlone DEF WInv, SignOut
<1> QED BY <1>2, <1>3, <1>4 DEF Deny

\* The server looks a refresh token up, or gives its session another one.
LEMMA LookUpInv ==
  ASSUME WInv, NEW t \in Tabs, LookUp(t)
  PROVE  WInv'
<1>0. /\ refresh' = [refresh EXCEPT ![t].pc = "found"] /\ refresh[t].pc = "sent"
      /\ UNCHANGED <<current, issued, fresh, stored, request, login, hurt>>
  BY DEF LookUp
<1>1. /\ refresh' \in [Tabs -> RefreshShape]
      /\ refresh'[t].pc = "found" /\ refresh'[t].sent = refresh[t].sent
      /\ \A o \in Tabs \ {t} : refresh'[o] = refresh[o]
  BY <1>0, WebTyped DEF WInv, RefreshShape
<1>2. WebTypeOK'
  BY <1>0, <1>1 DEF WInv, WebTypeOK, RefreshShape
<1>3. Refreshing' = Refreshing /\ t \in Refreshing /\ Refreshing \subseteq Tabs
  BY <1>0, <1>1 DEF Refreshing
<1>4. \A o \in Refreshing : /\ refresh'[o].sent = refresh[o].sent
                            /\ refresh'[o].pc = "rotated" <=> refresh[o].pc = "rotated"
                            /\ refresh[o].pc = "rotated" => refresh'[o] = refresh[o]
  BY <1>0, <1>1, <1>3
<1>5. Exchange' /\ InTime' /\ Enrichment'
  BY <1>0, <1>3, <1>4 DEF WInv, Exchange, InTime, Enrichment
<1>6. Intact'
  BY <1>0, <1>3, <1>4 DEF WInv, Intact
<1> QED BY <1>2, <1>5, <1>6 DEF WInv

LEMMA RotateInv ==
  ASSUME WInv, NEW t \in Tabs, Rotate(t)
  PROVE  WInv'
<1>0. PICK l, n :
        /\ l = refresh[t].sent.login /\ n = issued[l] + 1
        /\ refresh[t].pc = "found"
        /\ current' = [current EXCEPT ![l] = n] /\ issued' = [issued EXCEPT ![l] = n]
        /\ fresh' = fresh \cup {Signed(l, n)}
        /\ refresh' = [refresh EXCEPT ![t].pc = "rotated", ![t].result = Signed(l, n)]
        /\ UNCHANGED <<stored, request, login, hurt>>
  BY DEF Rotate
<1>1. t \in Refreshing
  BY <1>0 DEF Refreshing
<1>2. l \in Logins /\ n \in Nat \ {0}
  <2>1. refresh[t].sent \in Tokens
    BY <1>1, WebTyped DEF WInv, Exchange, RefreshShape
  <2>2. l \in Logins
    BY <1>0, <2>1, TokenFacts
  <2>3. issued[l] \in Nat
    BY <2>2, WebTyped DEF WInv
  <2> QED BY <1>0, <2>2, <2>3
<1>3. Signed(l, n) \in Tokens /\ Signed(l, n).login = l /\ Signed(l, n).number = n
      /\ Signed(l, n) # NoTokens
  BY <1>2, TokenFacts
<1>4. /\ refresh' \in [Tabs -> RefreshShape]
      /\ refresh'[t].pc = "rotated" /\ refresh'[t].sent = refresh[t].sent
      /\ refresh'[t].result = Signed(l, n)
      /\ \A o \in Tabs \ {t} : refresh'[o] = refresh[o]
  <2>1. refresh \in [Tabs -> RefreshShape]
    BY WebTyped DEF WInv
  <2>2. PICK s : s = Signed(l, n)
    OBVIOUS
  <2>3. PICK k : k = [refresh[t] EXCEPT !.pc = "rotated", !.result = s]
    OBVIOUS
  <2>4. refresh' = [refresh EXCEPT ![t] = k]
    BY <1>0, <2>1, <2>2, <2>3
  <2>5. /\ k \in RefreshShape /\ k.pc = "rotated" /\ k.sent = refresh[t].sent /\ k.result = s
    BY <1>3, <2>1, <2>2, <2>3 DEF RefreshShape
  <2> QED BY <2>1, <2>2, <2>4, <2>5
<1>5. /\ current' \in [Logins -> Nat] /\ issued' \in [Logins -> Nat] /\ fresh' \subseteq Tokens
      /\ current'[l] = n
  BY <1>0, <1>2, <1>3, WebTyped DEF WInv
<1>6. WebTypeOK'
  BY <1>0, <1>4, <1>5 DEF WInv, WebTypeOK, RefreshShape
<1>7. Refreshing' = Refreshing /\ Refreshing \subseteq Tabs
  BY <1>0, <1>4 DEF Refreshing
<1>8. Exchange'
  BY <1>0, <1>3, <1>4, <1>7 DEF WInv, Exchange
<1>9. InTime'
  BY <1>0, <1>4, <1>7 DEF WInv, InTime
<1>10. Intact'
  <2> SUFFICES ASSUME hurt = {}
               PROVE  /\ ~login.out => stored # NoTokens
                      /\ \A q, o \in Refreshing : q = o
                      /\ \A q \in Refreshing : refresh'[q].sent = stored
                      /\ stored # NoTokens => /\ refresh'[t].pc = "rotated"
                                              /\ current'[stored.login] = refresh'[t].result.number
    BY <1>0, <1>1, <1>7 DEF Intact
  <2>1. /\ ~login.out => stored # NoTokens
        /\ \A q, o \in Refreshing : q = o
        /\ refresh[t].sent = stored
    BY <1>1 DEF WInv, Intact
  <2>2. current'[stored.login] = refresh'[t].result.number
    BY <1>0, <1>3, <1>4, <1>5, <2>1
  <2> QED BY <1>1, <1>4, <2>1, <2>2
<1>11. Enrichment'
  BY <1>0 DEF WInv, Enrichment
<1> QED BY <1>6, <1>8, <1>9, <1>10, <1>11 DEF WInv

LEMMA RefreshedInv ==
  ASSUME WInv, NEW t \in Tabs, Refreshed(t)
  PROVE  WInv'
<1>0. /\ refresh[t].pc = "rotated" /\ stored' = refresh[t].result
      /\ refresh' = [refresh EXCEPT ![t] = NoRefresh]
      /\ request' = [q \in Requests |->
                       IF request[q].tab = t /\ request[q].pc = "waiting"
                       THEN [request[q] EXCEPT !.pc = "sent", !.sent = stored', !.retried = TRUE]
                       ELSE request[q]]
      /\ hurt' = IF Enriching # {} \/ stored # refresh[t].sent THEN hurt \cup {"late"} ELSE hurt
      /\ UNCHANGED <<current, issued, fresh, login>>
  BY DEF Refreshed
<1>1. t \in Refreshing
  BY <1>0 DEF Refreshing
<1>2. stored' \in Tokens /\ stored' # NoTokens /\ stored'.login = refresh[t].sent.login
  <2>1. refresh[t].result # NoTokens /\ refresh[t].result.login = refresh[t].sent.login
    BY <1>0, <1>1 DEF WInv, Exchange
  <2> QED BY <1>0, <2>1, WebTyped DEF WInv, RefreshShape
<1>3. refresh' \in [Tabs -> RefreshShape]
  BY <1>0, ShapeFacts, WebTyped DEF WInv
<1>4. request' \in [Requests -> RequestShape]
  <2>1. ASSUME NEW q \in Requests PROVE request'[q] \in RequestShape
    <3>1. request[q] \in RequestShape
      BY WebTyped DEF WInv
    <3>2. [request[q] EXCEPT !.pc = "sent", !.sent = stored', !.retried = TRUE] \in RequestShape
      BY <1>2, <3>1 DEF RequestShape
    <3> QED BY <1>0, <3>1, <3>2
  <2> QED BY <1>0, <2>1
<1>5. Enrichment'
  <2>1. ASSUME NEW q \in Requests
        PROVE  request'[q].kind = request[q].kind /\ request'[q].from = request[q].from
    <3>1. request[q] \in RequestShape
      BY WebTyped DEF WInv
    <3> QED BY <1>0, <3>1 DEF RequestShape
  <2> QED BY <2>1 DEF WInv, Enrichment
<1>6. WebTypeOK'
  <2>1. hurt' \subseteq {"late", "lost", "overlap", "expired"}
    BY <1>0, WebTyped DEF WInv
  <2> QED BY <1>0, <1>2, <1>3, <1>4, <2>1 DEF WInv, WebTypeOK, RequestShape, RefreshShape
<1>7. /\ Refreshing' = Refreshing \ {t} /\ Refreshing \subseteq Tabs
      /\ \A o \in Refreshing' : refresh'[o] = refresh[o]
  BY <1>0, ShapeFacts, WebTyped DEF Refreshing, WInv
<1>8. Exchange'
  BY <1>7 DEF WInv, Exchange
<1>9. InTime'
  BY <1>0, <1>1, <1>2, <1>7 DEF WInv, InTime
<1>10. Intact'
  <2>1. SUFFICES ASSUME hurt' = {} PROVE Intact'
    BY DEF Intact
  <2>2. hurt = {} /\ stored = refresh[t].sent
    BY <1>0, <2>1
  <2>3. Refreshing' = {}
    BY <1>1, <1>7, <2>2 DEF WInv, Intact
  <2>4. stored # NoTokens
    BY <1>1, <2>2 DEF WInv, Exchange
  <2>5. current[stored.login] = refresh[t].result.number
    BY <1>0, <1>1, <2>2, <2>4 DEF WInv, Intact
  <2> QED BY <1>0, <1>2, <2>2, <2>3, <2>5 DEF Intact
<1> QED BY <1>5, <1>6, <1>8, <1>9, <1>10 DEF WInv

\* An intact browser is never told that its refresh token is unknown.
LEMMA NotRefreshedInv ==
  ASSUME WInv, NEW t \in Tabs, NotRefreshed(t)
  PROVE  WInv'
<1>0. /\ refresh[t].pc # "none" /\ SignOut(t) /\ UNCHANGED <<current, issued, fresh, login>>
      /\ hurt' = hurt \cup Late(Others(t)) \cup
           (IF refresh[t].pc = "sent" /\ current[refresh[t].sent.login] # refresh[t].sent.number
            THEN {} ELSE {"lost"})
  BY DEF NotRefreshed
<1>1. request' \in [Requests -> RequestShape] /\ Enrichment'
  BY <1>0, ShapeFacts, WebTyped DEF WInv, SignOut, Enrichment
<1>2. refresh' \in [Tabs -> RefreshShape]
  BY <1>0, ShapeFacts, WebTyped DEF WInv, SignOut
<1>3. WebTypeOK'
  <2>1. hurt' \subseteq {"late", "lost", "overlap", "expired"}
    BY <1>0, ShapeFacts, WebTyped DEF WInv
  <2> QED BY <1>0, <1>1, <1>2, <2>1 DEF WInv, WebTypeOK, RequestShape, RefreshShape, SignOut
<1>4. t \in Refreshing /\ Refreshing \subseteq Tabs
  BY <1>0 DEF Refreshing
<1>5. "late" \in hurt' \/ Refreshing \subseteq {t}
  BY <1>0, <1>4 DEF Late, Others
<1>6. hurt' # {}
  <2>1. SUFFICES ASSUME hurt = {}, refresh[t].pc = "sent"
                 PROVE  current[refresh[t].sent.login] = refresh[t].sent.number
    BY <1>0
  <2> QED BY <1>4, <2>1 DEF WInv, Intact, Exchange
<1>7. hurt \subseteq hurt'
  BY <1>0
<1> QED BY <1>0, <1>1, <1>3, <1>5, <1>6, <1>7, LeftAlone DEF WInv, SignOut

LEMMA ReloadInv ==
  ASSUME WInv, NEW t \in Tabs, Reload(t)
  PROVE  WInv'
<1>0. /\ request' = [q \in Requests |-> IF request[q].tab = t THEN Unsent ELSE request[q]]
      /\ refresh' = [refresh EXCEPT ![t] = NoRefresh]
      /\ hurt' = IF refresh[t].pc = "none" THEN hurt ELSE hurt \cup {"lost"}
      /\ UNCHANGED <<current, issued, fresh, stored, login>>
  BY DEF Reload
<1>1. request' \in [Requests -> RequestShape] /\ Enrichment'
  BY <1>0, ShapeFacts, WebTyped DEF WInv, Enrichment
<1>2. refresh' \in [Tabs -> RefreshShape]
  BY <1>0, ShapeFacts, WebTyped DEF WInv
<1>3. WebTypeOK'
  BY <1>0, <1>1, <1>2 DEF WInv, WebTypeOK, RequestShape, RefreshShape
<1>4. t \in Refreshing => hurt' # {}
  BY <1>0 DEF Refreshing
<1> QED BY <1>0, <1>1, <1>3, <1>4, LeftAlone DEF WInv

LEMMA WebNextInv == WInv /\ [WebNext]_webVars => WInv'
<1> SUFFICES ASSUME WInv, [WebNext]_webVars PROVE WInv'
  OBVIOUS
<1>1. ASSUME NEW r \in Requests, Answer(r) PROVE WInv'
  <2>1. PICK ok : Ended(r, ok)
    BY <1>1 DEF Answer
  <2> QED BY <1>1, <2>1, EndedInv DEF Answer
<1>2. CASE ExpireAccess
  <2>1. UNCHANGED <<current, issued, stored, request, refresh, login, hurt>> /\ fresh' = {}
    BY <1>2 DEF ExpireAccess
  <2>2. WebTypeOK' /\ Enrichment'
    BY <2>1 DEF WInv, WebTypeOK, Enrichment
  <2> QED BY <2>1, <2>2, WebFrame DEF WInv
<1>3. ASSUME NEW l \in Logins, SessionEnds(l) PROVE WInv'
  <2>1. /\ current' = [current EXCEPT ![l] = 0] /\ hurt' = hurt \cup {"expired"}
        /\ UNCHANGED <<issued, fresh, stored, request, refresh, login>>
    BY <1>3 DEF SessionEnds
  <2>2. WebTypeOK'
    <3>1. current' \in [Logins -> Nat]
      BY <2>1, WebTyped DEF WInv
    <3>2. hurt' \subseteq {"late", "lost", "overlap", "expired"}
      BY <2>1, WebTyped DEF WInv
    <3> QED BY <2>1, <3>1, <3>2 DEF WInv, WebTypeOK
  <2>3. Refreshing' = Refreshing
    BY <2>1 DEF Refreshing
  <2>4. Exchange' /\ Enrichment' /\ InTime' /\ Intact'
    BY <2>1, <2>3 DEF WInv, Exchange, Enrichment, InTime, Intact
  <2> QED BY <2>2, <2>4 DEF WInv
<1>4. CASE UNCHANGED webVars
  <2>1. WebTypeOK' /\ Enrichment'
    BY <1>4 DEF webVars, WInv, WebTypeOK, Enrichment
  <2> QED BY <1>4, <2>1, WebFrame DEF webVars, WInv
<1> QED BY <1>1, <1>2, <1>3, <1>4, SignInInv, SendInv, DenyInv, LookUpInv, RotateInv,
          RefreshedInv, NotRefreshedInv, ReloadInv DEF WebNext

\* With any number of tabs, requests and logins: the browser is signed in as its
\* last login says, with tokens its session accepts, unless something has come
\* between (api.ts, auth.ts, storage.ts; AuthService.refresh).
THEOREM BrowserKeepsSession == WebSpec => []BrowserFollowsSession
<1>1. WInv => BrowserFollowsSession
  BY DEF WInv, InTime, Intact, BrowserFollowsSession
<1> QED BY <1>1, WebInitInv, WebNextInv, PTL DEF WebSpec
=============================================================================
