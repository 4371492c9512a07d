------------------------------ MODULE WebSession ------------------------------
(***************************************************************************)
(* The web client's side of a session: tabs of one browser that share the  *)
(* stored tokens, send requests, refresh the tokens when a request is      *)
(* refused, and sign in and out.                                           *)
(*                                                                         *)
(* A pair of tokens is named by its session (the login it comes from) and  *)
(* the number of the refresh token in it.  The server's part is that of    *)
(* Accounts: a refresh token is looked up in one statement, and the        *)
(* session moves on to another in a later one.  The code of a tab runs     *)
(* from one answer to the next in one step.                                *)
(***************************************************************************)
EXTENDS Naturals

CONSTANTS
    Tabs,
    Requests,     \* requests under way at once
    MaxLogins,    \* bound on logins
    MaxTokens     \* bound on the refresh tokens of a session

ASSUME TabsAssumption == Tabs # {} /\ MaxLogins \in Nat /\ MaxTokens \in Nat

Logins == 1..MaxLogins
Signed(l, n) == [login |-> l, number |-> n]
NoTokens == Signed(0, 0)
Tokens == [login: Logins, number: Nat \ {0}]

VARIABLES
    current,   \* number of the refresh token each session accepts; 0 without a session
    issued,    \* number of the last one issued
    fresh,     \* tokens whose access part has not expired
    stored,    \* the tokens in the browser's storage
    request,   \* requests of the tabs
    refresh,   \* refreshPromise of each tab
    login,     \* the last login, and whether the user has signed out since
    hurt       \* history: what has come between

webVars == <<current, issued, fresh, stored, request, refresh, login, hurt>>

Unsent == [pc |-> "none", tab |-> CHOOSE t \in Tabs : TRUE, kind |-> "data",
              sent |-> NoTokens, retried |-> FALSE, from |-> 0]
NoRefresh == [pc |-> "none", sent |-> NoTokens, result |-> NoTokens]

\* from: the login that a request for the user's data comes from.
WebTypeOK ==
    /\ current \in [Logins -> Nat] /\ issued \in [Logins -> Nat]
    /\ fresh \subseteq Tokens
    /\ stored \in Tokens \cup {NoTokens}
    /\ request \in [Requests ->
          [pc: {"none", "sent", "waiting"}, tab: Tabs, kind: {"data", "me", "logout"},
           sent: Tokens \cup {NoTokens}, retried: BOOLEAN, from: Logins \cup {0}]]
    /\ refresh \in [Tabs ->
          [pc: {"none", "sent", "found", "rotated"}, sent: Tokens \cup {NoTokens},
           result: Tokens \cup {NoTokens}]]
    /\ login \in [last: Logins \cup {0}, out: BOOLEAN]
    /\ hurt \subseteq {"late", "lost", "overlap", "expired"}

WebInit ==
    /\ current = [l \in Logins |-> 0] /\ issued = [l \in Logins |-> 0]
    /\ fresh = {}
    /\ stored = NoTokens
    /\ request = [r \in Requests |-> Unsent]
    /\ refresh = [t \in Tabs |-> NoRefresh]
    /\ login = [last |-> 0, out |-> TRUE]
    /\ hurt = {}

Refreshing == {t \in Tabs : refresh[t].pc # "none"}
Enriching == {request[r].tab : r \in {q \in Requests : request[q].pc # "none" /\ request[q].kind = "me"}}

\* What an answer that is still to come to one of these tabs will write over.
Late(ts) == IF (Refreshing \cup Enriching) \cap ts # {} THEN {"late"} ELSE {}

-----------------------------------------------------------------------------
\* Signing in and out

\* login: the tokens are stored, and a request for the user's own data sent.
SignIn(t, r) ==
    LET l == login.last + 1 IN
    /\ l \in Logins /\ request[r].pc = "none"
    /\ current' = [current EXCEPT ![l] = 1] /\ issued' = [issued EXCEPT ![l] = 1]
    /\ fresh' = fresh \cup {Signed(l, 1)}
    /\ stored' = Signed(l, 1)
    /\ login' = [last |-> l, out |-> FALSE]
    /\ request' = [request EXCEPT ![r] = [Unsent EXCEPT
                      !.pc = "sent", !.tab = t, !.kind = "me", !.sent = Signed(l, 1), !.from = l]]
    /\ hurt' = hurt \cup Late(Tabs)
    /\ UNCHANGED refresh

\* A request of a page, or the one that logout sends: with the stored tokens.
Send(t, r, kind) ==
    /\ request[r].pc = "none"
    /\ kind = "logout" => stored # NoTokens
    /\ request' = [request EXCEPT ![r] = [Unsent EXCEPT
                      !.pc = "sent", !.tab = t, !.kind = kind, !.sent = stored]]
    /\ UNCHANGED <<current, issued, fresh, stored, refresh, login, hurt>>

\* What follows the end of a request.  The enrichment stores the tokens of its
\* login again; logout, whose request has no body and is refused, ends on the
\* storage whatever the answer.
Ended(r, ok) ==
    /\ request' = [request EXCEPT ![r] = Unsent]
    /\ \/ /\ request[r].kind = "me" /\ ok
          /\ stored' = Signed(request[r].from, 1)
          /\ hurt' = IF stored = stored' THEN hurt ELSE hurt \cup {"late"}
          /\ UNCHANGED login
       \/ /\ request[r].kind = "logout"
          /\ stored' = NoTokens
          /\ login' = [login EXCEPT !.out = TRUE]
          /\ hurt' = hurt \cup Late(Tabs)
       \/ /\ request[r].kind = "data" \/ (request[r].kind = "me" /\ ~ok)
          /\ UNCHANGED <<stored, login, hurt>>
    /\ UNCHANGED refresh

-----------------------------------------------------------------------------
\* Answers

\* JwtStrategy: the access token alone decides.
Authorized(r) == request[r].sent \in fresh

Answer(r) ==
    /\ request[r].pc = "sent"
    /\ \/ Authorized(r) /\ Ended(r, TRUE)
       \/ ~Authorized(r) /\ request[r].retried /\ Ended(r, FALSE)
       \/ Ended(r, FALSE)      \* no answer, or another error than 401
    /\ UNCHANGED <<current, issued, fresh>>

\* storage.clear(), and the login page is loaded anew: the tab's requests are gone.
SignOut(t) ==
    /\ stored' = NoTokens
    /\ request' = [q \in Requests |-> IF request[q].tab = t THEN Unsent ELSE request[q]]
    /\ refresh' = [refresh EXCEPT ![t] = NoRefresh]

\* Mutant: every refused request starts a refresh of its own.
JoinNone(t) == FALSE

\* refreshPromise: one refresh for all requests of a tab.
Join(t) == refresh[t].pc # "none"

Others(t) == Tabs \ {t}

\* A refused request waits for the refresh of its tab, which it starts unless
\* there is one; without a stored token there is nothing to wait for.
Deny(r) ==
    LET t == request[r].tab IN
    /\ request[r].pc = "sent" /\ ~Authorized(r) /\ ~request[r].retried
    /\ \/ /\ Join(t)
          /\ request' = [request EXCEPT ![r].pc = "waiting"]
          /\ UNCHANGED <<stored, refresh, hurt>>
       \/ /\ ~Join(t) /\ stored # NoTokens
          /\ request' = [request EXCEPT ![r].pc = "waiting"]
          /\ refresh' = [refresh EXCEPT ![t] = [NoRefresh EXCEPT !.pc = "sent", !.sent = stored]]
          /\ hurt' = IF Refreshing \ {t} = {} THEN hurt ELSE hurt \cup {"overlap"}
          /\ UNCHANGED stored
       \/ ~Join(t) /\ stored = NoTokens /\ SignOut(t) /\ UNCHANGED hurt
    /\ UNCHANGED <<current, issued, fresh, login>>

-----------------------------------------------------------------------------
\* Refreshing

\* AuthService.refresh looks up the session of the token ...
LookUp(t) ==
    /\ refresh[t].pc = "sent"
    /\ current[refresh[t].sent.login] = refresh[t].sent.number
    /\ refresh' = [refresh EXCEPT ![t].pc = "found"]
    /\ UNCHANGED <<current, issued, fresh, stored, request, login, hurt>>

\* ... and gives it another one, by id.
Rotate(t) ==
    LET l == refresh[t].sent.login
        n == issued[l] + 1
    IN
    /\ refresh[t].pc = "found" /\ n <= MaxTokens
    /\ current' = [current EXCEPT ![l] = n] /\ issued' = [issued EXCEPT ![l] = n]
    /\ fresh' = fresh \cup {Signed(l, n)}
    /\ refresh' = [refresh EXCEPT ![t].pc = "rotated", ![t].result = Signed(l, n)]
    /\ UNCHANGED <<stored, request, login, hurt>>

\* setTokens; the requests that waited are sent again, with what is stored.
Refreshed(t) ==
    /\ refresh[t].pc = "rotated"
    /\ stored' = refresh[t].result
    /\ refresh' = [refresh EXCEPT ![t] = NoRefresh]
    /\ request' = [q \in Requests |->
                     IF request[q].tab = t /\ request[q].pc = "waiting"
                     THEN [request[q] EXCEPT !.pc = "sent", !.sent = stored', !.retried = TRUE]
                     ELSE request[q]]
    /\ hurt' = IF Enriching # {} \/ stored # refresh[t].sent THEN hurt \cup {"late"} ELSE hurt
    /\ UNCHANGED <<current, issued, fresh, login>>

\* No session has the token, or the answer is an error or gets lost.
NotRefreshed(t) ==
    /\ refresh[t].pc # "none"
    /\ SignOut(t)
    /\ hurt' = hurt \cup Late(Others(t)) \cup
         (IF refresh[t].pc = "sent" /\ current[refresh[t].sent.login] # refresh[t].sent.number
          THEN {} ELSE {"lost"})
    /\ UNCHANGED <<current, issued, fresh, login>>

-----------------------------------------------------------------------------
\* Time and the user

ExpireAccess ==
    /\ fresh # {} /\ fresh' = {}
    /\ UNCHANGED <<current, issued, stored, request, refresh, login, hurt>>

\* expiresAt, which a refresh puts off.
SessionEnds(l) ==
    /\ current[l] # 0
    /\ current' = [current EXCEPT ![l] = 0]
    /\ hurt' = hurt \cup {"expired"}
    /\ UNCHANGED <<issued, fresh, stored, request, refresh, login>>

\* The tab is loaded anew or closed: its requests are gone, the server goes on
\* or has already gone on without it.
Reload(t) ==
    /\ request' = [q \in Requests |-> IF request[q].tab = t THEN Unsent ELSE request[q]]
    /\ refresh' = [refresh EXCEPT ![t] = NoRefresh]
    /\ hurt' = IF refresh[t].pc = "none" THEN hurt ELSE hurt \cup {"lost"}
    /\ UNCHANGED <<current, issued, fresh, stored, login>>

WebNext ==
    \/ \E t \in Tabs :
          \/ \E r \in Requests :
                SignIn(t, r) \/ Send(t, r, "data") \/ Send(t, r, "logout")
          \/ LookUp(t) \/ Rotate(t) \/ Refreshed(t) \/ NotRefreshed(t) \/ Reload(t)
    \/ \E r \in Requests : Answer(r) \/ Deny(r)
    \/ ExpireAccess
    \/ \E l \in Logins : SessionEnds(l)

WebSpec == WebInit /\ [][WebNext]_webVars

-----------------------------------------------------------------------------
\* Properties

\* The browser is signed in as the last login says, with a token its session
\* accepts, until the user signs out.  It loses the session only when refreshes
\* of two tabs overlap, an answer to a refresh is lost, or the session expires;
\* and it comes back to an earlier login, or to a token already exchanged, only
\* when an answer was still to come while the tokens changed: the enrichment
\* writes the tokens of its login back, and a refresh those of a session that
\* the user has left.
BrowserFollowsSession ==
    /\ login.out /\ stored # NoTokens => "late" \in hurt
    /\ ~login.out /\ stored = NoTokens => hurt # {}
    /\ stored # NoTokens /\ stored.login # login.last => "late" \in hurt
    /\ stored # NoTokens /\ Refreshing = {} =>
          current[stored.login] = stored.number \/ hurt # {}
=============================================================================
