--------------------------- MODULE AccountSessions ---------------------------
(***************************************************************************)
(* Logins, account sessions and the tabs of one browser: who may try a     *)
(* password, which row the session cookie names, and which CSRF token each *)
(* page holds (apps/api/src/services/auth-service.ts, the session routes   *)
(* of app.ts, and apps/web/src: store.ts, HomePage.tsx, AdminPage.tsx,     *)
(* RoomPage.tsx).  What a login does to seats is in RoomSeats.             *)
(*                                                                         *)
(* Abstractions.                                                           *)
(*  - a CSRF token is only ever compared with csrf_hash of one row: a copy *)
(*    of it is the row whose hash it matches, or Stale once that row has   *)
(*    got another token or has ended.                                      *)
(*  - revoked and expired rows never authenticate again: they are None.    *)
(*  - a password is right or wrong when the row is read.                   *)
(*  - a window of failed logins that has passed counts as no failures: the *)
(*    next failure overwrites its row.                                     *)
(*  - a day after its last rotation a session is rotated when it is asked  *)
(*    for: here at any time.                                               *)
(*  - the tabs share the cookie jar and one address; a tab waits for the   *)
(*    answer to one request at a time.                                     *)
(***************************************************************************)
EXTENDS Naturals, FiniteSets

CONSTANTS
    Accounts,    \* the provisioned accounts
    Strangers,   \* user names without an account
    Sessions,    \* ids of account_sessions, which are also session cookies
    Tabs,        \* the tabs of the browser
    Ip,          \* the rate limit key of their address
    PairLimit,   \* failures allowed per name and address
    IpLimit,     \* failures allowed per address
    Stale,       \* a CSRF token that no row matches any more
    None         \* NULL, or no row

Names == Accounts \cup Strangers
Keys == Names \cup {Ip}
Limit(k) == IF k = Ip THEN IpLimit ELSE PairLimit

ASSUME LimitAssumption ==
    /\ PairLimit \in Nat \ {0} /\ IpLimit \in Nat \ {0}
    /\ Ip \notin Names
    /\ IsFiniteSet(Tabs)

ASSUME NameAssumption ==
    /\ None \notin Sessions \cup Accounts \cup {Stale}
    /\ Stale \notin Sessions

VARIABLES
    enabled,     \* accounts.enabled
    session,     \* account_sessions: the rows that are neither revoked nor expired
    failures,    \* auth_rate_limits: failures in the window of each key
    cookie,      \* __Host-sw_session in the browser
    page,        \* the CSRF token in the store of each tab, and whose it was when it came
    request      \* each tab's request or its answer, on the way

vars == <<enabled, session, failures, cookie, page, request>>

Page == [csrf : Sessions \cup {Stale, None}, account : Accounts \cup {None}]
Kinds == {"session", "bootstrap", "login", "logout"}
Request ==
    [at : {"none", "server", "check", "page"}, kind : Kinds,
     session : Sessions \cup {None}, csrf : Sessions \cup {Stale, None},
     account : Names \cup {None}, ok : BOOLEAN]

Blank == [csrf |-> None, account |-> None]
NoRequest ==
    [at |-> "none", kind |-> "session", session |-> None, csrf |-> None,
     account |-> None, ok |-> FALSE]

\* Rows, windows and what is on the way keep their types.
TypeOK ==
    /\ enabled \subseteq Accounts
    /\ session \in [Sessions -> Accounts \cup {None}]
    /\ failures \in [Keys -> Nat]
    /\ cookie \in Sessions \cup {None}
    /\ page \in [Tabs -> Page]
    /\ request \in [Tabs -> Request]

Live == {s \in Sessions : session[s] # None}

\* AuthService.authenticate; for None there is no cookie.
Authenticated(s) == s \in Live /\ session[s] \in enabled

Unused(s) ==
    /\ s \notin Live \cup {cookie}
    /\ \A t \in Tabs : request[t].session # s

\* What remains of x when the tokens of S match no row any more.
Without(x, S) == IF x.csrf \in S THEN [x EXCEPT !.csrf = Stale] ELSE x

\* The tokens of S are replaced; tab t is sent the answer r.
Reply(t, r, S) ==
    /\ request' = [u \in Tabs |-> IF u = t THEN r ELSE Without(request[u], S)]
    /\ page' = [u \in Tabs |-> Without(page[u], S)]

Accept(t, s, k, a) ==
    [NoRequest EXCEPT !.at = "page", !.kind = request[t].kind, !.ok = TRUE,
                      !.session = s, !.csrf = k, !.account = a]

Refuse(t) == [NoRequest EXCEPT !.at = "page", !.kind = request[t].kind]

Refused(t) == Reply(t, Refuse(t), {}) /\ UNCHANGED session

At(t, kind) == request[t].at = "server" /\ request[t].kind = kind

HasCsrf(t) == request[t].csrf = request[t].session

(***************************************************************************)
(* What the tabs send                                                      *)
(***************************************************************************)

Send(t, r) ==
    /\ request[t].at = "none"
    /\ request' = [request EXCEPT ![t] = [r EXCEPT !.at = "server"]]
    /\ UNCHANGED <<enabled, session, failures, cookie>>

\* A page is opened, or reloaded with an empty store: the landing and the
\* administration page ask for the session, the room page for its bootstrap.
OpenPage(t) ==
    \E kind \in {"session", "bootstrap"}, p \in {page[t], Blank} :
        /\ page' = [page EXCEPT ![t] = p]
        /\ Send(t, [NoRequest EXCEPT !.kind = kind, !.session = cookie])

\* Logging out carries the page's token.
SubmitLogout(t) ==
    /\ page[t].csrf # None
    /\ Send(t, [NoRequest EXCEPT !.kind = "logout", !.session = cookie,
                                 !.csrf = page[t].csrf])
    /\ UNCHANGED page

(***************************************************************************)
(* Login                                                                   *)
(***************************************************************************)

\* Mutant: the limit itself is still let through.
LoginAllowedOffByOne(n) == \A k \in {n, Ip} : failures[k] <= Limit(k)

\* requireLoginAllowed: both windows have room for a failure.
LoginAllowed(n) == \A k \in {n, Ip} : failures[k] < Limit(k)

RecordLoginFailure(n) ==
    failures' = [k \in Keys |-> failures[k] + (IF k \in {n, Ip} THEN 1 ELSE 0)]

ClearLoginFailures(n) ==
    failures' = [k \in Keys |-> IF k \in {n, Ip} THEN 0 ELSE failures[k]]

\* A user logs in on a page without a session.  Until the password check is
\* awaited: the row is read here.  A name without a row is checked against a
\* dummy and fails.
LoginBegin(t) ==
    \E n \in Names, right \in BOOLEAN :
        LET login == [NoRequest EXCEPT !.kind = "login", !.account = n] IN
        /\ page[t] = Blank
        /\ request[t].at = "none"
        /\ \/ /\ ~LoginAllowed(n)
              /\ request' = [request EXCEPT ![t] = [login EXCEPT !.at = "page"]]
           \/ /\ LoginAllowed(n)
              /\ right => n \in enabled
              /\ request' = [request EXCEPT ![t] = [login EXCEPT !.at = "check", !.ok = right]]
        /\ UNCHANGED <<enabled, session, failures, cookie, page>>

\* After the password check.  The route authenticates the new session at once,
\* and answers 401 if the account has been disabled meanwhile: the row stays.
LoginFinish(t) ==
    LET n == request[t].account IN
    /\ request[t].at = "check"
    /\ \/ /\ ~request[t].ok
          /\ RecordLoginFailure(n)
          /\ Refused(t)
       \/ /\ request[t].ok
          /\ ClearLoginFailures(n)
          /\ \E s \in Sessions :
                /\ Unused(s)
                /\ session' = [session EXCEPT ![s] = n]
                /\ Reply(t, IF n \in enabled THEN Accept(t, s, s, n) ELSE Refuse(t), {})
    /\ UNCHANGED <<enabled, cookie>>

(***************************************************************************)
(* Requests of a session                                                   *)
(***************************************************************************)

\* GET /auth/session: a new token, and once a day a new row in place of the
\* old one, which is deleted.
Resume(t) ==
    LET s == request[t].session IN
    /\ At(t, "session")
    /\ \/ ~Authenticated(s) /\ Refused(t)
       \/ /\ Authenticated(s)
          /\ Reply(t, Accept(t, None, s, session[s]), {s})
          /\ UNCHANGED session
       \/ /\ Authenticated(s)
          /\ \E new \in Sessions :
                /\ Unused(new)
                /\ session' = [session EXCEPT ![new] = session[s], ![s] = None]
                /\ Reply(t, Accept(t, new, new, session[s]), {s})
    /\ UNCHANGED <<enabled, failures, cookie>>

\* GET /rooms/:roomId/bootstrap: a new token for the member who holds the seat;
\* refused to everybody else.  (POST /rooms answers with a new token as well.)
Bootstrap(t) ==
    LET s == request[t].session IN
    /\ At(t, "bootstrap")
    /\ \/ Refused(t)
       \/ /\ Authenticated(s)
          /\ Reply(t, Accept(t, None, s, session[s]), {s})
          /\ UNCHANGED session
    /\ UNCHANGED <<enabled, failures, cookie>>

\* Mutant: the route does not look at the token.
LogoutWithoutCsrf(t) ==
    LET s == request[t].session IN
    /\ At(t, "logout")
    /\ \/ ~Authenticated(s) /\ Refused(t)
       \/ /\ Authenticated(s)
          /\ session' = [session EXCEPT ![s] = None]
          /\ Reply(t, Accept(t, None, None, None), {s})
    /\ UNCHANGED <<enabled, failures, cookie>>

\* POST /auth/logout
Logout(t) ==
    LET s == request[t].session IN
    /\ At(t, "logout")
    /\ \/ ~(Authenticated(s) /\ HasCsrf(t)) /\ Refused(t)
       \/ /\ Authenticated(s) /\ HasCsrf(t)
          /\ session' = [session EXCEPT ![s] = None]
          /\ Reply(t, Accept(t, None, None, None), {s})
    /\ UNCHANGED <<enabled, failures, cookie>>

(***************************************************************************)
(* Answers                                                                 *)
(***************************************************************************)

\* What the page may be after a refusal or an error: one that asked for its
\* session is cleared; logging out clears the landing page in any case and the
\* administration page only when it worked.
AfterFailure(t) ==
    CASE request[t].kind = "session" -> {Blank}
      [] request[t].kind = "logout" -> {Blank, page[t]}
      [] OTHER -> {page[t]}

\* What the page may be after an answer.
Shown(t) ==
    LET r == request[t] IN
    IF ~r.ok THEN AfterFailure(t)
    ELSE IF r.kind = "logout" THEN {Blank}
    ELSE {[csrf |-> r.csrf, account |-> r.account]}

\* The cookie after an answer.
Jar(r) ==
    IF r.ok /\ r.kind = "logout" THEN None
    ELSE IF r.session # None THEN r.session
    ELSE cookie

Deliver(t) ==
    /\ request[t].at = "page"
    /\ cookie' = Jar(request[t])
    /\ \E p \in Shown(t) : page' = [page EXCEPT ![t] = p]
    /\ request' = [request EXCEPT ![t] = NoRequest]
    /\ UNCHANGED <<enabled, session, failures>>

\* The connection breaks: the server has done its part, the page sees an error.
LoseAnswer(t) ==
    /\ request[t].at = "page"
    /\ \E p \in AfterFailure(t) : page' = [page EXCEPT ![t] = p]
    /\ request' = [request EXCEPT ![t] = NoRequest]
    /\ UNCHANGED <<enabled, session, failures, cookie>>

(***************************************************************************)
(* The command line and time                                               *)
(***************************************************************************)

\* The rows of S end by themselves or by another process.
End(S) ==
    /\ session' = [s \in Sessions |-> IF s \in S THEN None ELSE session[s]]
    /\ request' = [u \in Tabs |-> Without(request[u], S)]
    /\ page' = [u \in Tabs |-> Without(page[u], S)]

SessionsOf(A) == {s \in Live : session[s] \in A}

\* Mutant: enabling an account leaves its sessions alone.
ManageAccountWhenDisabling(a) ==
    \/ /\ enabled' = enabled \cup {a}
       /\ End({})
       /\ UNCHANGED <<failures, cookie>>
    \/ /\ enabled' = enabled \ {a}
       /\ End(SessionsOf({a}))
       /\ UNCHANGED <<failures, cookie>>

\* accounts:manage changes the password, enables or disables the account, and
\* revokes the account's sessions in any case.
ManageAccount(a) ==
    /\ enabled' \in {enabled, enabled \cup {a}, enabled \ {a}}
    /\ End(SessionsOf({a}))
    /\ UNCHANGED <<failures, cookie>>

\* accounts:provision enables the listed accounts and disables the others.
ProvisionAccounts ==
    /\ enabled' \in SUBSET Accounts
    /\ End(Live)
    /\ UNCHANGED <<failures, cookie>>

\* A session expires.
ExpireSession(s) ==
    /\ s \in Live
    /\ End({s})
    /\ UNCHANGED <<enabled, failures, cookie>>

\* The window of a key has passed.
WindowPasses(k) ==
    /\ failures[k] > 0
    /\ failures' = [failures EXCEPT ![k] = 0]
    /\ UNCHANGED <<enabled, session, cookie, page, request>>

(***************************************************************************)
(* Specification                                                           *)
(***************************************************************************)

\* After accounts:provision, before anybody came.
Init ==
    /\ enabled = Accounts
    /\ session = [s \in Sessions |-> None]
    /\ failures = [k \in Keys |-> 0]
    /\ cookie = None
    /\ page = [t \in Tabs |-> Blank]
    /\ request = [t \in Tabs |-> NoRequest]

TabStep(t) ==
    \/ OpenPage(t) \/ SubmitLogout(t)
    \/ LoginBegin(t) \/ LoginFinish(t)
    \/ Resume(t) \/ Bootstrap(t) \/ Logout(t)
    \/ Deliver(t) \/ LoseAnswer(t)

Next ==
    \/ \E t \in Tabs : TabStep(t)
    \/ \E a \in Accounts : ManageAccount(a)
    \/ ProvisionAccounts
    \/ \E s \in Sessions : ExpireSession(s)
    \/ \E k \in Keys : WindowPasses(k)

Spec == Init /\ [][Next]_vars

(***************************************************************************)
(* What must hold                                                          *)
(***************************************************************************)

\* The limits on failed logins hold up to the logins that are being checked at
\* the same time: the count is read before the check is awaited and written
\* after it, so all of them may pass on the last free attempt, but no more.
FailuresAreLimited ==
    \A k \in Keys : failures[k] <= Limit(k) + Cardinality(Tabs) - 1

\* What was cut off stays cut off: a session of a disabled account is not let in
\* again when the account is enabled.  That holds of sessions that have a row; a
\* login that is still being checked gets its row afterwards, from the account
\* that it read before.
CutOffForGood ==
    [][\A s \in Live : ~Authenticated(s) => ~Authenticated(s)']_vars

\* A page acts for the account that it was let in as, when it logged in, asked for
\* its session or for its bootstrap: another tab may have logged in as
\* somebody else in the shared cookie jar, answers may cross, sessions may be
\* rotated and end, but a request with the page's token is never carried out for
\* another account than that of the page which sent it.
PagesActForTheirAccount ==
    [][\A t \in Tabs :
          At(t, "logout") /\ request'[t].ok =>
              page[t].account = session[request[t].session]]_vars
=============================================================================
