----------------------- MODULE AccountSessions_proofs ------------------------
(***************************************************************************)
(* Theorems about AccountSessions, for any accounts, sessions, tabs and    *)
(* limits.  The inductive invariant says of every copy of a CSRF token in  *)
(* the browser, on a page or in an answer, that it stands beside the       *)
(* account whose session it matches; of a logout on its way, that it       *)
(* carries the token of its page; and of every key, that its failures and  *)
(* the logins being checked keep within the limit together.                *)
(***************************************************************************)
EXTENDS AccountSessions, FiniteSetTheorems, TLAPS

\* A token that matches a row is that of a session of account a.
TokenOf(k, a, rows) == k \in Sessions => rows[k] = a /\ a # None

PageOK(p, rows) == p \in Page /\ TokenOf(p.csrf, p.account, rows)

ServerOK(r, p) == r.at = "server" => r.ok = FALSE /\ (r.kind = "logout" => r.csrf = p.csrf)
CheckOK(r) == r.at = "check" => r.account \in Names /\ (r.ok => r.account \in Accounts)
AnswerOK(r, rows) ==
    r.at = "page" => /\ r.ok => r.account \in Accounts \cup {None}
                     /\ TokenOf(r.csrf, r.account, rows)

RequestOK(r, p, rows) ==
    r \in Request /\ ServerOK(r, p) /\ CheckOK(r) /\ AnswerOK(r, rows)

RowsOK ==
    /\ enabled \subseteq Accounts
    /\ session \in [Sessions -> Accounts \cup {None}]
    /\ failures \in [Keys -> Nat]
    /\ cookie \in Sessions \cup {None}

TabsOK ==
    /\ page \in [Tabs -> Page]
    /\ request \in [Tabs -> Request]
    /\ \A t \in Tabs : PageOK(page[t], session) /\ RequestOK(request[t], page[t], session)

Tokens == RowsOK /\ TabsOK

\* The rows that go on are those of before.
Agree(old, new, S) == \A s \in Sessions \ S : old[s] # None => new[s] = old[s]

-----------------------------------------------------------------------------
(* Tokens that are replaced *)

LEMMA PageKeeps ==
    ASSUME NEW p, NEW old, NEW new, NEW S,
           PageOK(p, old), Agree(old, new, S)
    PROVE  PageOK(Without(p, S), new)
<1>1. CASE p.csrf \in S
  <2>1. Without(p, S) = [p EXCEPT !.csrf = Stale]
    BY <1>1 DEF Without
  <2>2. Without(p, S) \in Page /\ Without(p, S).csrf = Stale
    BY <2>1 DEF PageOK, Page
  <2>. QED
    BY <2>2, NameAssumption DEF PageOK, TokenOf
<1>2. CASE p.csrf \notin S
  <2>1. Without(p, S) = p
    BY <1>2 DEF Without
  <2>2. TokenOf(p.csrf, p.account, new)
    BY <1>2 DEF PageOK, TokenOf, Agree
  <2>. QED
    BY <2>1, <2>2 DEF PageOK
<1>. QED
  BY <1>1, <1>2

LEMMA RequestKeeps ==
    ASSUME NEW r, NEW p, NEW old, NEW new, NEW S,
           p \in Page, RequestOK(r, p, old), Agree(old, new, S)
    PROVE  /\ RequestOK(Without(r, S), Without(p, S), new)
           /\ Without(r, S).at = r.at /\ Without(r, S).account = r.account
           /\ Without(r, S).ok = r.ok
<1>1. Without(r, S) \in Request
  BY DEF Without, RequestOK, Request
<1>2. /\ Without(r, S).at = r.at /\ Without(r, S).account = r.account
      /\ Without(r, S).ok = r.ok /\ Without(r, S).kind = r.kind
  BY DEF Without, RequestOK, Request
<1>3. /\ Without(r, S).csrf = IF r.csrf \in S THEN Stale ELSE r.csrf
      /\ Without(p, S).csrf = IF p.csrf \in S THEN Stale ELSE p.csrf
  BY DEF Without, RequestOK, Request, Page
<1>4. ServerOK(Without(r, S), Without(p, S))
  BY <1>2, <1>3 DEF ServerOK, RequestOK
<1>5. CheckOK(Without(r, S))
  BY <1>2 DEF CheckOK, RequestOK
<1>6. ASSUME r.at = "page"
      PROVE  TokenOf(Without(r, S).csrf, r.account, new)
  BY <1>3, <1>6, NameAssumption DEF RequestOK, AnswerOK, TokenOf, Agree
<1>7. AnswerOK(Without(r, S), new)
  BY <1>2, <1>6 DEF AnswerOK, RequestOK
<1>. QED
  BY <1>1, <1>2, <1>4, <1>5, <1>7 DEF RequestOK

\* Answering one tab.
LEMMA ReplyKeeps ==
    ASSUME TabsOK, NEW t \in Tabs, NEW r, NEW S, Reply(t, r, S),
           Agree(session, session', S),
           r.at = "page", r \in Request, AnswerOK(r, session')
    PROVE  TabsOK'
<1>1. \A u \in Tabs : PageOK(page'[u], session')
  BY PageKeeps DEF TabsOK, Reply
<1>2. RequestOK(r, page'[t], session')
  BY DEF RequestOK, ServerOK, CheckOK
<1>3. request'[t] = r
  BY DEF Reply
<1>4. ASSUME NEW u \in Tabs, u # t
      PROVE  RequestOK(request'[u], page'[u], session')
  <2>1. request'[u] = Without(request[u], S) /\ page'[u] = Without(page[u], S)
    BY <1>4 DEF Reply
  <2>2. page[u] \in Page /\ RequestOK(request[u], page[u], session)
    BY DEF TabsOK
  <2>. QED
    BY <2>1, <2>2, RequestKeeps
<1>5. \A u \in Tabs : RequestOK(request'[u], page'[u], session')
  BY <1>2, <1>3, <1>4
<1>6. page' \in [Tabs -> Page]
  BY <1>1 DEF Reply, PageOK
<1>7. request' \in [Tabs -> Request]
  BY <1>5 DEF Reply, RequestOK
<1>. QED
  BY <1>1, <1>5, <1>6, <1>7 DEF TabsOK

LEMMA EndKeeps ==
    ASSUME TabsOK, session \in [Sessions -> Accounts \cup {None}], NEW S, End(S)
    PROVE  TabsOK' /\ session' \in [Sessions -> Accounts \cup {None}]
<1>1. session' \in [Sessions -> Accounts \cup {None}]
  BY DEF End
<1>2. Agree(session, session', S)
  BY DEF End, Agree
<1>3. \A u \in Tabs : PageOK(page'[u], session')
  BY <1>2, PageKeeps DEF TabsOK, End
<1>4. ASSUME NEW u \in Tabs
      PROVE  RequestOK(request'[u], page'[u], session')
  <2>1. request'[u] = Without(request[u], S) /\ page'[u] = Without(page[u], S)
    BY DEF End
  <2>2. page[u] \in Page /\ RequestOK(request[u], page[u], session)
    BY DEF TabsOK
  <2>. QED
    BY <1>2, <2>1, <2>2, RequestKeeps
<1>5. page' \in [Tabs -> Page]
  BY <1>3 DEF End, PageOK
<1>6. request' \in [Tabs -> Request]
  BY <1>4 DEF End, RequestOK
<1>. QED
  BY <1>1, <1>3, <1>4, <1>5, <1>6 DEF TabsOK

\* A tab's own step, which touches no row and no other tab.
LEMMA TabKeeps ==
    ASSUME TabsOK, NEW t \in Tabs, NEW p, NEW r,
           UNCHANGED session,
           page' = [page EXCEPT ![t] = p], request' = [request EXCEPT ![t] = r],
           PageOK(p, session), RequestOK(r, p, session)
    PROVE  TabsOK'
<1>1. \A u \in Tabs : /\ page'[u] = IF u = t THEN p ELSE page[u]
                      /\ request'[u] = IF u = t THEN r ELSE request[u]
  BY DEF TabsOK
<1>2. \A u \in Tabs : PageOK(page'[u], session) /\ RequestOK(request'[u], page'[u], session)
  BY <1>1 DEF TabsOK
<1>3. page' \in [Tabs -> Page] /\ request' \in [Tabs -> Request]
  BY DEF TabsOK, PageOK, RequestOK
<1>. QED
  BY <1>2, <1>3 DEF TabsOK

LEMMA RequestTypes ==
    ASSUME NEW kind \in Kinds
    PROVE  /\ NoRequest \in Request /\ Blank \in Page
           /\ \A s \in Sessions \cup {None}, k \in Sessions \cup {Stale, None} :
                 [NoRequest EXCEPT !.at = "server", !.kind = kind, !.session = s, !.csrf = k]
                     \in Request
BY DEF NoRequest, Request, Kinds, Blank, Page

-----------------------------------------------------------------------------
(* What the tabs send *)

\* A request that is sent carries no answer.
LEMMA SendKeeps ==
    ASSUME Tokens, NEW t \in Tabs, NEW p, NEW r \in Request, Send(t, r),
           page' = [page EXCEPT ![t] = p], PageOK(p, session),
           r.ok = FALSE, r.kind = "logout" => r.csrf = p.csrf
    PROVE  Tokens'
<1>1. [r EXCEPT !.at = "server"] \in Request
  BY DEF Request
<1>2. /\ [r EXCEPT !.at = "server"].at = "server" /\ [r EXCEPT !.at = "server"].ok = FALSE
      /\ [r EXCEPT !.at = "server"].kind = r.kind /\ [r EXCEPT !.at = "server"].csrf = r.csrf
  BY DEF Request
<1>3. RequestOK([r EXCEPT !.at = "server"], p, session)
  BY <1>1, <1>2 DEF RequestOK, ServerOK, CheckOK, AnswerOK
<1>4. TabsOK'
  BY <1>3, TabKeeps DEF Send, Tokens
<1>. QED
  BY <1>4 DEF Tokens, RowsOK, Send

LEMMA SendStep ==
    ASSUME Tokens, NEW t \in Tabs, OpenPage(t) \/ SubmitLogout(t)
    PROVE  Tokens'
<1>1. page[t] \in Page /\ PageOK(page[t], session) /\ PageOK(Blank, session)
  BY RequestTypes, NameAssumption DEF Tokens, TabsOK, PageOK, TokenOf, Blank, Kinds
<1>2. CASE OpenPage(t)
  <2>1. PICK kind \in {"session", "bootstrap"}, p \in {page[t], Blank} :
          /\ page' = [page EXCEPT ![t] = p]
          /\ Send(t, [NoRequest EXCEPT !.kind = kind, !.session = cookie])
    BY <1>2 DEF OpenPage
  <2>. DEFINE r == [NoRequest EXCEPT !.kind = kind, !.session = cookie]
  <2>2. cookie \in Sessions \cup {None}
    BY DEF Tokens, RowsOK
  <2>3. r \in Request /\ r.ok = FALSE /\ r.kind # "logout"
    BY <2>2 DEF NoRequest, Request, Kinds
  <2>. HIDE DEF r
  <2>4. Send(t, r) /\ PageOK(p, session)
    BY <1>1, <2>1 DEF r
  <2>. QED
    BY <2>1, <2>3, <2>4, SendKeeps
<1>3. CASE SubmitLogout(t)
  <2>. DEFINE r == [NoRequest EXCEPT !.kind = "logout", !.session = cookie,
                                     !.csrf = page[t].csrf]
  <2>1. cookie \in Sessions \cup {None} /\ page[t].csrf \in Sessions \cup {Stale, None}
    BY <1>1 DEF Tokens, RowsOK, Page
  <2>2. r \in Request /\ r.ok = FALSE /\ r.csrf = page[t].csrf
    BY <2>1 DEF NoRequest, Request, Kinds
  <2>. HIDE DEF r
  <2>3. Send(t, r) /\ page' = page
    BY <1>3 DEF SubmitLogout, r
  <2>4. page' = [page EXCEPT ![t] = page[t]]
    BY <2>3 DEF Tokens, TabsOK
  <2>. QED
    BY <1>1, <2>2, <2>3, <2>4, SendKeeps
<1>. QED
  BY <1>2, <1>3

-----------------------------------------------------------------------------
(* Login *)

LEMMA LoginBeginStep ==
    ASSUME Tokens, NEW t \in Tabs, LoginBegin(t)
    PROVE  Tokens'
<1>1. PICK n \in Names, right \in BOOLEAN :
        LET login == [NoRequest EXCEPT !.kind = "login", !.account = n] IN
        /\ \/ request' = [request EXCEPT ![t] = [login EXCEPT !.at = "page"]]
           \/ /\ right => n \in enabled
              /\ request' = [request EXCEPT ![t] = [login EXCEPT !.at = "check", !.ok = right]]
        /\ UNCHANGED <<enabled, session, failures, cookie, page>>
  BY DEF LoginBegin
<1>. DEFINE login == [NoRequest EXCEPT !.kind = "login", !.account = n]
            refused == [login EXCEPT !.at = "page"]
            checked == [login EXCEPT !.at = "check", !.ok = right]
<1>2. page' = [page EXCEPT ![t] = page[t]] /\ PageOK(page[t], session)
  BY <1>1 DEF Tokens, TabsOK
<1>3. /\ refused \in Request /\ refused.at = "page" /\ refused.ok = FALSE /\ refused.csrf = None
      /\ checked \in Request /\ checked.at = "check" /\ checked.ok = right /\ checked.account = n
  BY DEF NoRequest, Request, Kinds
<1>4. RequestOK(refused, page[t], session)
  BY <1>3, NameAssumption DEF RequestOK, ServerOK, CheckOK, AnswerOK, TokenOf
<1>5. (right => n \in Accounts) => RequestOK(checked, page[t], session)
  BY <1>3 DEF RequestOK, ServerOK, CheckOK, AnswerOK
<1>6. \/ request' = [request EXCEPT ![t] = refused]
      \/ (right => n \in enabled) /\ request' = [request EXCEPT ![t] = checked]
  BY <1>1
<1>. HIDE DEF refused, checked, login
<1>7. TabsOK'
  <2>1. CASE request' = [request EXCEPT ![t] = refused]
    BY <1>1, <1>2, <1>4, <2>1, TabKeeps DEF Tokens
  <2>2. CASE (right => n \in enabled) /\ request' = [request EXCEPT ![t] = checked]
    <3>1. RequestOK(checked, page[t], session)
      BY <1>5, <2>2 DEF Tokens, RowsOK
    <3>. QED
      BY <1>1, <1>2, <2>2, <3>1, TabKeeps DEF Tokens
  <2>. QED
    BY <1>6, <2>1, <2>2
<1>. QED
  BY <1>1, <1>7 DEF Tokens, RowsOK

\* A refusal names no session and no account.
LEMMA RefuseOK ==
    ASSUME NEW t \in Tabs, request[t] \in Request, NEW rows
    PROVE  /\ Refuse(t) \in Request /\ Refuse(t).at = "page" /\ Refuse(t).ok = FALSE
           /\ AnswerOK(Refuse(t), rows)
<1>1. /\ Refuse(t) \in Request /\ Refuse(t).at = "page" /\ Refuse(t).ok = FALSE
      /\ Refuse(t).csrf = None
  BY DEF Refuse, NoRequest, Request
<1>. QED
  BY <1>1, NameAssumption DEF AnswerOK, TokenOf

LEMMA AcceptOK ==
    ASSUME NEW t \in Tabs, request[t] \in Request, NEW s \in Sessions \cup {None},
           NEW k \in Sessions \cup {None}, NEW a \in Accounts \cup {None}, NEW rows,
           TokenOf(k, a, rows)
    PROVE  /\ Accept(t, s, k, a) \in Request /\ Accept(t, s, k, a).at = "page"
           /\ AnswerOK(Accept(t, s, k, a), rows)
<1>1. /\ Accept(t, s, k, a) \in Request /\ Accept(t, s, k, a).at = "page"
      /\ Accept(t, s, k, a).csrf = k /\ Accept(t, s, k, a).account = a
  BY DEF Accept, NoRequest, Request, Names
<1>. QED
  BY <1>1 DEF AnswerOK

LEMMA FailureTypes ==
    ASSUME RowsOK, NEW n, RecordLoginFailure(n) \/ ClearLoginFailures(n)
    PROVE  failures' \in [Keys -> Nat]
BY DEF RowsOK, RecordLoginFailure, ClearLoginFailures

LEMMA RefusedStep ==
    ASSUME Tokens, NEW t \in Tabs, Refused(t)
    PROVE  TabsOK' /\ session' = session
<1>1. Reply(t, Refuse(t), {}) /\ session' = session
  BY DEF Refused
<1>2. request[t] \in Request
  BY DEF Tokens, TabsOK
<1>3. Agree(session, session', {})
  BY <1>1 DEF Agree
<1>. QED
  BY <1>1, <1>2, <1>3, RefuseOK, ReplyKeeps DEF Tokens

LEMMA LoginFinishStep ==
    ASSUME Tokens, NEW t \in Tabs, LoginFinish(t)
    PROVE  Tokens'
<1>. DEFINE n == request[t].account
<1>1. request[t] \in Request /\ request[t].at = "check" /\ UNCHANGED <<enabled, cookie>>
  BY DEF LoginFinish, Tokens, TabsOK
<1>2. CASE RecordLoginFailure(n) /\ Refused(t)
  <2>1. failures' \in [Keys -> Nat]
    BY <1>2, FailureTypes DEF Tokens
  <2>2. TabsOK' /\ session' = session
    BY <1>2, RefusedStep
  <2>. QED
    BY <1>1, <2>1, <2>2 DEF Tokens, RowsOK
<1>3. CASE /\ request[t].ok
           /\ ClearLoginFailures(n)
           /\ \E s \in Sessions :
                /\ Unused(s)
                /\ session' = [session EXCEPT ![s] = n]
                /\ Reply(t, IF n \in enabled THEN Accept(t, s, s, n) ELSE Refuse(t), {})
  <2>1. PICK s \in Sessions :
                /\ Unused(s)
                /\ session' = [session EXCEPT ![s] = n]
                /\ Reply(t, IF n \in enabled THEN Accept(t, s, s, n) ELSE Refuse(t), {})
    BY <1>3
  <2>2. n \in Accounts
    BY <1>1, <1>3 DEF Tokens, TabsOK, RequestOK, CheckOK
  <2>3. failures' \in [Keys -> Nat]
    BY <1>3, FailureTypes DEF Tokens
  <2>4. session' \in [Sessions -> Accounts \cup {None}] /\ session'[s] = n
    BY <2>1, <2>2 DEF Tokens, RowsOK
  <2>5. Agree(session, session', {})
    BY <2>1 DEF Agree, Unused, Live, Tokens, RowsOK
  <2>. DEFINE r == IF n \in enabled THEN Accept(t, s, s, n) ELSE Refuse(t)
  <2>6. n # None
    BY <2>2, NameAssumption
  <2>7. /\ Accept(t, s, s, n) \in Request /\ Accept(t, s, s, n).at = "page"
        /\ AnswerOK(Accept(t, s, s, n), session')
    BY <1>1, <2>2, <2>4, <2>6, AcceptOK DEF TokenOf
  <2>8. /\ Refuse(t) \in Request /\ Refuse(t).at = "page" /\ AnswerOK(Refuse(t), session')
    BY <1>1, RefuseOK
  <2>9. r \in Request /\ r.at = "page" /\ AnswerOK(r, session')
    BY <2>7, <2>8
  <2>. HIDE DEF r
  <2>10. Reply(t, r, {})
    BY <2>1 DEF r
  <2>11. TabsOK'
    BY <2>5, <2>9, <2>10, ReplyKeeps DEF Tokens
  <2>. QED
    BY <1>1, <2>3, <2>4, <2>11 DEF Tokens, RowsOK
<1>. QED
  BY <1>2, <1>3 DEF LoginFinish

-----------------------------------------------------------------------------
(* Requests of a session *)

\* A new token for the row s.
LEMMA RotateStep ==
    ASSUME Tokens, NEW t \in Tabs, NEW s, Authenticated(s), UNCHANGED session,
           Reply(t, Accept(t, None, s, session[s]), {s})
    PROVE  TabsOK'
<1>1. s \in Sessions /\ session[s] \in Accounts /\ session[s] # None
  BY NameAssumption DEF Authenticated, Live, Tokens, RowsOK
<1>2. request[t] \in Request
  BY DEF Tokens, TabsOK
<1>3. /\ Accept(t, None, s, session[s]) \in Request
      /\ Accept(t, None, s, session[s]).at = "page"
      /\ AnswerOK(Accept(t, None, s, session[s]), session')
  BY <1>1, <1>2, AcceptOK DEF TokenOf
<1>4. Agree(session, session', {s})
  BY DEF Agree
<1>. QED
  BY <1>3, <1>4, ReplyKeeps DEF Tokens

LEMMA ResumeStep ==
    ASSUME Tokens, NEW t \in Tabs, Resume(t)
    PROVE  Tokens'
<1>. DEFINE s == request[t].session
<1>1. UNCHANGED <<enabled, failures, cookie>> /\ request[t] \in Request
  BY DEF Resume, Tokens, TabsOK
<1>2. CASE Refused(t)
  BY <1>1, <1>2, RefusedStep DEF Tokens, RowsOK
<1>3. CASE /\ Authenticated(s)
           /\ Reply(t, Accept(t, None, s, session[s]), {s})
           /\ UNCHANGED session
  <2>1. TabsOK'
    BY <1>3, RotateStep
  <2>. QED
    BY <1>1, <1>3, <2>1 DEF Tokens, RowsOK
<1>4. CASE /\ Authenticated(s)
           /\ \E new \in Sessions :
                /\ Unused(new)
                /\ session' = [session EXCEPT ![new] = session[s], ![s] = None]
                /\ Reply(t, Accept(t, new, new, session[s]), {s})
  <2>1. PICK new \in Sessions :
                /\ Unused(new)
                /\ session' = [session EXCEPT ![new] = session[s], ![s] = None]
                /\ Reply(t, Accept(t, new, new, session[s]), {s})
    BY <1>4
  <2>2. /\ s \in Sessions /\ session[s] \in Accounts /\ session[s] # None
        /\ session \in [Sessions -> Accounts \cup {None}]
    BY <1>4, NameAssumption DEF Authenticated, Live, Tokens, RowsOK
  <2>3. session[new] = None
    BY <2>1 DEF Unused, Live
  <2>4. /\ session' \in [Sessions -> Accounts \cup {None}] /\ session'[new] = session[s]
    BY <2>1, <2>2, <2>3
  <2>5. Agree(session, session', {s})
    BY <2>1, <2>2, <2>3 DEF Agree
  <2>6. /\ Accept(t, new, new, session[s]) \in Request
        /\ Accept(t, new, new, session[s]).at = "page"
        /\ AnswerOK(Accept(t, new, new, session[s]), session')
    BY <1>1, <2>2, <2>4, AcceptOK DEF TokenOf
  <2>7. TabsOK'
    BY <2>1, <2>5, <2>6, ReplyKeeps DEF Tokens
  <2>. QED
    BY <1>1, <2>4, <2>7 DEF Tokens, RowsOK
<1>. QED
  BY <1>2, <1>3, <1>4 DEF Resume

LEMMA BootstrapStep ==
    ASSUME Tokens, NEW t \in Tabs, Bootstrap(t)
    PROVE  Tokens'
<1>. DEFINE s == request[t].session
<1>1. UNCHANGED <<enabled, failures, cookie>>
  BY DEF Bootstrap
<1>2. CASE Refused(t)
  BY <1>1, <1>2, RefusedStep DEF Tokens, RowsOK
<1>3. CASE /\ Authenticated(s)
           /\ Reply(t, Accept(t, None, s, session[s]), {s})
           /\ UNCHANGED session
  <2>1. TabsOK'
    BY <1>3, RotateStep
  <2>. QED
    BY <1>1, <1>3, <2>1 DEF Tokens, RowsOK
<1>. QED
  BY <1>2, <1>3 DEF Bootstrap

LEMMA LogoutStep ==
    ASSUME Tokens, NEW t \in Tabs, Logout(t)
    PROVE  Tokens'
<1>. DEFINE s == request[t].session
<1>1. UNCHANGED <<enabled, failures, cookie>> /\ request[t] \in Request
  BY DEF Logout, Tokens, TabsOK
<1>2. CASE Refused(t)
  BY <1>1, <1>2, RefusedStep DEF Tokens, RowsOK
<1>3. CASE /\ session' = [session EXCEPT ![s] = None]
           /\ Reply(t, Accept(t, None, None, None), {s})
  <2>1. session' \in [Sessions -> Accounts \cup {None}]
    BY <1>3 DEF Tokens, RowsOK
  <2>2. Agree(session, session', {s})
    BY <1>3 DEF Agree, Tokens, RowsOK
  <2>3. /\ Accept(t, None, None, None) \in Request
        /\ Accept(t, None, None, None).at = "page"
        /\ AnswerOK(Accept(t, None, None, None), session')
    BY <1>1, AcceptOK, NameAssumption DEF TokenOf
  <2>4. TabsOK'
    BY <1>3, <2>2, <2>3, ReplyKeeps DEF Tokens
  <2>. QED
    BY <1>1, <2>1, <2>4 DEF Tokens, RowsOK
<1>. QED
  BY <1>2, <1>3 DEF Logout

-----------------------------------------------------------------------------
(* Answers *)

LEMMA ShownOK ==
    ASSUME Tokens, NEW t \in Tabs, request[t].at = "page"
    PROVE  \A p \in Shown(t) \cup AfterFailure(t) : PageOK(p, session)
<1>1. PageOK(page[t], session) /\ RequestOK(request[t], page[t], session)
  BY DEF Tokens, TabsOK
<1>2. PageOK(Blank, session)
  BY RequestTypes, NameAssumption DEF PageOK, TokenOf, Blank, Kinds
<1>. DEFINE p == [csrf |-> request[t].csrf, account |-> request[t].account]
<1>3. ASSUME request[t].ok
      PROVE  PageOK(p, session)
  <2>1. p \in Page
    BY <1>1, <1>3 DEF RequestOK, AnswerOK, Request, Page
  <2>2. p.csrf = request[t].csrf /\ p.account = request[t].account
    OBVIOUS
  <2>. QED
    BY <1>1, <2>1, <2>2 DEF RequestOK, AnswerOK, PageOK
<1>. QED
  BY <1>1, <1>2, <1>3 DEF Shown, AfterFailure

LEMMA AnswerStep ==
    ASSUME Tokens, NEW t \in Tabs, Deliver(t) \/ LoseAnswer(t)
    PROVE  Tokens'
<1>1. /\ request[t].at = "page" /\ UNCHANGED <<enabled, session, failures>>
      /\ request' = [request EXCEPT ![t] = NoRequest]
  BY DEF Deliver, LoseAnswer
<1>2. NoRequest \in Request /\ NoRequest.at = "none"
  BY RequestTypes DEF NoRequest, Kinds
<1>3. \A p : RequestOK(NoRequest, p, session)
  BY <1>2 DEF RequestOK, ServerOK, CheckOK, AnswerOK
<1>4. \E p : page' = [page EXCEPT ![t] = p] /\ PageOK(p, session)
  BY <1>1, ShownOK DEF Deliver, LoseAnswer
<1>5. TabsOK'
  BY <1>1, <1>3, <1>4, TabKeeps DEF Tokens
<1>6. cookie' \in Sessions \cup {None}
  <2>1. request[t] \in Request
    BY DEF Tokens, TabsOK
  <2>2. request[t].session \in Sessions \cup {None}
    BY <2>1 DEF Request
  <2>. QED
    BY <2>2 DEF Deliver, LoseAnswer, Jar, Tokens, RowsOK
<1>. QED
  BY <1>1, <1>5, <1>6 DEF Tokens, RowsOK

-----------------------------------------------------------------------------
(* The command line and time *)

LEMMA OutsideStep ==
    ASSUME Tokens,
           \/ \E a \in Accounts : ManageAccount(a)
           \/ ProvisionAccounts
           \/ \E s \in Sessions : ExpireSession(s)
           \/ \E k \in Keys : WindowPasses(k)
    PROVE  Tokens'
<1>1. CASE \E k \in Keys : WindowPasses(k)
  <2>1. UNCHANGED <<enabled, session, cookie, page, request>> /\ failures' \in [Keys -> Nat]
    BY <1>1 DEF WindowPasses, Tokens, RowsOK
  <2>2. TabsOK'
    BY <2>1 DEF Tokens, TabsOK
  <2>. QED
    BY <2>1, <2>2 DEF Tokens, RowsOK
<1>2. CASE \/ \E a \in Accounts : ManageAccount(a)
           \/ ProvisionAccounts
           \/ \E s \in Sessions : ExpireSession(s)
  <2>1. (\E S : End(S)) /\ UNCHANGED <<failures, cookie>>
    BY <1>2 DEF ManageAccount, ProvisionAccounts, ExpireSession
  <2>2. enabled' \subseteq Accounts
    BY <1>2 DEF ManageAccount, ProvisionAccounts, ExpireSession, Tokens, RowsOK
  <2>3. TabsOK' /\ session' \in [Sessions -> Accounts \cup {None}]
    BY <2>1, EndKeeps DEF Tokens, RowsOK
  <2>. QED
    BY <2>1, <2>2, <2>3 DEF Tokens, RowsOK
<1>. QED
  BY <1>1, <1>2

LEMMA TokensInit == Init => Tokens
<1>. SUFFICES ASSUME Init PROVE Tokens
  OBVIOUS
<1>1. RowsOK
  BY DEF Init, RowsOK
<1>2. NoRequest \in Request /\ NoRequest.at = "none" /\ Blank \in Page /\ Blank.csrf = None
  BY RequestTypes DEF NoRequest, Blank, Kinds
<1>3. \A t \in Tabs : page[t] = Blank /\ request[t] = NoRequest
  BY DEF Init
<1>4. page \in [Tabs -> Page] /\ request \in [Tabs -> Request]
  BY <1>2 DEF Init
<1>5. \A t \in Tabs : PageOK(page[t], session) /\ RequestOK(request[t], page[t], session)
  BY <1>2, <1>3, NameAssumption
     DEF PageOK, RequestOK, TokenOf, ServerOK, CheckOK, AnswerOK
<1>. QED
  BY <1>1, <1>4, <1>5 DEF Tokens, TabsOK

LEMMA TokensNext == Tokens /\ [Next]_vars => Tokens'
<1>. SUFFICES ASSUME Tokens, [Next]_vars PROVE Tokens'
  OBVIOUS
<1>1. ASSUME NEW t \in Tabs, TabStep(t) PROVE Tokens'
  BY <1>1, SendStep, LoginBeginStep, LoginFinishStep, ResumeStep, BootstrapStep, LogoutStep,
     AnswerStep DEF TabStep
<1>2. CASE UNCHANGED vars
  BY <1>2 DEF vars, Tokens, RowsOK, TabsOK
<1>. QED
  BY <1>1, <1>2, OutsideStep DEF Next

THEOREM TokensStay == Spec => []Tokens
<1>. QED
  BY TokensInit, TokensNext, PTL DEF Spec

\* Every variable keeps its type, for any accounts, sessions and tabs: rows name
\* accounts, answers name sessions and tokens (TypeOK).
THEOREM TypeCorrect == Spec => []TypeOK
<1>1. Tokens => TypeOK
  BY DEF Tokens, RowsOK, TabsOK, TypeOK
<1>. QED
  BY <1>1, TokensStay, PTL

-----------------------------------------------------------------------------
(* Cut off for good *)

LEMMA CutOffStep ==
    ASSUME Tokens, [Next]_vars, NEW s \in Live, ~Authenticated(s)
    PROVE  ~Authenticated(s)'
<1>1. s \in Sessions /\ session[s] # None /\ session[s] \notin enabled
  BY DEF Live, Authenticated
<1>. SUFFICES ASSUME session'[s] # None PROVE session'[s] \notin enabled'
  BY DEF Authenticated, Live
<1>2. CASE enabled' = enabled /\ session'[s] = session[s]
  BY <1>1, <1>2
<1>3. ASSUME NEW t \in Tabs, TabStep(t)
      PROVE  enabled' = enabled /\ session'[s] = session[s]
  <2>1. enabled' = enabled
    BY <1>3 DEF TabStep, OpenPage, SubmitLogout, Send, LoginBegin, LoginFinish, Resume,
                Bootstrap, Logout, Deliver, LoseAnswer
  <2>2. CASE UNCHANGED session
    BY <2>1, <2>2
  <2>3. CASE \E new \in Sessions : \E a : Unused(new) /\ session' = [session EXCEPT ![new] = a]
    BY <2>1, <2>3, <1>1 DEF Unused, Tokens, RowsOK
  <2>4. CASE \E new \in Sessions : \E a, old :
               /\ Unused(new) /\ Authenticated(old)
               /\ session' = [session EXCEPT ![new] = a, ![old] = None]
    BY <2>1, <2>4, <1>1 DEF Unused, Tokens, RowsOK
  <2>5. CASE \E old : Authenticated(old) /\ session' = [session EXCEPT ![old] = None]
    BY <2>1, <2>5, <1>1 DEF Tokens, RowsOK
  <2>6. \/ UNCHANGED session
        \/ LoginFinish(t) \/ Resume(t) \/ Bootstrap(t) \/ Logout(t)
    BY <1>3 DEF TabStep, OpenPage, SubmitLogout, Send, LoginBegin, Deliver, LoseAnswer
  <2>7. LoginFinish(t) => \/ UNCHANGED session
                          \/ \E new \in Sessions : \E a :
                                Unused(new) /\ session' = [session EXCEPT ![new] = a]
    BY DEF LoginFinish, Refused
  <2>8. Resume(t) => \/ UNCHANGED session
                     \/ \E new \in Sessions : \E a, old :
                           /\ Unused(new) /\ Authenticated(old)
                           /\ session' = [session EXCEPT ![new] = a, ![old] = None]
    BY DEF Resume, Refused
  <2>9. Bootstrap(t) => UNCHANGED session
    BY DEF Bootstrap, Refused
  <2>10. Logout(t) => \/ UNCHANGED session
                      \/ \E old : Authenticated(old) /\ session' = [session EXCEPT ![old] = None]
    BY DEF Logout, Refused
  <2>. QED
    BY <2>2, <2>3, <2>4, <2>5, <2>6, <2>7, <2>8, <2>9, <2>10
<1>4. ASSUME NEW a \in Accounts, ManageAccount(a)
      PROVE  session'[s] \notin enabled'
  <2>1. s \notin SessionsOf({a})
    BY <1>1, <1>4 DEF ManageAccount, End
  <2>2. session'[s] = session[s] /\ session[s] # a
    BY <1>1, <1>4, <2>1 DEF ManageAccount, End, SessionsOf, Live
  <2>. QED
    BY <1>1, <1>4, <2>2 DEF ManageAccount
<1>5. ~ProvisionAccounts
  BY <1>1 DEF ProvisionAccounts, End
<1>6. ASSUME NEW u \in Sessions, ExpireSession(u)
      PROVE  enabled' = enabled /\ session'[s] = session[s]
  BY <1>6 DEF ExpireSession, End, Live
<1>7. ASSUME NEW k \in Keys, WindowPasses(k)
      PROVE  enabled' = enabled /\ session'[s] = session[s]
  BY <1>7 DEF WindowPasses
<1>8. UNCHANGED vars => enabled' = enabled /\ session'[s] = session[s]
  BY DEF vars
<1>. QED
  BY <1>2, <1>3, <1>4, <1>5, <1>6, <1>7, <1>8 DEF Next

\* A session of a disabled account never authenticates again, for any accounts
\* and sessions and whatever the command line does to them (manageAccount and
\* provisionAccounts end the sessions of every account that they enable).
THEOREM CutOffLasts == Spec => CutOffForGood
<1>1. Tokens /\ [Next]_vars => [\A s \in Live : ~Authenticated(s) => ~Authenticated(s)']_vars
  BY CutOffStep
<1>. QED
  BY <1>1, TokensStay, PTL DEF Spec, CutOffForGood

-----------------------------------------------------------------------------
(* Pages act for their account *)

LEMMA LogoutIsOfItsPage ==
    ASSUME Tokens, Next, NEW t \in Tabs, At(t, "logout"), request'[t].ok
    PROVE  page[t].account = session[request[t].session]
<1>1. /\ request[t] \in Request /\ request[t].at = "server" /\ request[t].kind = "logout"
      /\ request[t].ok = FALSE /\ request[t].csrf = page[t].csrf
      /\ TokenOf(page[t].csrf, page[t].account, session)
  BY DEF Tokens, TabsOK, At, RequestOK, ServerOK, PageOK
<1>2. \A S : Without(request[t], S).ok = FALSE
  BY <1>1 DEF Without, Request
<1>3. \A u, r, S : Reply(u, r, S) => u = t
  BY <1>2 DEF Reply
<1>4. \A S : ~End(S)
  BY <1>2 DEF End
<1>5. request' # request
  BY <1>1
<1>6. \A u \in Tabs : \A r : request' = [request EXCEPT ![u] = r] => u = t
  BY <1>1 DEF Tokens, TabsOK
<1>7. \E u \in Tabs : TabStep(u)
  BY <1>4, <1>5 DEF Next, ManageAccount, ProvisionAccounts, ExpireSession, WindowPasses
<1>8. TabStep(t)
  <2>1. PICK u \in Tabs : TabStep(u)
    BY <1>7
  <2>2. CASE OpenPage(u) \/ SubmitLogout(u) \/ LoginBegin(u) \/ Deliver(u) \/ LoseAnswer(u)
    BY <1>6, <2>1, <2>2 DEF OpenPage, SubmitLogout, Send, LoginBegin, Deliver, LoseAnswer
  <2>3. CASE LoginFinish(u) \/ Resume(u) \/ Bootstrap(u) \/ Logout(u)
    BY <1>3, <2>1, <2>3 DEF LoginFinish, Resume, Bootstrap, Logout, Refused
  <2>. QED
    BY <2>1, <2>2, <2>3 DEF TabStep
<1>9. Logout(t)
  BY <1>1, <1>8 DEF TabStep, OpenPage, SubmitLogout, Send, LoginBegin, LoginFinish, Resume,
     Bootstrap, Deliver, LoseAnswer, At
<1>10. Refuse(t).ok = FALSE
  BY DEF Refuse, NoRequest
<1>11. ~Refused(t)
  BY <1>10 DEF Refused, Reply
<1>12. Authenticated(request[t].session) /\ request[t].csrf = request[t].session
  BY <1>9, <1>11 DEF Logout, HasCsrf
<1>. QED
  BY <1>1, <1>12 DEF Authenticated, Live, TokenOf

\* A request with a page's token is carried out for the account on that page
\* only, for any number of tabs that share the cookie and any order of their
\* answers (requireCsrf, and csrf_hash of each row).
THEOREM PagesKeepToTheirAccount == Spec => PagesActForTheirAccount
<1>1. Tokens /\ [Next]_vars =>
        [\A t \in Tabs : At(t, "logout") /\ request'[t].ok =>
              page[t].account = session[request[t].session]]_vars
  BY LogoutIsOfItsPage
<1>. QED
  BY <1>1, TokensStay, PTL DEF Spec, PagesActForTheirAccount

-----------------------------------------------------------------------------
(* The limits on failed logins *)

\* The logins being checked that may count for k.
Pending(k) == {t \in Tabs : request[t].at = "check" /\ k \in {request[t].account, Ip}}

\* Failures and logins being checked, together.
Within ==
    \A k \in Keys :
        failures[k] + Cardinality(Pending(k)) <= Limit(k) - 1 + Cardinality(Tabs)

\* No login but those of before is being checked, and none in tab t.
Quiet(t) ==
    \A u \in Tabs : request'[u].at = "check" =>
        u # t /\ request[u].at = "check" /\ request'[u].account = request[u].account

LEMMA Sizes ==
    /\ Cardinality(Tabs) \in Nat
    /\ \A k : /\ IsFiniteSet(Pending(k)) /\ Cardinality(Pending(k)) \in Nat
              /\ Cardinality(Pending(k)) <= Cardinality(Tabs)
    /\ \A k \in Keys : Limit(k) \in Nat \ {0}
<1>1. Cardinality(Tabs) \in Nat
  BY LimitAssumption, FS_CardinalityType
<1>2. \A k : /\ IsFiniteSet(Pending(k)) /\ Cardinality(Pending(k)) <= Cardinality(Tabs)
  <2>1. \A k : Pending(k) \subseteq Tabs
    BY DEF Pending
  <2>. QED
    BY <2>1, LimitAssumption, FS_Subset
<1>3. \A k : Cardinality(Pending(k)) \in Nat
  BY <1>2, FS_CardinalityType
<1>4. \A k \in Keys : Limit(k) \in Nat \ {0}
  BY LimitAssumption DEF Limit
<1>. QED
  BY <1>1, <1>2, <1>3, <1>4

LEMMA SizesNext ==
    \A k : /\ Cardinality(Pending(k)') \in Nat
           /\ Cardinality(Pending(k)') <= Cardinality(Tabs)
<1>1. \A k : Pending(k)' \subseteq Tabs
  BY DEF Pending
<1>. QED
  BY <1>1, LimitAssumption, FS_Subset, FS_CardinalityType

\* A smaller sum stays within the limit.
LEMMA Fewer ==
    ASSUME RowsOK, Within, NEW k \in Keys,
           Pending(k)' \subseteq Pending(k), failures'[k] \in Nat, failures'[k] <= failures[k]
    PROVE  failures'[k] + Cardinality(Pending(k)') <= Limit(k) - 1 + Cardinality(Tabs)
<1>1. Cardinality(Pending(k)') <= Cardinality(Pending(k))
  BY Sizes, FS_Subset
<1>2. failures[k] \in Nat
  BY DEF RowsOK
<1>3. failures[k] + Cardinality(Pending(k)) <= Limit(k) - 1 + Cardinality(Tabs)
  BY DEF Within
<1>. QED
  BY <1>1, <1>2, <1>3, Sizes, SizesNext

LEMMA QuietStep ==
    ASSUME Tokens, NEW t \in Tabs,
           \/ OpenPage(t) \/ SubmitLogout(t) \/ LoginFinish(t) \/ Resume(t) \/ Bootstrap(t)
           \/ Logout(t) \/ Deliver(t) \/ LoseAnswer(t)
    PROVE  Quiet(t)
<1>1. /\ \A u \in Tabs : request[u] \in Request
      /\ request \in [Tabs -> Request]
  BY DEF Tokens, TabsOK
<1>2. ASSUME NEW r, r.at # "check", request' = [request EXCEPT ![t] = r]
      PROVE  Quiet(t)
  BY <1>1, <1>2 DEF Quiet
<1>3. ASSUME NEW r, NEW S, r.at # "check", Reply(t, r, S)
      PROVE  Quiet(t)
  <2>1. \A u \in Tabs : request'[u] = IF u = t THEN r ELSE Without(request[u], S)
    BY <1>3 DEF Reply
  <2>2. \A u \in Tabs : /\ Without(request[u], S).at = request[u].at
                        /\ Without(request[u], S).account = request[u].account
    BY <1>1 DEF Without, Request
  <2>. QED
    BY <1>3, <2>1, <2>2 DEF Quiet
<1>4. ASSUME NEW r \in Request, Send(t, r)
      PROVE  Quiet(t)
  <2>1. [r EXCEPT !.at = "server"].at = "server"
    BY DEF Request
  <2>. QED
    BY <1>2, <1>4, <2>1 DEF Send
<1>5. CASE OpenPage(t)
  <2>1. PICK kind \in {"session", "bootstrap"} :
          Send(t, [NoRequest EXCEPT !.kind = kind, !.session = cookie])
    BY <1>5 DEF OpenPage
  <2>2. [NoRequest EXCEPT !.kind = kind, !.session = cookie] \in Request
    BY DEF NoRequest, Request, Kinds, Tokens, RowsOK
  <2>. QED
    BY <1>4, <2>1, <2>2
<1>6. CASE SubmitLogout(t)
  <2>1. page[t].csrf \in Sessions \cup {Stale, None}
    BY DEF Tokens, TabsOK, Page
  <2>2. [NoRequest EXCEPT !.kind = "logout", !.session = cookie, !.csrf = page[t].csrf]
            \in Request
    BY <2>1 DEF NoRequest, Request, Kinds, Tokens, RowsOK
  <2>. QED
    BY <1>4, <1>6, <2>2 DEF SubmitLogout
<1>7. CASE Deliver(t) \/ LoseAnswer(t)
  <2>1. NoRequest.at # "check"
    BY DEF NoRequest
  <2>. QED
    BY <1>2, <1>7, <2>1 DEF Deliver, LoseAnswer
<1>8. Refuse(t).at # "check" /\ \A s, k, a : Accept(t, s, k, a).at # "check"
  BY <1>1 DEF Refuse, Accept, NoRequest
<1>9. \/ LoginFinish(t) \/ Resume(t) \/ Bootstrap(t) \/ Logout(t)
      => \E r, S : r.at # "check" /\ Reply(t, r, S)
  BY <1>8 DEF LoginFinish, Resume, Bootstrap, Logout, Refused
<1>. QED
  BY <1>3, <1>5, <1>6, <1>7, <1>9

LEMMA QuietPending ==
    ASSUME NEW t \in Tabs, Quiet(t)
    PROVE  \A k : Pending(k)' \subseteq Pending(k) \ {t}
BY DEF Quiet, Pending

LEMMA LoginFinishWithin ==
    ASSUME Tokens, Within, NEW t \in Tabs, LoginFinish(t)
    PROVE  Within'
<1>. DEFINE n == request[t].account
<1>1. request[t].at = "check" /\ \A k : Pending(k)' \subseteq Pending(k) \ {t}
  BY QuietStep, QuietPending DEF LoginFinish
<1>. SUFFICES ASSUME NEW k \in Keys
              PROVE  failures'[k] + Cardinality(Pending(k)') <= Limit(k) - 1 + Cardinality(Tabs)
  BY DEF Within, Limit
<1>2. /\ failures[k] \in Nat
      /\ failures[k] + Cardinality(Pending(k)) <= Limit(k) - 1 + Cardinality(Tabs)
  BY DEF Within, Tokens, RowsOK
<1>3. CASE k \notin {n, Ip}
  <2>1. failures'[k] = failures[k]
    BY <1>2, <1>3 DEF LoginFinish, RecordLoginFailure, ClearLoginFailures
  <2>. QED
    BY <1>1, <1>2, <2>1, Fewer DEF Tokens
<1>4. CASE k \in {n, Ip} /\ RecordLoginFailure(n)
  <2>1. failures'[k] = failures[k] + 1
    BY <1>4 DEF RecordLoginFailure
  <2>2. t \in Pending(k)
    BY <1>1, <1>4 DEF Pending
  <2>3. /\ IsFiniteSet(Pending(k) \ {t})
        /\ Cardinality(Pending(k) \ {t}) = Cardinality(Pending(k)) - 1
    BY <2>2, Sizes, FS_RemoveElement
  <2>4. Cardinality(Pending(k)') <= Cardinality(Pending(k) \ {t})
    BY <1>1, <2>3, FS_Subset
  <2>. QED
    BY <1>2, <2>1, <2>3, <2>4, Sizes, SizesNext
<1>5. CASE k \in {n, Ip} /\ ClearLoginFailures(n)
  <2>1. failures'[k] = 0
    BY <1>5 DEF ClearLoginFailures
  <2>. QED
    BY <2>1, Sizes, SizesNext
<1>. QED
  BY <1>3, <1>4, <1>5 DEF LoginFinish

LEMMA LoginBeginWithin ==
    ASSUME Tokens, Within, NEW t \in Tabs, LoginBegin(t)
    PROVE  Within'
<1>1. PICK n \in Names, right \in BOOLEAN :
        LET login == [NoRequest EXCEPT !.kind = "login", !.account = n] IN
        /\ \/ request' = [request EXCEPT ![t] = [login EXCEPT !.at = "page"]]
           \/ /\ LoginAllowed(n)
              /\ request' = [request EXCEPT ![t] = [login EXCEPT !.at = "check", !.ok = right]]
        /\ UNCHANGED failures
  BY DEF LoginBegin
<1>. DEFINE login == [NoRequest EXCEPT !.kind = "login", !.account = n]
            refused == [login EXCEPT !.at = "page"]
            checked == [login EXCEPT !.at = "check", !.ok = right]
<1>2. refused.at = "page" /\ checked.at = "check" /\ checked.account = n
  BY DEF NoRequest
<1>3. \/ request' = [request EXCEPT ![t] = refused]
      \/ LoginAllowed(n) /\ request' = [request EXCEPT ![t] = checked]
  BY <1>1
<1>. HIDE DEF refused, checked, login
<1>. SUFFICES ASSUME NEW k \in Keys
              PROVE  failures'[k] + Cardinality(Pending(k)') <= Limit(k) - 1 + Cardinality(Tabs)
  BY DEF Within, Limit
<1>4. failures'[k] = failures[k] /\ failures[k] \in Nat
  BY <1>1 DEF Tokens, RowsOK
<1>5. CASE LoginAllowed(n) /\ k \in {n, Ip}
  <2>1. failures[k] < Limit(k)
    BY <1>5 DEF LoginAllowed
  <2>. QED
    BY <1>4, <2>1, Sizes, SizesNext
<1>6. CASE ~(LoginAllowed(n) /\ k \in {n, Ip})
  <2>1. Pending(k)' \subseteq Pending(k)
    BY <1>2, <1>3, <1>6 DEF Pending, Tokens, TabsOK
  <2>. QED
    BY <1>4, <2>1, Fewer DEF Tokens
<1>. QED
  BY <1>5, <1>6

LEMMA OtherTabWithin ==
    ASSUME Tokens, Within, NEW t \in Tabs, UNCHANGED failures,
           \/ OpenPage(t) \/ SubmitLogout(t) \/ Resume(t) \/ Bootstrap(t)
           \/ Logout(t) \/ Deliver(t) \/ LoseAnswer(t)
    PROVE  Within'
<1>1. \A k : Pending(k)' \subseteq Pending(k)
  BY QuietStep, QuietPending
<1>2. \A k \in Keys : failures'[k] \in Nat /\ failures'[k] = failures[k]
  BY DEF Tokens, RowsOK
<1>3. \A k \in Keys :
        failures'[k] + Cardinality(Pending(k)') <= Limit(k) - 1 + Cardinality(Tabs)
  BY <1>1, <1>2, Fewer DEF Tokens
<1>. QED
  BY <1>3 DEF Within, Limit

LEMMA OutsideWithin ==
    ASSUME Tokens, Within,
           \/ \E a \in Accounts : ManageAccount(a)
           \/ ProvisionAccounts
           \/ \E s \in Sessions : ExpireSession(s)
           \/ \E k \in Keys : WindowPasses(k)
           \/ UNCHANGED vars
    PROVE  Within'
<1>1. request' = request \/ \E S : request' = [u \in Tabs |-> Without(request[u], S)]
  BY DEF ManageAccount, ProvisionAccounts, ExpireSession, WindowPasses, End, vars
<1>2. \A u \in Tabs : request'[u].at = request[u].at /\ request'[u].account = request[u].account
  <2>1. \A u \in Tabs : request[u] \in Request
    BY DEF Tokens, TabsOK
  <2>2. \A u \in Tabs : \A S :
         /\ Without(request[u], S).at = request[u].at
         /\ Without(request[u], S).account = request[u].account
    BY <2>1 DEF Without, Request
  <2>. QED
    BY <1>1, <2>2
<1>3. \A k : Pending(k)' \subseteq Pending(k)
  BY <1>2 DEF Pending
<1>4. \A k \in Keys : failures'[k] \in Nat /\ failures'[k] <= failures[k]
  <2>1. CASE \E k \in Keys : WindowPasses(k)
    BY <2>1 DEF Tokens, RowsOK, WindowPasses
  <2>2. CASE UNCHANGED failures
    BY <2>2 DEF Tokens, RowsOK
  <2>. QED
    BY <2>1, <2>2 DEF ManageAccount, ProvisionAccounts, ExpireSession, vars
<1>5. \A k \in Keys :
        failures'[k] + Cardinality(Pending(k)') <= Limit(k) - 1 + Cardinality(Tabs)
  BY <1>3, <1>4, Fewer DEF Tokens
<1>. QED
  BY <1>5 DEF Within, Limit

\* The failures of a key never exceed its limit by more than the logins that
\* other tabs may have under way, for any limits, names and number of tabs
\* (requireLoginAllowed reads before the password check what recordLoginFailure
\* writes after it).
THEOREM FailuresStayLimited ==
    Spec => []FailuresAreLimited
<1>1. Init => Within
  <2>. SUFFICES ASSUME Init, NEW k \in Keys
                PROVE  failures[k] + Cardinality(Pending(k)) <= Limit(k) - 1 + Cardinality(Tabs)
    BY DEF Within
  <2>1. failures[k] = 0
    BY DEF Init
  <2>. QED
    BY <2>1, Sizes
<1>2. Tokens /\ Within /\ [Next]_vars => Within'
  <2>. SUFFICES ASSUME Tokens, Within, [Next]_vars PROVE Within'
    OBVIOUS
  <2>1. ASSUME NEW t \in Tabs, TabStep(t) PROVE Within'
    <3>1. CASE LoginBegin(t) \/ LoginFinish(t)
      BY <3>1, LoginBeginWithin, LoginFinishWithin
    <3>2. CASE \/ OpenPage(t) \/ SubmitLogout(t) \/ Resume(t) \/ Bootstrap(t)
               \/ Logout(t) \/ Deliver(t) \/ LoseAnswer(t)
      <4>1. UNCHANGED failures
        BY <3>2 DEF OpenPage, SubmitLogout, Send, Resume, Bootstrap, Logout, Deliver, LoseAnswer
      <4>. QED
        BY <3>2, <4>1, OtherTabWithin
    <3>. QED
      BY <2>1, <3>1, <3>2 DEF TabStep
  <2>. QED
    BY <2>1, OutsideWithin DEF Next
<1>3. Tokens /\ Within => FailuresAreLimited
  <2>. SUFFICES ASSUME Tokens, Within, NEW k \in Keys
                PROVE  failures[k] <= Limit(k) + Cardinality(Tabs) - 1
    BY DEF FailuresAreLimited
  <2>1. failures[k] + Cardinality(Pending(k)) <= Limit(k) - 1 + Cardinality(Tabs)
    BY DEF Within
  <2>2. failures[k] \in Nat
    BY DEF Tokens, RowsOK
  <2>. QED
    BY <2>1, <2>2, Sizes
<1>. QED
  BY <1>1, <1>2, <1>3, TokensStay, PTL DEF Spec
=============================================================================
