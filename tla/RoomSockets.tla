----------------------------- MODULE RoomSockets -----------------------------
(***************************************************************************)
(* RoomSeats with the room's WebSockets (registerWebSocketRoute in app.ts  *)
(* and room-hub.ts).  A socket authenticates once, when it is opened, and  *)
(* keeps the member id it got then; afterwards only hub.closeMember,       *)
(* hub.closeRoom, the heartbeat and the browser close it.  The hub lives   *)
(* in the API process, out of reach of the account CLIs.                   *)
(***************************************************************************)
EXTENDS RoomSeats

CONSTANT MaxSockets    \* bound: sockets open at a time

VARIABLE sockets       \* the open sockets

socketVars == <<vars, sockets>>

\* by: the session that opened it.  row: whether its member id is the newest
\* member row of the account in the active room, an older one, or a row of a
\* room that has been closed.
Socket == [by : Sessions \cup {Stale}, account : Accounts, row : {"newest", "older", "closed"}]

\* What the hub keeps of a connection is of this form.
SocketTypeOK == sockets \subseteq Socket

SocketInit == Init /\ sockets = {}

SocketsOf(a) == {k \in sockets : k.account = a /\ k.row = "newest"}
InRoom == {k \in sockets : k.row # "closed"}

\* Mutant: a connection is looked up by its account, whatever row that has now.
RowLookedUp(k) ==
    IF room' # room THEN "closed"
    ELSE IF k.account \in Seated' THEN "newest"
    ELSE k.row

RowAfter(k) ==
    IF room' # room THEN "closed"
    ELSE IF k.row = "newest" /\ k.account \in Seated' \ Seated THEN "older"
    ELSE k.row

ByAfter(k, s, t) ==
    IF k.by = s THEN t
    ELSE IF k.by \in Sessions /\ owner'[k.by] # owner[k.by] THEN Stale
    ELSE k.by

\* The sockets of K stay open over this step; rotation renames s to t.
Keep(K, s, t) ==
    sockets' = {[k EXCEPT !.by = ByAfter(k, s, t), !.row = RowAfter(k)] : k \in K}

\* The upgrade request: authenticated like every other room request.
OpenSocket(s) ==
    /\ HoldsSeat(s)
    /\ Cardinality(sockets) < MaxSockets
    /\ sockets' = sockets \cup {[by |-> s, account |-> owner[s], row |-> "newest"]}
    /\ UNCHANGED vars

\* The browser goes away, or the heartbeat finds it gone.
CloseSocket(k) ==
    /\ k \in sockets
    /\ sockets' = sockets \ {k}
    /\ UNCHANGED vars

\* enterAccountRoom returned tookOverSessionHash.
TakesOver(s) ==
    /\ room # None
    /\ seat[owner[s]] = "active"
    /\ lease[owner[s]] \notin {None, s}

\* The requests whose route closes sockets.
EnterRoomAndClose(s) ==
    /\ EnterRoom(s)
    /\ Keep(IF TakesOver(s) THEN sockets \ SocketsOf(owner[s]) ELSE sockets, None, None)

\* Mutant: leaving does not close the member's sockets.
LeaveOnly(s) == Leave(s) /\ Keep(sockets, None, None)

LeaveAndClose(s) ==
    /\ Leave(s)
    /\ Keep(sockets \ SocketsOf(owner[s]), None, None)

KickAndClose(s, v) ==
    /\ KickMember(s, v)
    /\ Keep(sockets \ SocketsOf(v), None, None)

CloseRoomAndSockets(s) ==
    /\ CloseRoom(s)
    /\ Keep(sockets \ InRoom, None, None)

\* The requests and the CLIs that leave every socket open.
OtherStep ==
    \/ /\ \/ \E a \in Accounts : LoginBegin(a)
          \/ \E a \in Accounts, s \in Sessions : LoginFinish(a, s)
          \/ \E s \in Sessions : PollRoom(s) \/ Logout(s) \/ ExpireSession(s)
          \/ \E s \in Sessions, r \in Rooms : CreateAccountRoom(s, r)
          \/ \E a \in Accounts, on \in BOOLEAN : ManageAccount(a, on)
          \/ ProvisionAccounts
       /\ Keep(sockets, None, None)
    \/ \E s, t \in Sessions : ResumeRotated(s, t) /\ Keep(sockets, s, t)

SocketNext ==
    \/ \E s \in Sessions : OpenSocket(s)
    \/ \E k \in sockets : CloseSocket(k)
    \/ \E s \in Sessions : EnterRoomAndClose(s)
    \/ \E s \in Sessions : LeaveAndClose(s)
    \/ \E s \in Sessions, v \in Viewers : KickAndClose(s, v)
    \/ \E s \in Sessions : CloseRoomAndSockets(s)
    \/ OtherStep

SocketSpec == SocketInit /\ [][SocketNext]_socketVars

\* What becomes of an open socket without a new upgrade: its session is renamed
\* by a rotation or ends, and its member row is replaced or its room closed.
Rank(row) == CASE row = "newest" -> 2 [] row = "older" -> 1 [] row = "closed" -> 0
ComesFrom(k, old) ==
    /\ k.account = old.account
    /\ Rank(k.row) <= Rank(old.row)
    /\ k.row = "newest" => k.account \notin Seated' \ Seated

\* An open socket stays with the account whose session opened it, through every
\* rename, revocation and expiry of that session, and nothing but an upgrade by
\* the session that holds the account's seat puts it on the account's newest
\* member row: whoever left, was released or was removed does not come back to
\* the room over an old connection when the account enters again.
SocketsKeepTheirOwner ==
    [][\A k \in sockets' :
          /\ k.by = Stale \/ owner'[k.by] = k.account
          /\ \/ \E old \in sockets : ComesFrom(k, old)
             \/ k.by \in Sessions /\ HoldsSeat(k.by) /\ k.account = owner[k.by]]_socketVars

\* A member that left or was removed is off the air at once and stays off: no
\* socket of that member row is open until the account gets a new row.
RemovedMemberIsOff ==
    \A a \in Accounts : seat[a] \in {"left", "kicked"} => SocketsOf(a) = {}
=============================================================================
