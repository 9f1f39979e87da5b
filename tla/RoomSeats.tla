------------------------------ MODULE RoomSeats ------------------------------
(***************************************************************************)
(* Who sits in the one active room: rooms, member rows, device leases, the *)
(* waiting queue and the account sessions that act on them                 *)
(* (apps/api/src/services/room-service.ts, the session part of             *)
(* auth-service.ts, and the HTTP and SSE handlers of app.ts that call      *)
(* them).  The API is one Node process over synchronous SQLite, so a       *)
(* handler is one step except where it awaits; the only await here is the  *)
(* password check inside login.  accounts:manage and accounts:provision    *)
(* are separate processes on the same database.                            *)
(*                                                                         *)
(* Abstractions.                                                           *)
(*  - seat[a] is the newest member row of account a in the active room;    *)
(*    left_at is split by the handler that set it ("left" by leave,        *)
(*    "released" by logout or account management).                         *)
(*  - ahead[a] stands for the order of queued_at: the accounts of the      *)
(*    unsuppressed rows that were queued before a.  queued_at is assumed   *)
(*    distinct (ties fall back to the account id in the code).             *)
(*  - a session that expired is never revoked or deleted, and no handler   *)
(*    tells two of them apart: rows that name one name Stale.  The id of   *)
(*    a session that no row names any more may be used again.              *)
(*  - media tokens, the outbox and sockets are the business of other       *)
(*    modules.                                                             *)
(***************************************************************************)
EXTENDS Naturals, FiniteSets

CONSTANTS
    Viewers,     \* the accounts with role "member"
    Host,        \* the one account with role "host"
    Sessions,    \* ids of account sessions, one per signed-in browser
    Stale,       \* the id of any session that has expired
    Rooms,       \* room ids
    MaxMembers,  \* rooms.max_members
    MaxVerifying,\* bound: logins that await their password check
    None         \* NULL, or no row

Accounts == Viewers \cup {Host}

ASSUME RosterAssumption ==
    /\ IsFiniteSet(Viewers)
    /\ Host \notin Viewers
    /\ MaxMembers \in Nat \ {0}

ASSUME IdAssumption ==
    /\ Stale \notin Sessions
    /\ None \notin Sessions \cup Rooms \cup Accounts \cup {Stale}

VARIABLES
    room,        \* the active room, or None
    seat,        \* each account's newest member row in the active room
    lease,       \* room_device_leases: the session that holds the account's seat
    owner,       \* account_sessions: the account of each valid session
    queued,      \* room_wait_queue.session_hash, None if the account has no row
    suppressed,  \* room_wait_queue.suppressed_room_id
    ahead,       \* the order of room_wait_queue.queued_at
    enabled,     \* accounts.enabled
    verifying    \* the accounts whose login is awaiting its password check

vars == <<room, seat, lease, owner, queued, suppressed, ahead, enabled, verifying>>

SeatStatus == {"none", "active", "left", "released", "kicked"}

\* Every column keeps its type: in particular a lease and a queue row hold a
\* session id, also after the handlers that write another account's row.
TypeOK ==
    /\ room \in Rooms \cup {None}
    /\ seat \in [Accounts -> SeatStatus]
    /\ lease \in [Accounts -> Sessions \cup {Stale, None}]
    /\ owner \in [Sessions -> Accounts \cup {None}]
    /\ queued \in [Accounts -> Sessions \cup {Stale, None}]
    /\ suppressed \in [Accounts -> Rooms \cup {None}]
    /\ ahead \in [Accounts -> SUBSET Accounts]
    /\ enabled \subseteq Accounts
    /\ verifying \subseteq Accounts

(***************************************************************************)
(* Views of the state                                                      *)
(***************************************************************************)

Seated == {a \in Accounts : seat[a] = "active"}

\* Mutant: the capacity test is off by one.
HasFreeSeatOffByOne == Cardinality(Seated) <= MaxMembers

HasFreeSeat == Cardinality(Seated) < MaxMembers

\* The rows that take part in the admission order.
Waiting == {a \in Accounts : queued[a] # None /\ suppressed[a] = None}

IsQueueHead(a) == a \in Waiting /\ ahead[a] = {}

\* AuthService.authenticate
Authenticated(s) == owner[s] # None /\ owner[s] \in enabled

\* RoomService.authenticate: a session that holds its account's seat.
HoldsSeat(s) ==
    /\ Authenticated(s)
    /\ room # None
    /\ seat[owner[s]] = "active"
    /\ lease[owner[s]] = s

Unused(s) ==
    /\ owner[s] = None
    /\ \A a \in Accounts : lease[a] # s /\ queued[a] # s

\* Mutant: rotation deletes the session and leaves the rows that name it.
RenamedNothing(f, s, t) == f

Renamed(f, s, t) == [a \in Accounts |-> IF f[a] = s THEN t ELSE f[a]]

(***************************************************************************)
(* The waiting queue                                                       *)
(***************************************************************************)

OutOfLine(A) == [b \in Accounts |-> IF b \in A THEN {} ELSE ahead[b] \ A]

\* DELETE FROM room_wait_queue for the accounts of A, the rows being Q.
Dequeue(A, Q) ==
    /\ queued' = [b \in Accounts |-> IF b \in A THEN None ELSE Q[b]]
    /\ suppressed' = [b \in Accounts |-> IF b \in A THEN None ELSE suppressed[b]]
    /\ ahead' = OutOfLine(A)

\* The upsert of leave and kickMember: no place in line until the room closes.
Suppress(a, s) ==
    /\ queued' = [queued EXCEPT ![a] = s]
    /\ suppressed' = [suppressed EXCEPT ![a] = room]
    /\ ahead' = OutOfLine({a})

\* Mutant: every poll refreshes queued_at.
EnqueueAtTheTail(a, s, r, Q) ==
    /\ queued' = [Q EXCEPT ![a] = s]
    /\ suppressed' = [suppressed EXCEPT ![a] = r]
    /\ ahead' = IF r = None THEN [OutOfLine({a}) EXCEPT ![a] = Waiting \ {a}]
                ELSE OutOfLine({a})

\* enqueueWaiting: a row whose suppression does not change keeps queued_at.
Enqueue(a, s, r, Q) ==
    /\ queued' = [Q EXCEPT ![a] = s]
    /\ suppressed' = [suppressed EXCEPT ![a] = r]
    /\ ahead' = IF Q[a] # None /\ suppressed[a] = r THEN ahead
                ELSE IF r = None THEN [OutOfLine({a}) EXCEPT ![a] = Waiting \ {a}]
                ELSE OutOfLine({a})

(***************************************************************************)
(* enterAccountRoom, called with the leases L and the queue sessions Q     *)
(* that the same request may just have renamed                             *)
(***************************************************************************)

\* Mutant: a kick counts only as long as its suppression row.
MustStayOutWhileQueued(a) ==
    /\ seat[a] \in {"kicked", "left", "released"}
    /\ queued[a] # None /\ suppressed[a] = room

\* Kicked from this room, or left it and still marked as having left.
MustStayOut(a) ==
    \/ seat[a] = "kicked"
    \/ seat[a] \in {"left", "released"} /\ queued[a] # None /\ suppressed[a] = room

MayJoin(a) ==
    /\ seat[a] # "active"
    /\ ~MustStayOut(a)

\* Another account is at the head of the line.
Overtakes(a) == \E b \in Accounts \ {a} : IsQueueHead(b)

Enter(a, s, force, L, Q) ==
    \/ /\ room = None
       /\ Enqueue(a, s, None, Q)
       /\ lease' = L
       /\ UNCHANGED seat
    \/ /\ room # None
       /\ MustStayOut(a)
       /\ Enqueue(a, s, room, Q)
       /\ lease' = L
       /\ UNCHANGED seat
    \/ /\ room # None
       /\ seat[a] = "active"
       /\ L[a] \notin {None, s} /\ ~force          \* answers "taken-over"
       /\ lease' = L
       /\ queued' = Q
       /\ UNCHANGED <<seat, suppressed, ahead>>
    \/ /\ room # None
       /\ seat[a] = "active"
       /\ L[a] \in {None, s} \/ force
       /\ lease' = [L EXCEPT ![a] = s]
       /\ Dequeue({a}, Q)
       /\ UNCHANGED seat
    \/ /\ room # None
       /\ a \in Viewers /\ MayJoin(a)              \* a host is refused here
       /\ Overtakes(a) \/ ~HasFreeSeat
       /\ Enqueue(a, s, None, Q)
       /\ lease' = L
       /\ UNCHANGED seat
    \/ /\ room # None
       /\ a \in Viewers /\ MayJoin(a)
       /\ ~Overtakes(a) /\ HasFreeSeat
       /\ seat' = [seat EXCEPT ![a] = "active"]
       /\ lease' = [L EXCEPT ![a] = s]
       /\ Dequeue({a}, Q)

(***************************************************************************)
(* Sessions: login, session resume, logout, expiry                         *)
(***************************************************************************)

\* login reads the account row, then awaits the password check.  Bounds: one
\* login of an account, and MaxVerifying logins, are in flight at a time.
LoginBegin(a) ==
    /\ a \in enabled
    /\ Cardinality(verifying) < MaxVerifying
    /\ verifying' = verifying \cup {a}
    /\ UNCHANGED <<room, seat, lease, owner, queued, suppressed, ahead, enabled>>

\* login's second half inserts the session; the handler then authenticates it
\* and, for a viewer, takes the seat over.
LoginFinish(a, s) ==
    /\ a \in verifying
    /\ Unused(s)
    /\ verifying' = verifying \ {a}
    /\ owner' = [owner EXCEPT ![s] = a]
    /\ \/ /\ a \in enabled /\ a \in Viewers
          /\ Enter(a, s, TRUE, lease, queued)
       \/ /\ a \notin enabled \/ a = Host
          /\ UNCHANGED <<seat, lease, queued, suppressed, ahead>>
    /\ UNCHANGED <<room, enabled>>

\* getAccountRoomState: GET /auth/session with a token younger than a day, and
\* each event of an open /lobby/events stream.
PollRoom(s) ==
    /\ Authenticated(s) /\ owner[s] \in Viewers
    /\ Enter(owner[s], s, FALSE, lease, queued)
    /\ UNCHANGED <<room, owner, enabled, verifying>>

\* GET /auth/session with an older token: a new session row t takes over the
\* queue row and the lease, the old row is deleted, and t enters.
ResumeRotated(s, t) ==
    /\ Authenticated(s)
    /\ Unused(t)
    /\ owner' = [owner EXCEPT ![s] = None, ![t] = owner[s]]
    /\ \/ /\ owner[s] \in Viewers
          /\ Enter(owner[s], t, FALSE, Renamed(lease, s, t), Renamed(queued, s, t))
       \/ /\ owner[s] = Host
          /\ lease' = Renamed(lease, s, t)
          /\ queued' = Renamed(queued, s, t)
          /\ UNCHANGED <<seat, suppressed, ahead>>
    /\ UNCHANGED <<room, enabled, verifying>>

\* releaseAccountSession, then logout.
Logout(s) ==
    LET a == owner[s]
        Mine == {b \in Accounts : queued[b] = s}
    IN  /\ Authenticated(s)
        /\ seat' = IF lease[a] = s /\ a \in Viewers
                   THEN [seat EXCEPT ![a] = "released"] ELSE seat
        /\ lease' = Renamed(lease, s, None)
        /\ owner' = [owner EXCEPT ![s] = None]
        /\ Dequeue(Mine, queued)
        /\ UNCHANGED <<room, enabled, verifying>>

\* The idle or the absolute limit passes: nothing is written anywhere.
ExpireSession(s) ==
    /\ owner[s] # None
    /\ owner' = [owner EXCEPT ![s] = None]
    /\ lease' = Renamed(lease, s, Stale)
    /\ queued' = Renamed(queued, s, Stale)
    /\ UNCHANGED <<room, seat, suppressed, ahead, enabled, verifying>>

\* POST /room/enter and /room/takeover; the host uses only the second.
EnterRoom(s) ==
    /\ Authenticated(s)
    /\ Enter(owner[s], s, TRUE, lease, queued)
    /\ UNCHANGED <<room, owner, enabled, verifying>>

(***************************************************************************)
(* Rooms and members                                                       *)
(***************************************************************************)

CreateAccountRoom(s, r) ==
    /\ Authenticated(s) /\ owner[s] = Host
    /\ room = None                                 \* else ACTIVE_ROOM_EXISTS
    /\ \A a \in Accounts : suppressed[a] # r       \* a fresh id
    /\ room' = r
    /\ seat' = [a \in Accounts |-> IF a = Host THEN "active" ELSE "none"]
    /\ lease' = [lease EXCEPT ![Host] = s]
    /\ Dequeue({Host}, queued)
    /\ UNCHANGED <<owner, enabled, verifying>>

\* Mutant: closing the room leaves the waiting queue alone.
EmptyRoomKeepingQueue ==
    /\ room' = None
    /\ seat' = [a \in Accounts |-> "none"]
    /\ lease' = [a \in Accounts |-> None]
    /\ UNCHANGED <<queued, suppressed, ahead>>

\* The rows of the room that is no longer active, and its waiting queue.
EmptyRoom ==
    /\ room' = None
    /\ seat' = [a \in Accounts |-> "none"]
    /\ lease' = [a \in Accounts |-> None]
    /\ Dequeue(Accounts, queued)

\* closeRoomInternal, from the console or from the host's seat.
CloseRoom(s) ==
    /\ Authenticated(s) /\ owner[s] = Host
    /\ room # None
    /\ EmptyRoom
    /\ UNCHANGED <<owner, enabled, verifying>>

Leave(s) ==
    /\ HoldsSeat(s) /\ owner[s] \in Viewers        \* else HOST_MUST_CLOSE
    /\ seat' = [seat EXCEPT ![owner[s]] = "left"]
    /\ lease' = [lease EXCEPT ![owner[s]] = None]
    /\ Suppress(owner[s], s)
    /\ UNCHANGED <<room, owner, enabled, verifying>>

\* The queue row names the target's session seen last, which may have expired.
KickMember(s, v) ==
    /\ HoldsSeat(s) /\ owner[s] = Host
    /\ seat[v] = "active"                          \* else 404
    /\ seat' = [seat EXCEPT ![v] = "kicked"]
    /\ lease' = [lease EXCEPT ![v] = None]
    /\ \E t \in {u \in Sessions : owner[u] = v} \cup {Stale} : Suppress(v, t)
    /\ UNCHANGED <<room, owner, enabled, verifying>>

(***************************************************************************)
(* The account CLIs                                                        *)
(***************************************************************************)

SessionsWithout(A) ==
    [s \in Sessions |-> IF owner[s] \in A THEN None ELSE owner[s]]

\* Mutant: the host's member row is released as well.
ManageAnyAccount(a, on) ==
    /\ enabled' = IF on THEN enabled \cup {a} ELSE enabled \ {a}
    /\ owner' = SessionsWithout({a})
    /\ lease' = [lease EXCEPT ![a] = None]
    /\ seat' = IF seat[a] = "active" THEN [seat EXCEPT ![a] = "released"] ELSE seat
    /\ Dequeue({a}, queued)
    /\ UNCHANGED <<room, verifying>>

\* A new password, or enabling or disabling the account (on).
ManageAccount(a, on) ==
    /\ enabled' = IF on THEN enabled \cup {a} ELSE enabled \ {a}
    /\ owner' = SessionsWithout({a})
    /\ lease' = [lease EXCEPT ![a] = None]
    /\ seat' = IF seat[a] = "active" /\ a \in Viewers
               THEN [seat EXCEPT ![a] = "released"] ELSE seat
    /\ Dequeue({a}, queued)
    /\ UNCHANGED <<room, verifying>>

ProvisionAccounts ==
    /\ enabled' = Accounts
    /\ owner' = SessionsWithout(Accounts)
    /\ EmptyRoom
    /\ UNCHANGED verifying

(***************************************************************************)
(* The specification                                                       *)
(***************************************************************************)

\* The database as accounts:provision leaves it.
Init ==
    /\ room = None
    /\ seat = [a \in Accounts |-> "none"]
    /\ lease = [a \in Accounts |-> None]
    /\ owner = [s \in Sessions |-> None]
    /\ queued = [a \in Accounts |-> None]
    /\ suppressed = [a \in Accounts |-> None]
    /\ ahead = [a \in Accounts |-> {}]
    /\ enabled = Accounts
    /\ verifying = {}

Next ==
    \/ \E a \in Accounts : LoginBegin(a)
    \/ \E a \in Accounts, s \in Sessions : LoginFinish(a, s)
    \/ \E s \in Sessions : PollRoom(s)
    \/ \E s, t \in Sessions : ResumeRotated(s, t)
    \/ \E s \in Sessions : Logout(s)
    \/ \E s \in Sessions : ExpireSession(s)
    \/ \E s \in Sessions : EnterRoom(s)
    \/ \E s \in Sessions, r \in Rooms : CreateAccountRoom(s, r)
    \/ \E s \in Sessions : CloseRoom(s)
    \/ \E s \in Sessions : Leave(s)
    \/ \E s \in Sessions, v \in Viewers : KickMember(s, v)
    \/ \E a \in Accounts, on \in BOOLEAN : ManageAccount(a, on)
    \/ ProvisionAccounts

Spec == Init /\ [][Next]_vars

(***************************************************************************)
(* What must hold                                                          *)
(***************************************************************************)

\* enterAccountRoom counts and inserts in one transaction: whatever mix of
\* logins, polls, kicks and re-entries happens, the room never holds more
\* active members than rooms.max_members, the host's seat included.
SeatsWithinCapacity == Cardinality(Seated) <= MaxMembers

\* The host cannot leave, be kicked or be released: as long as a room is
\* active its host member is active, so the room can always be run and closed.
HostKeepsSeat == room # None => seat[Host] = "active"

\* Leases and seats go together through takeover, rotation, logout, kick,
\* leave, close and account management: a lease is only ever on an active
\* seat and names a session of the same account that was not revoked, and a
\* viewer's active seat always has one (the host's may be without a device).
LeaseFollowsSeat ==
    \A a \in Accounts :
        /\ lease[a] # None => /\ seat[a] = "active"
                              /\ lease[a] = Stale \/ owner[lease[a]] = a
        /\ seat[a] = "active" /\ a \in Viewers => lease[a] # None

\* A queue row never outlives what it is about: its account has no seat, its
\* session is one of the account's own and not revoked, and a suppression
\* names the active room and an account that left it or was removed from it.
QueueRowsAreCurrent ==
    \A a \in Accounts :
        /\ queued[a] # None => /\ seat[a] # "active"
                               /\ queued[a] = Stale \/ owner[queued[a]] = a
        /\ suppressed[a] # None => /\ queued[a] # None
                                   /\ suppressed[a] = room
                                   /\ seat[a] \in {"left", "kicked"}

\* kickMember is for the rest of the room's life: no later login, takeover,
\* rotation, logout or password change brings a kicked member back to it.
KickedStaysOut ==
    [][\A a \in Accounts :
          seat[a] = "kicked" /\ room' = room => seat'[a] = "kicked"]_vars

\* First come, first served: nobody gets in front of an account that keeps
\* waiting, and a seat never goes to one that has somebody in front of it.
NoOvertaking ==
    [][\A a \in Waiting :
          /\ a \in Waiting' => ahead'[a] \subseteq ahead[a]
          /\ \A b \in Seated' \ Seated :
                room' = room /\ b # a /\ b # Host =>
                    b \in Waiting /\ a \notin ahead[b]]_vars
=============================================================================
