--------------------------- MODULE RoomSeats_proofs ---------------------------
(***************************************************************************)
(* Proofs about RoomSeats, RoomSockets and RoomLobby, for any roster, any  *)
(* number of browsers and any room size.  The inductive invariant of the   *)
(* seats joins the invariants that the runs check; none of its parts is    *)
(* inductive alone, because enterAccountRoom reads the member row, the     *)
(* lease and the queue row of an account together.  The order of the line  *)
(* and the sockets come after it, each with an invariant of its own.       *)
(***************************************************************************)
EXTENDS RoomSockets, RoomLobby, FiniteSetTheorems, WellFoundedInduction, TLAPS

USE IdAssumption DEF Accounts

\* Without an active room nobody has a member row in it.
EmptyWithoutRoom == room = None => \A a \in Accounts : seat[a] = "none"

RowsInv == EmptyWithoutRoom /\ HostKeepsSeat /\ LeaseFollowsSeat /\ QueueRowsAreCurrent

Inv == TypeOK /\ RowsInv

\* The part of RowsInv that names sessions, for leases L and queue sessions Q
\* that a request may have renamed, and the session owners O it leaves behind.
NamesOwn(L, Q, O) ==
    \A b \in Accounts :
        /\ L[b] \in Sessions \cup {Stale, None}
        /\ Q[b] \in Sessions \cup {Stale, None}
        /\ L[b] = None <=> lease[b] = None
        /\ Q[b] = None <=> queued[b] = None
        /\ L[b] \in Sessions => O[L[b]] = b
        /\ Q[b] \in Sessions => O[Q[b]] = b

\* Before a request names another session, the tables satisfy NamesOwn.
LEMMA InvNamesOwn == Inv => NamesOwn(lease, queued, owner)
  BY DEF Inv, TypeOK, RowsInv, LeaseFollowsSeat, QueueRowsAreCurrent, NamesOwn

\* enterAccountRoom keeps the member rows, the leases and the queue rows in
\* step, whoever calls it.
LEMMA EnterKeepsInv ==
  ASSUME Inv,
         NEW a \in Accounts, NEW s \in Sessions, NEW force \in BOOLEAN,
         NEW L, NEW Q,
         L \in [Accounts -> Sessions \cup {Stale, None}],
         Q \in [Accounts -> Sessions \cup {Stale, None}],
         owner' \in [Sessions -> Accounts \cup {None}],
         owner'[s] = a,
         NamesOwn(L, Q, owner'),
         Enter(a, s, force, L, Q),
         room' = room, enabled' = enabled, verifying' \subseteq Accounts
  PROVE  Inv'
<1> USE DEF Inv, TypeOK, RowsInv, EmptyWithoutRoom, HostKeepsSeat, LeaseFollowsSeat,
            QueueRowsAreCurrent, NamesOwn, SeatStatus
<1>1. CASE room = None /\ Enqueue(a, s, None, Q) /\ lease' = L /\ UNCHANGED seat
  BY <1>1 DEF Enqueue, OutOfLine, Waiting
<1>2. CASE /\ room # None /\ MustStayOut(a) /\ Enqueue(a, s, room, Q)
           /\ lease' = L /\ UNCHANGED seat
  BY <1>2 DEF Enqueue, OutOfLine, MustStayOut, Waiting
<1>3. CASE /\ room # None /\ seat[a] = "active" /\ lease' = L /\ queued' = Q
           /\ UNCHANGED <<seat, suppressed, ahead>>
  BY <1>3
<1>4. CASE /\ room # None /\ seat[a] = "active" /\ lease' = [L EXCEPT ![a] = s]
           /\ Dequeue({a}, Q) /\ UNCHANGED seat
  BY <1>4 DEF Dequeue, OutOfLine
<1>5. CASE /\ room # None /\ MayJoin(a) /\ Enqueue(a, s, None, Q)
           /\ lease' = L /\ UNCHANGED seat
  BY <1>5 DEF Enqueue, OutOfLine, MayJoin, Waiting
<1>6. CASE /\ room # None /\ a \in Viewers /\ MayJoin(a)
           /\ seat' = [seat EXCEPT ![a] = "active"]
           /\ lease' = [L EXCEPT ![a] = s] /\ Dequeue({a}, Q)
  BY <1>6 DEF Dequeue, OutOfLine, MayJoin
<1> HIDE DEF Inv
<1> QED
  BY <1>1, <1>2, <1>3, <1>4, <1>5, <1>6 DEF Enter

\* The sessions: login, resume, rotation, logout and expiry.
LEMMA SessionsKeepInv ==
  ASSUME Inv,
         \/ \E a \in Accounts : LoginBegin(a)
         \/ \E a \in Accounts, s \in Sessions : LoginFinish(a, s)
         \/ \E s, t \in Sessions : ResumeRotated(s, t)
         \/ \E s \in Sessions : PollRoom(s) \/ EnterRoom(s) \/ Logout(s) \/ ExpireSession(s)
  PROVE  Inv'
<1> USE DEF Inv, TypeOK
<1>1. ASSUME NEW a \in Accounts, LoginBegin(a) PROVE Inv'
  BY <1>1 DEF LoginBegin, RowsInv, EmptyWithoutRoom, HostKeepsSeat, LeaseFollowsSeat,
              QueueRowsAreCurrent
<1>2. ASSUME NEW a \in Accounts, NEW s \in Sessions, LoginFinish(a, s) PROVE Inv'
  <2>1. /\ owner' \in [Sessions -> Accounts \cup {None}] /\ owner'[s] = a
        /\ verifying' \subseteq Accounts /\ room' = room /\ enabled' = enabled
    BY <1>2 DEF LoginFinish
  <2>2. NamesOwn(lease, queued, owner')
    BY <1>2, InvNamesOwn DEF LoginFinish, Unused, NamesOwn
  <2>3. CASE Enter(a, s, TRUE, lease, queued)
    BY <2>1, <2>2, <2>3, EnterKeepsInv
  <2>4. CASE UNCHANGED <<seat, lease, queued, suppressed, ahead>>
    BY <2>1, <2>2, <2>4 DEF RowsInv, EmptyWithoutRoom, HostKeepsSeat, LeaseFollowsSeat,
                            QueueRowsAreCurrent, NamesOwn
  <2> QED
    BY <1>2, <2>3, <2>4 DEF LoginFinish
<1>3. ASSUME NEW s \in Sessions, PollRoom(s) \/ EnterRoom(s) PROVE Inv'
  <2>1. /\ owner' = owner /\ owner[s] \in Accounts
        /\ verifying' = verifying /\ room' = room /\ enabled' = enabled
    BY <1>3 DEF PollRoom, EnterRoom, Authenticated
  <2>2. /\ owner' \in [Sessions -> Accounts \cup {None}] /\ owner'[s] = owner[s]
        /\ lease \in [Accounts -> Sessions \cup {Stale, None}]
        /\ queued \in [Accounts -> Sessions \cup {Stale, None}]
        /\ verifying' \subseteq Accounts
    BY <2>1
  <2>3. NamesOwn(lease, queued, owner')
    BY <2>1, InvNamesOwn DEF NamesOwn
  <2>4. CASE Enter(owner[s], s, FALSE, lease, queued)
    BY <2>1, <2>2, <2>3, <2>4, EnterKeepsInv
  <2>5. CASE Enter(owner[s], s, TRUE, lease, queued)
    BY <2>1, <2>2, <2>3, <2>5, EnterKeepsInv
  <2> QED
    BY <1>3, <2>4, <2>5 DEF PollRoom, EnterRoom
<1>4. ASSUME NEW s \in Sessions, NEW t \in Sessions, ResumeRotated(s, t) PROVE Inv'
  <2> DEFINE L == Renamed(lease, s, t)
             Q == Renamed(queued, s, t)
  <2>1. /\ owner' \in [Sessions -> Accounts \cup {None}] /\ owner'[t] = owner[s]
        /\ owner[s] \in Accounts
        /\ verifying' = verifying /\ room' = room /\ enabled' = enabled
    BY <1>4 DEF ResumeRotated, Authenticated
  <2>2. /\ L \in [Accounts -> Sessions \cup {Stale, None}]
        /\ Q \in [Accounts -> Sessions \cup {Stale, None}]
    BY DEF Renamed
  <2>3. NamesOwn(L, Q, owner')
    BY <1>4, InvNamesOwn DEF ResumeRotated, Renamed, NamesOwn, Unused
  <2>4. CASE Enter(owner[s], t, FALSE, L, Q)
    <3> HIDE DEF L, Q
    <3> QED
      BY <2>1, <2>2, <2>3, <2>4, EnterKeepsInv
  <2>5. CASE lease' = L /\ queued' = Q /\ UNCHANGED <<seat, suppressed, ahead>>
    <3> HIDE DEF L, Q
    <3> QED
      BY <2>1, <2>2, <2>3, <2>5 DEF RowsInv, EmptyWithoutRoom, HostKeepsSeat,
                                    LeaseFollowsSeat, QueueRowsAreCurrent, NamesOwn
  <2> QED
    BY <1>4, <2>4, <2>5 DEF ResumeRotated
<1>5. ASSUME NEW s \in Sessions, Logout(s) PROVE Inv'
  <2> DEFINE a == owner[s]
  <2>1. /\ a \in Accounts /\ s # None
        /\ \A b \in Accounts : (lease[b] = s \/ queued[b] = s) => b = a
    BY <1>5, InvNamesOwn, RosterAssumption DEF Logout, Authenticated, NamesOwn
  <2>2. /\ UNCHANGED <<room, enabled, verifying>>
        /\ owner' = [owner EXCEPT ![s] = None]
        /\ lease' = [b \in Accounts |-> IF lease[b] = s THEN None ELSE lease[b]]
        /\ queued' = [b \in Accounts |-> IF queued[b] = s THEN None ELSE queued[b]]
        /\ suppressed' = [b \in Accounts |-> IF queued[b] = s THEN None ELSE suppressed[b]]
        /\ ahead' \in [Accounts -> SUBSET Accounts]
    BY <1>5 DEF Logout, Dequeue, OutOfLine, Renamed
  <2>3. \/ /\ lease[a] = s /\ a \in Viewers
           /\ seat' = [seat EXCEPT ![a] = "released"]
        \/ ~ (lease[a] = s /\ a \in Viewers) /\ seat' = seat
    BY <1>5 DEF Logout
  <2> HIDE DEF a
  <2>4. TypeOK'
    BY <2>1, <2>2, <2>3 DEF SeatStatus
  <2>5. RowsInv'
    BY <2>1, <2>2, <2>3, RosterAssumption
    DEF RowsInv, EmptyWithoutRoom, HostKeepsSeat, LeaseFollowsSeat, QueueRowsAreCurrent
  <2> QED BY <2>4, <2>5
<1>6. ASSUME NEW s \in Sessions, ExpireSession(s) PROVE Inv'
  BY <1>6 DEF ExpireSession, Renamed, RowsInv, EmptyWithoutRoom, HostKeepsSeat,
              LeaseFollowsSeat, QueueRowsAreCurrent
<1> HIDE DEF Inv
<1> QED
  BY <1>1, <1>2, <1>3, <1>4, <1>5, <1>6

\* Rooms, members and the account CLIs.
LEMMA RoomsKeepInv ==
  ASSUME Inv,
         \/ \E s \in Sessions, r \in Rooms : CreateAccountRoom(s, r)
         \/ \E s \in Sessions : CloseRoom(s) \/ Leave(s)
         \/ \E s \in Sessions, v \in Viewers : KickMember(s, v)
         \/ \E a \in Accounts, on \in BOOLEAN : ManageAccount(a, on)
         \/ ProvisionAccounts
  PROVE  Inv'
<1> USE DEF Inv, TypeOK, RowsInv, EmptyWithoutRoom, HostKeepsSeat, LeaseFollowsSeat,
            QueueRowsAreCurrent, SeatStatus
<1>1. ASSUME NEW s \in Sessions, NEW r \in Rooms, CreateAccountRoom(s, r) PROVE Inv'
  BY <1>1 DEF CreateAccountRoom, Authenticated, Dequeue, OutOfLine
<1>2. ASSUME NEW s \in Sessions, CloseRoom(s) PROVE Inv'
  BY <1>2 DEF CloseRoom, EmptyRoom, Dequeue, OutOfLine
<1>3. ASSUME NEW s \in Sessions, Leave(s) PROVE Inv'
  BY <1>3, RosterAssumption DEF Leave, HoldsSeat, Authenticated, Suppress, OutOfLine
<1>4. ASSUME NEW s \in Sessions, NEW v \in Viewers, KickMember(s, v) PROVE Inv'
  BY <1>4, RosterAssumption DEF KickMember, HoldsSeat, Suppress, OutOfLine
<1>5. ASSUME NEW a \in Accounts, NEW on \in BOOLEAN, ManageAccount(a, on) PROVE Inv'
  BY <1>5, RosterAssumption DEF ManageAccount, SessionsWithout, Dequeue, OutOfLine
<1>6. CASE ProvisionAccounts
  BY <1>6 DEF ProvisionAccounts, SessionsWithout, EmptyRoom, Dequeue, OutOfLine
<1> HIDE DEF Inv
<1> QED
  BY <1>1, <1>2, <1>3, <1>4, <1>5, <1>6

LEMMA InitInv == Init => Inv
  BY DEF Init, Inv, TypeOK, RowsInv, EmptyWithoutRoom, HostKeepsSeat, LeaseFollowsSeat,
         QueueRowsAreCurrent, SeatStatus

LEMMA NextInv == Inv /\ [Next]_vars => Inv'
<1>1. CASE Next
  BY <1>1, SessionsKeepInv, RoomsKeepInv DEF Next
<1>2. CASE UNCHANGED vars
  BY <1>2 DEF vars, Inv, TypeOK, RowsInv, EmptyWithoutRoom, HostKeepsSeat,
              LeaseFollowsSeat, QueueRowsAreCurrent
<1> QED
  BY <1>1, <1>2

LEMMA SpecInv == Spec => []Inv
  BY InitInv, NextInv, PTL DEF Spec

\* Every table of the room service keeps its columns' types, whatever the
\* roster: no handler stores an account where a session belongs.
THEOREM TypeCorrect == Spec => []TypeOK
  BY SpecInv, PTL DEF Inv

\* The host keeps its member row as long as the room is active: no handler
\* and no account CLI can leave an active room without its host.
THEOREM HostIsSeated == Spec => []HostKeepsSeat
  BY SpecInv, PTL DEF Inv, RowsInv

\* Leases and seats go together through takeover, rotation, logout, expiry,
\* kick, leave, close and account management.
THEOREM LeasesFollowSeats == Spec => []LeaseFollowsSeat
  BY SpecInv, PTL DEF Inv, RowsInv

\* No queue row outlives its reason, and suppressions name the active room.
THEOREM QueueIsCurrent == Spec => []QueueRowsAreCurrent
  BY SpecInv, PTL DEF Inv, RowsInv

(***************************************************************************)
(* Capacity.  The only step that seats somebody in an active room is the   *)
(* last branch of enterAccountRoom, one account at a time and after the    *)
(* count; a new room starts with the host alone.                           *)
(***************************************************************************)

SeatsOneAtATime ==
    \/ Seated' \subseteq Seated
    \/ HasFreeSeat /\ \E a \in Accounts : Seated' \subseteq Seated \cup {a}
    \/ Seated' \subseteq {Host}

\* enterAccountRoom adds at most its own account, if a seat is free.
LEMMA EnterSeatsOne ==
  ASSUME TypeOK, NEW a \in Accounts, NEW s, NEW force, NEW L, NEW Q,
         Enter(a, s, force, L, Q)
  PROVE  SeatsOneAtATime
<1>1. CASE UNCHANGED seat
  BY <1>1 DEF SeatsOneAtATime, Seated
<1>2. CASE HasFreeSeat /\ seat' = [seat EXCEPT ![a] = "active"]
  BY <1>2 DEF SeatsOneAtATime, Seated, TypeOK
<1> QED
  BY <1>1, <1>2 DEF Enter

\* So does every step.
LEMMA StepSeatsOne == TypeOK /\ [Next]_vars => SeatsOneAtATime
<1> SUFFICES ASSUME TypeOK, [Next]_vars PROVE SeatsOneAtATime
  OBVIOUS
<1>1. CASE UNCHANGED seat
  BY <1>1 DEF SeatsOneAtATime, Seated
<1>2. ASSUME NEW a \in Accounts, NEW s \in Sessions, LoginFinish(a, s)
      PROVE  SeatsOneAtATime
  BY <1>1, <1>2, EnterSeatsOne DEF LoginFinish
<1>3. ASSUME NEW s \in Sessions, PollRoom(s) PROVE SeatsOneAtATime
  BY <1>3, EnterSeatsOne DEF PollRoom
<1>4. ASSUME NEW s \in Sessions, EnterRoom(s) PROVE SeatsOneAtATime
  BY <1>4, EnterSeatsOne DEF EnterRoom, Authenticated, TypeOK
<1>5. ASSUME NEW s \in Sessions, NEW t \in Sessions, ResumeRotated(s, t)
      PROVE  SeatsOneAtATime
  BY <1>1, <1>5, EnterSeatsOne DEF ResumeRotated
<1>6. ASSUME NEW s \in Sessions, Logout(s) PROVE SeatsOneAtATime
  BY <1>6 DEF Logout, Authenticated, SeatsOneAtATime, Seated, TypeOK
<1>7. ASSUME NEW s \in Sessions, NEW r \in Rooms, CreateAccountRoom(s, r)
      PROVE  SeatsOneAtATime
  BY <1>7 DEF CreateAccountRoom, SeatsOneAtATime, Seated
<1>8. CASE EmptyRoom
  BY <1>8 DEF EmptyRoom, SeatsOneAtATime, Seated
<1>9. ASSUME NEW s \in Sessions, Leave(s) PROVE SeatsOneAtATime
  BY <1>9 DEF Leave, HoldsSeat, Authenticated, SeatsOneAtATime, Seated, TypeOK
<1>10. ASSUME NEW s \in Sessions, NEW v \in Viewers, KickMember(s, v)
       PROVE  SeatsOneAtATime
  BY <1>10 DEF KickMember, SeatsOneAtATime, Seated, TypeOK
<1>11. ASSUME NEW a \in Accounts, NEW on \in BOOLEAN, ManageAccount(a, on)
       PROVE  SeatsOneAtATime
  BY <1>11 DEF ManageAccount, SeatsOneAtATime, Seated, TypeOK
<1>12. CASE Next
  BY <1>1, <1>2, <1>3, <1>4, <1>5, <1>6, <1>7, <1>8, <1>9, <1>10, <1>11, <1>12
  DEF Next, LoginBegin, ExpireSession, CloseRoom, ProvisionAccounts
<1> QED
  BY <1>1, <1>12 DEF vars

\* One more than fewer than MaxMembers is not more than MaxMembers.
LEMMA CapacityStep ==
  ASSUME SeatsWithinCapacity, SeatsOneAtATime
  PROVE  SeatsWithinCapacity'
<1>1. IsFiniteSet(Seated) /\ IsFiniteSet(Seated') /\ MaxMembers \in Nat \ {0}
  <2>1. IsFiniteSet(Accounts)
    BY RosterAssumption, FS_AddElement
  <2>2. Seated \subseteq Accounts /\ Seated' \subseteq Accounts
    BY DEF Seated
  <2> QED
    BY <2>1, <2>2, FS_Subset, RosterAssumption
<1>2. Cardinality(Seated) \in Nat /\ Cardinality(Seated') \in Nat
  BY <1>1, FS_CardinalityType
<1>3. CASE Seated' \subseteq Seated
  <2>1. Cardinality(Seated') <= Cardinality(Seated)
    BY <1>1, <1>3, FS_Subset
  <2> QED
    BY <1>1, <1>2, <2>1 DEF SeatsWithinCapacity
<1>4. ASSUME HasFreeSeat, NEW a \in Accounts, Seated' \subseteq Seated \cup {a}
      PROVE  SeatsWithinCapacity'
  <2>1. /\ IsFiniteSet(Seated \cup {a})
        /\ Cardinality(Seated \cup {a}) \in {Cardinality(Seated), Cardinality(Seated) + 1}
    BY <1>1, FS_AddElement
  <2>2. Cardinality(Seated') <= Cardinality(Seated \cup {a})
    BY <1>4, <2>1, FS_Subset
  <2> QED
    BY <1>1, <1>2, <1>4, <2>1, <2>2 DEF SeatsWithinCapacity, HasFreeSeat
<1>5. CASE Seated' \subseteq {Host}
  <2>0. IsFiniteSet({Host}) /\ Cardinality({Host}) = 1
    BY FS_Singleton
  <2>1. Cardinality(Seated') <= 1
    BY <1>5, <2>0, FS_Subset
  <2> QED
    BY <1>1, <1>2, <2>1 DEF SeatsWithinCapacity
<1> QED
  BY <1>3, <1>4, <1>5 DEF SeatsOneAtATime

\* Whatever mix of logins, polls, kicks and re-entries happens, the room holds
\* at most rooms.max_members active members.
THEOREM CapacityHolds == Spec => []SeatsWithinCapacity
<1>1. Init => SeatsWithinCapacity
  <2>1. Init => Seated = {}
    BY DEF Init, Seated
  <2> QED
    BY <2>1, FS_EmptySet, RosterAssumption DEF SeatsWithinCapacity
<1>2. TypeOK /\ SeatsWithinCapacity /\ [Next]_vars => SeatsWithinCapacity'
  BY StepSeatsOne, CapacityStep
<1> QED
  BY <1>1, <1>2, TypeCorrect, PTL DEF Spec

(***************************************************************************)
(* Kicks.                                                                  *)
(***************************************************************************)

\* A kicked member row changes only with its room.
KickedStep == \A a \in Accounts : seat[a] = "kicked" /\ room' = room => seat'[a] = "kicked"

\* enterAccountRoom never reaches a branch that seats a kicked account.
LEMMA EnterKeepsKicks ==
  ASSUME TypeOK, NEW a \in Accounts, NEW s, NEW force, NEW L, NEW Q,
         Enter(a, s, force, L, Q)
  PROVE  KickedStep
<1>1. CASE UNCHANGED seat
  BY <1>1 DEF KickedStep
<1>2. CASE MayJoin(a) /\ seat' = [seat EXCEPT ![a] = "active"]
  BY <1>2 DEF KickedStep, MayJoin, MustStayOut, TypeOK
<1> QED
  BY <1>1, <1>2 DEF Enter

\* A kick is for the rest of the room's life, in every interleaving of logins,
\* takeovers, rotations, logouts, expiries and account management.
THEOREM KicksLast == Spec => KickedStaysOut
<1>1. Inv /\ [Next]_vars => [KickedStep]_vars
  <2> SUFFICES ASSUME Inv, Next PROVE KickedStep
    OBVIOUS
  <2> USE DEF KickedStep
  <2>0. TypeOK /\ EmptyWithoutRoom
    BY DEF Inv, RowsInv
  <2>1. CASE UNCHANGED seat
    BY <2>1
  <2>2. ASSUME NEW a \in Accounts, NEW s \in Sessions, LoginFinish(a, s) PROVE KickedStep
    BY <2>0, <2>1, <2>2, EnterKeepsKicks DEF LoginFinish
  <2>3. ASSUME NEW s \in Sessions, PollRoom(s) PROVE KickedStep
    BY <2>0, <2>3, EnterKeepsKicks DEF PollRoom
  <2>4. ASSUME NEW s \in Sessions, EnterRoom(s) PROVE KickedStep
    BY <2>0, <2>4, EnterKeepsKicks DEF EnterRoom, Authenticated, TypeOK
  <2>5. ASSUME NEW s \in Sessions, NEW t \in Sessions, ResumeRotated(s, t) PROVE KickedStep
    BY <2>0, <2>1, <2>5, EnterKeepsKicks DEF ResumeRotated
  <2>6. ASSUME NEW s \in Sessions, Logout(s) PROVE KickedStep
    BY <2>0, <2>6 DEF Logout, Inv, RowsInv, LeaseFollowsSeat, TypeOK, Authenticated
  <2>7. ASSUME NEW s \in Sessions, NEW r \in Rooms, CreateAccountRoom(s, r) PROVE KickedStep
    BY <2>7 DEF CreateAccountRoom
  <2>8. CASE EmptyRoom
    BY <2>0, <2>8 DEF EmptyRoom, EmptyWithoutRoom
  <2>9. ASSUME NEW s \in Sessions, Leave(s) PROVE KickedStep
    BY <2>0, <2>9 DEF Leave, HoldsSeat, Authenticated, TypeOK
  <2>10. ASSUME NEW s \in Sessions, NEW v \in Viewers, KickMember(s, v) PROVE KickedStep
    BY <2>0, <2>10 DEF KickMember, TypeOK
  <2>11. ASSUME NEW a \in Accounts, NEW on \in BOOLEAN, ManageAccount(a, on) PROVE KickedStep
    BY <2>0, <2>11 DEF ManageAccount, TypeOK
  <2> HIDE DEF KickedStep
  <2> QED
    BY <2>1, <2>2, <2>3, <2>4, <2>5, <2>6, <2>7, <2>8, <2>9, <2>10, <2>11
    DEF Next, LoginBegin, ExpireSession, CloseRoom, ProvisionAccounts
<1> QED
  BY <1>1, SpecInv, PTL DEF Spec, KickedStaysOut, KickedStep

(***************************************************************************)
(* The waiting line.  A step takes accounts out of it, puts one at its     *)
(* end, or leaves it alone; the rows in front of a row always make an      *)
(* order among those that wait, so somebody is at the head of the line.    *)
(***************************************************************************)

LineInv ==
    \A a \in Accounts :
        /\ a \notin ahead[a]
        /\ ahead[a] \subseteq Waiting
        /\ a \notin Waiting => ahead[a] = {}
        /\ \A b \in ahead[a] : ahead[b] \subseteq ahead[a]

LeftBy(A) == ahead' = OutOfLine(A) /\ Waiting' = Waiting \ A

JoinedBy(a) ==
    /\ a \notin Waiting /\ Waiting' = Waiting \cup {a}
    /\ ahead' = [OutOfLine({a}) EXCEPT ![a] = Waiting \ {a}]

LineStep ==
    \/ ahead' = ahead /\ Waiting' = Waiting
    \/ \E A \in SUBSET Accounts : LeftBy(A)
    \/ \E a \in Accounts : JoinedBy(a)

\* Only an account that nobody can overtake gets a seat from the line.
SeatsInOrder ==
    \A b \in Seated' \ Seated : room' = room /\ b # Host => ~ Overtakes(b)

\* Rows that keep their suppression and go on having a session or none.
LEMMA SameLine ==
    ASSUME NEW Q, \A b \in Accounts : Q[b] = None <=> queued[b] = None,
           queued' = Q, UNCHANGED suppressed
    PROVE  Waiting' = Waiting
  BY DEF Waiting

LEMMA DequeueLine ==
    ASSUME NEW A \in SUBSET Accounts, NEW Q,
           \A b \in Accounts : Q[b] = None <=> queued[b] = None,
           Dequeue(A, Q)
    PROVE  LineStep
<1>1. Waiting' = Waiting \ A
  BY DEF Dequeue, Waiting
<1> QED
  BY <1>1 DEF Dequeue, LineStep, LeftBy

LEMMA SuppressLine ==
    ASSUME TypeOK, NEW a \in Accounts, NEW s \in Sessions \cup {Stale}, room # None,
           Suppress(a, s)
    PROVE  LineStep
<1>1. Waiting' = Waiting \ {a}
  BY DEF Suppress, Waiting, TypeOK
<1> QED
  BY <1>1 DEF Suppress, LineStep, LeftBy

LEMMA EnqueueLine ==
    ASSUME TypeOK, NEW a \in Accounts, NEW s \in Sessions, NEW r \in {None, room}, NEW Q,
           Q \in [Accounts -> Sessions \cup {Stale, None}],
           \A b \in Accounts : Q[b] = None <=> queued[b] = None,
           Enqueue(a, s, r, Q)
    PROVE  LineStep
<1> USE DEF TypeOK
<1>1. CASE Q[a] # None /\ suppressed[a] = r
  <2>1. Waiting' = Waiting
    BY <1>1 DEF Enqueue, Waiting
  <2> QED
    BY <1>1, <2>1 DEF Enqueue, LineStep
<1>2. CASE ~ (Q[a] # None /\ suppressed[a] = r) /\ r = None
  <2>1. a \notin Waiting /\ Waiting' = Waiting \cup {a}
    BY <1>2 DEF Enqueue, Waiting
  <2> QED
    BY <1>2, <2>1 DEF Enqueue, LineStep, JoinedBy
<1>3. CASE ~ (Q[a] # None /\ suppressed[a] = r) /\ r # None
  <2>1. Waiting' = Waiting \ {a}
    BY <1>3 DEF Enqueue, Waiting
  <2> QED
    BY <1>3, <2>1 DEF Enqueue, LineStep, LeftBy
<1> QED
  BY <1>1, <1>2, <1>3

\* enterAccountRoom keeps the line and seats its account in order.
LEMMA EnterLine ==
    ASSUME TypeOK, NEW a \in Accounts, NEW s \in Sessions, NEW force, NEW L, NEW Q,
           Q \in [Accounts -> Sessions \cup {Stale, None}],
           \A b \in Accounts : Q[b] = None <=> queued[b] = None,
           Enter(a, s, force, L, Q)
    PROVE  LineStep /\ SeatsInOrder
<1>1. CASE UNCHANGED seat /\ \E r \in {None, room} : Enqueue(a, s, r, Q)
  BY <1>1, EnqueueLine DEF SeatsInOrder, Seated
<1>2. CASE UNCHANGED <<seat, suppressed, ahead>> /\ queued' = Q
  BY <1>2, SameLine DEF SeatsInOrder, Seated, LineStep
<1>3. CASE UNCHANGED seat /\ Dequeue({a}, Q)
  BY <1>3, DequeueLine DEF SeatsInOrder, Seated
<1>4. CASE /\ ~ Overtakes(a) /\ seat' = [seat EXCEPT ![a] = "active"]
           /\ Dequeue({a}, Q)
  <2>1. Seated' \ Seated \subseteq {a}
    BY <1>4 DEF Seated, TypeOK
  <2> QED
    BY <1>4, <2>1, DequeueLine DEF SeatsInOrder
<1> QED
  BY <1>1, <1>2, <1>3, <1>4 DEF Enter

LEMMA StepKeepsLine == Inv /\ [Next]_vars => LineStep /\ SeatsInOrder
<1> SUFFICES ASSUME Inv, [Next]_vars PROVE LineStep /\ SeatsInOrder
  OBVIOUS
<1>0. TypeOK /\ NamesOwn(lease, queued, owner)
  BY InvNamesOwn DEF Inv
<1>1. ASSUME UNCHANGED <<queued, suppressed, ahead>> PROVE LineStep
  BY <1>1 DEF LineStep, Waiting
<1>2. ASSUME UNCHANGED seat PROVE SeatsInOrder
  BY <1>2 DEF SeatsInOrder, Seated
<1>3. ASSUME NEW a \in Accounts, NEW s \in Sessions, LoginFinish(a, s)
      PROVE  LineStep /\ SeatsInOrder
  BY <1>0, <1>1, <1>2, <1>3, EnterLine DEF LoginFinish, TypeOK
<1>4. ASSUME NEW s \in Sessions, PollRoom(s) \/ EnterRoom(s)
      PROVE  LineStep /\ SeatsInOrder
  BY <1>0, <1>4, EnterLine DEF PollRoom, EnterRoom, Authenticated, TypeOK
<1>5. ASSUME NEW s \in Sessions, NEW t \in Sessions, ResumeRotated(s, t)
      PROVE  LineStep /\ SeatsInOrder
  <2> DEFINE Q == Renamed(queued, s, t)
  <2>1. /\ Q \in [Accounts -> Sessions \cup {Stale, None}]
        /\ \A b \in Accounts : Q[b] = None <=> queued[b] = None
    BY <1>0 DEF Renamed, TypeOK
  <2>2. CASE UNCHANGED <<seat, suppressed, ahead>> /\ queued' = Q
    BY <1>2, <2>1, <2>2, SameLine DEF LineStep
  <2>3. CASE Enter(owner[s], t, FALSE, Renamed(lease, s, t), Q) /\ owner[s] \in Viewers
    <3> HIDE DEF Q
    <3> QED BY <1>0, <2>1, <2>3, EnterLine
  <2> QED
    BY <1>5, <2>2, <2>3 DEF ResumeRotated
<1>6. ASSUME NEW s \in Sessions, Logout(s) PROVE LineStep /\ SeatsInOrder
  <2>1. LineStep
    BY <1>6, DequeueLine DEF Logout
  <2>2. SeatsInOrder
    BY <1>0, <1>6 DEF Logout, Authenticated, SeatsInOrder, Seated, TypeOK
  <2> QED BY <2>1, <2>2
<1>7. ASSUME NEW s \in Sessions, ExpireSession(s) PROVE LineStep /\ SeatsInOrder
  <2> DEFINE Q == Renamed(queued, s, Stale)
  <2>1. \A b \in Accounts : Q[b] = None <=> queued[b] = None
    BY <1>0 DEF Renamed, TypeOK
  <2> QED
    BY <1>2, <1>7, <2>1, SameLine DEF ExpireSession, LineStep
<1>8. ASSUME NEW s \in Sessions, NEW r \in Rooms, CreateAccountRoom(s, r)
      PROVE  LineStep /\ SeatsInOrder
  BY <1>8, DequeueLine DEF CreateAccountRoom, SeatsInOrder, Seated
<1>9. CASE EmptyRoom
  BY <1>9, DequeueLine DEF EmptyRoom, SeatsInOrder, Seated
<1>10. ASSUME NEW s \in Sessions, Leave(s) PROVE LineStep /\ SeatsInOrder
  <2>1. LineStep
    BY <1>0, <1>10, SuppressLine DEF Leave, HoldsSeat, Authenticated, TypeOK
  <2>2. SeatsInOrder
    BY <1>0, <1>10 DEF Leave, HoldsSeat, Authenticated, SeatsInOrder, Seated, TypeOK
  <2> QED BY <2>1, <2>2
<1>11. ASSUME NEW s \in Sessions, NEW v \in Viewers, KickMember(s, v)
       PROVE  LineStep /\ SeatsInOrder
  <2>1. LineStep
    BY <1>0, <1>11, SuppressLine DEF KickMember, HoldsSeat
  <2>2. SeatsInOrder
    BY <1>0, <1>11 DEF KickMember, SeatsInOrder, Seated, TypeOK
  <2> QED BY <2>1, <2>2
<1>12. ASSUME NEW a \in Accounts, NEW on \in BOOLEAN, ManageAccount(a, on)
       PROVE  LineStep /\ SeatsInOrder
  <2>1. LineStep
    BY <1>12, DequeueLine DEF ManageAccount
  <2>2. SeatsInOrder
    BY <1>0, <1>12 DEF ManageAccount, SeatsInOrder, Seated, TypeOK
  <2> QED BY <2>1, <2>2
<1>13. CASE UNCHANGED vars \/ \E a \in Accounts : LoginBegin(a)
  BY <1>1, <1>2, <1>13 DEF vars, LoginBegin
<1> QED
  BY <1>3, <1>4, <1>5, <1>6, <1>7, <1>8, <1>9, <1>10, <1>11, <1>12, <1>13
  DEF Next, CloseRoom, ProvisionAccounts

LEMMA LineKept == TypeOK /\ LineInv /\ LineStep => LineInv'
<1> SUFFICES ASSUME TypeOK, LineInv, LineStep PROVE LineInv'
  OBVIOUS
<1> USE DEF LineInv, TypeOK
<1>1. CASE ahead' = ahead /\ Waiting' = Waiting
  BY <1>1
<1>2. ASSUME NEW A \in SUBSET Accounts, LeftBy(A) PROVE LineInv'
  BY <1>2 DEF LeftBy, OutOfLine, Waiting
<1>3. ASSUME NEW a \in Accounts, JoinedBy(a) PROVE LineInv'
  BY <1>3 DEF JoinedBy, OutOfLine, Waiting
<1> HIDE DEF LineInv
<1> QED
  BY <1>1, <1>2, <1>3 DEF LineStep

LEMMA LineInvariance == Spec => []LineInv
<1>1. Init => LineInv
  BY DEF Init, LineInv
<1>2. Inv /\ LineInv /\ [Next]_vars => LineInv'
  BY StepKeepsLine, LineKept DEF Inv
<1> QED
  BY <1>1, <1>2, SpecInv, PTL DEF Spec

\* Where somebody waits, somebody is at the head of the line: the row with the
\* fewest rows in front of it.
LEMMA LineHasHead ==
    ASSUME TypeOK, LineInv, Waiting # {}
    PROVE  \E a \in Waiting : IsQueueHead(a)
<1> DEFINE Depths == {Cardinality(ahead[a]) : a \in Waiting}
<1>0. IsFiniteSet(Accounts)
  BY RosterAssumption, FS_AddElement
<1>1. \A a \in Accounts : IsFiniteSet(ahead[a]) /\ Cardinality(ahead[a]) \in Nat
  BY <1>0, FS_Subset, FS_CardinalityType DEF TypeOK
<1>2. Depths \subseteq Nat /\ Depths # {}
  BY <1>1 DEF Waiting
<1>3. PICK n \in Depths : \A m \in Depths : ~ (<<m, n>> \in OpToRel(<, Nat))
  BY <1>2, NatLessThanWellFounded, WFMin
<1>4. PICK a \in Waiting : n = Cardinality(ahead[a])
  BY <1>3
<1>5. ASSUME NEW b \in ahead[a] PROVE FALSE
  <2>1. b \in Waiting /\ b \in Accounts /\ a \in Accounts
    BY <1>4, <1>5 DEF LineInv, Waiting
  <2>2. ahead[b] \subseteq ahead[a] /\ ahead[b] # ahead[a]
    BY <1>5, <2>1 DEF LineInv
  <2>3. Cardinality(ahead[b]) < Cardinality(ahead[a])
    BY <1>1, <2>1, <2>2, FS_Subset
  <2>4. <<Cardinality(ahead[b]), n>> \in OpToRel(<, Nat)
    BY <1>1, <1>4, <2>1, <2>3 DEF OpToRel
  <2> QED
    BY <1>3, <2>1, <2>4
<1> QED
  BY <1>4, <1>5 DEF IsQueueHead

\* First come, first served, however polls, logins, kicks, closings and account
\* management are interleaved: nobody gets in front of an account that keeps
\* waiting, and a seat never goes to one that has somebody in front of it.
THEOREM LineIsKept == Spec => NoOvertaking
<1> DEFINE FirstCome ==
      \A a \in Waiting :
          /\ a \in Waiting' => ahead'[a] \subseteq ahead[a]
          /\ \A b \in Seated' \ Seated :
                room' = room /\ b # a /\ b # Host => b \in Waiting /\ a \notin ahead[b]
<1>1. Inv /\ LineInv /\ [Next]_vars => FirstCome
  <2> SUFFICES ASSUME Inv, LineInv, [Next]_vars, NEW a \in Waiting
               PROVE  /\ a \in Waiting' => ahead'[a] \subseteq ahead[a]
                      /\ \A b \in Seated' \ Seated :
                            room' = room /\ b # a /\ b # Host
                                => b \in Waiting /\ a \notin ahead[b]
    OBVIOUS
  <2>0. TypeOK /\ LineStep /\ SeatsInOrder /\ a \in Accounts
    BY StepKeepsLine DEF Inv, Waiting
  <2>1. a \in Waiting' => ahead'[a] \subseteq ahead[a]
    <3>1. CASE ahead' = ahead
      BY <3>1
    <3>2. ASSUME NEW A \in SUBSET Accounts, LeftBy(A) PROVE ahead'[a] \subseteq ahead[a]
      BY <2>0, <3>2 DEF LeftBy, OutOfLine
    <3>3. ASSUME NEW b \in Accounts, JoinedBy(b) PROVE ahead'[a] \subseteq ahead[a]
      BY <2>0, <3>3 DEF JoinedBy, OutOfLine
    <3> QED BY <2>0, <3>1, <3>2, <3>3 DEF LineStep
  <2>2. ASSUME NEW b \in Seated' \ Seated, room' = room, b # Host
        PROVE  b \in Waiting /\ a \notin ahead[b]
    <3>1. ~ Overtakes(b)
      BY <2>0, <2>2 DEF SeatsInOrder
    <3>2. PICK c \in Waiting : IsQueueHead(c)
      BY <2>0, LineHasHead
    <3> QED
      BY <3>1, <3>2 DEF Overtakes, IsQueueHead, Waiting
  <2> QED BY <2>1, <2>2
<1> QED
  BY <1>1, SpecInv, LineInvariance, PTL DEF Spec, NoOvertaking
(***************************************************************************)
(* The WebSockets.  Every step of the composition is a step of the seats   *)
(* or leaves them alone, so all of the above holds with sockets as well.   *)
(***************************************************************************)

LEMMA SocketStepIsSeatStep == [SocketNext]_socketVars => [Next]_vars
  BY DEF SocketNext, socketVars, OpenSocket, CloseSocket, EnterRoomAndClose, LeaveAndClose,
         KickAndClose, CloseRoomAndSockets, OtherStep, Next

\* The hub and its routes do not touch the tables: with its WebSockets, the room
\* service implements the one without.
THEOREM SocketsImplementSeats == SocketSpec => Spec
<1>1. SocketInit => Init
  BY DEF SocketInit
<1> QED
  BY <1>1, SocketStepIsSeatStep, PTL DEF SocketSpec, Spec

\* The timers of the waiting pages only poll, and closing a page changes no table:
\* with its lobby streams, the room service implements the one without.
THEOREM LobbyImplementsSeats == LobbySpec => Spec
<1>1. LobbyInit => Init
  BY DEF LobbyInit
<1>2. [LobbyNext]_lobbyVars => [Next]_vars
  BY DEF LobbyNext, lobbyVars, OpenLobby, LobbyTick, CloseLobby, Request, Next
<1> QED
  BY <1>1, <1>2, PTL DEF LobbySpec, Spec

\* What happens to the sockets K that a step keeps: they stay of their account,
\* and a row that is not the account's newest does not become it.
LEMMA KeptSockets ==
    ASSUME SocketTypeOK, NEW K \in SUBSET sockets,
           NEW s, NEW t, t \in Sessions \/ s = None,
           Keep(K, s, t)
    PROVE  /\ SocketTypeOK'
           /\ \A a \in Accounts : SocketsOf(a)' # {} =>
                 /\ \E k \in K : k.account = a /\ k.row = "newest"
                 /\ room' = room /\ (seat'[a] = "active" => seat[a] = "active")
<1>1. sockets' = {[k EXCEPT !.by = ByAfter(k, s, t), !.row = RowAfter(k)] : k \in K}
  BY DEF Keep
<1>2. ASSUME NEW k \in K
      PROVE  /\ k \in Socket
             /\ ByAfter(k, s, t) \in Sessions \cup {Stale}
             /\ RowAfter(k) \in {"newest", "older", "closed"}
             /\ RowAfter(k) = "newest" =>
                   /\ k.row = "newest" /\ room' = room
                   /\ seat'[k.account] = "active" => seat[k.account] = "active"
  BY <1>2 DEF SocketTypeOK, Socket, ByAfter, RowAfter, Seated
<1>3. ASSUME NEW k \in K
      PROVE  [k EXCEPT !.by = ByAfter(k, s, t), !.row = RowAfter(k)] \in Socket
  <2> DEFINE by == ByAfter(k, s, t)
             row == RowAfter(k)
  <2>1. k \in Socket /\ by \in Sessions \cup {Stale} /\ row \in {"newest", "older", "closed"}
    BY <1>2, <1>3
  <2> HIDE DEF by, row
  <2>2. [k EXCEPT !.by = by, !.row = row] \in Socket
    BY <2>1 DEF Socket
  <2> QED BY <2>2 DEF by, row
<1>4. ASSUME NEW a \in Accounts, NEW m \in SocketsOf(a)'
      PROVE  /\ \E k \in K : k.account = a /\ k.row = "newest"
             /\ room' = room /\ (seat'[a] = "active" => seat[a] = "active")
  <2>1. PICK k \in K : m = [k EXCEPT !.by = ByAfter(k, s, t), !.row = RowAfter(k)]
    BY <1>1, <1>4 DEF SocketsOf
  <2>2. m.account = k.account /\ m.row = RowAfter(k)
    BY <1>2, <2>1 DEF Socket
  <2>3. k.account = a /\ RowAfter(k) = "newest"
    BY <1>4, <2>2 DEF SocketsOf
  <2> QED BY <1>2, <2>3
<1>5. SocketTypeOK'
  BY <1>1, <1>3 DEF SocketTypeOK, Socket
<1> QED
  BY <1>4, <1>5

\* The composition's inductive invariant.
SocketInv == TypeOK /\ SocketTypeOK /\ RemovedMemberIsOff

\* A step that keeps sockets is harmless to those that are removed before it;
\* it removes nobody else, except accounts whose sockets it does not keep.
LEMMA KeepIsHarmless ==
    ASSUME SocketInv, NEW K \in SUBSET sockets,
           NEW s, NEW t, t \in Sessions \/ s = None,
           Keep(K, s, t),
           \A a \in Accounts :
              seat'[a] \in {"left", "kicked"} /\ room' = room /\ seat[a] # seat'[a]
                  => \A k \in K : k.account = a => k.row # "newest"
    PROVE  SocketTypeOK' /\ RemovedMemberIsOff'
<1>1. SocketTypeOK'
  BY KeptSockets DEF SocketInv
<1>2. ASSUME NEW a \in Accounts, seat'[a] \in {"left", "kicked"}, SocketsOf(a)' # {}
      PROVE  FALSE
  <2>1. PICK k \in K : /\ k.account = a /\ k.row = "newest"
                       /\ room' = room
    BY <1>2, KeptSockets DEF SocketInv
  <2>2. seat[a] = seat'[a]
    BY <1>2, <2>1
  <2>3. k \in SocketsOf(a)
    BY <2>1 DEF SocketsOf
  <2> QED BY <1>2, <2>2, <2>3 DEF SocketInv, RemovedMemberIsOff
<1> QED
  BY <1>1, <1>2 DEF RemovedMemberIsOff
RemovesNobody ==
    \A a \in Accounts : seat'[a] \in {"left", "kicked"} => seat[a] = seat'[a]

\* enterAccountRoom makes no seat "left" or "kicked".
LEMMA EnterRemovesNobody ==
    ASSUME TypeOK, NEW b \in Accounts, NEW s, NEW force, NEW L, NEW Q,
           Enter(b, s, force, L, Q)
    PROVE  RemovesNobody
<1>1. UNCHANGED seat \/ seat' = [seat EXCEPT ![b] = "active"]
  BY DEF Enter
<1> QED
  BY <1>1 DEF TypeOK, RemovesNobody

\* The requests and CLIs that close no socket make no seat "left" or "kicked".
LEMMA OtherStepRemovesNobody ==
    ASSUME TypeOK, OtherStep
    PROVE  RemovesNobody
<1> USE DEF TypeOK, SeatStatus, RemovesNobody
<1>1. ASSUME UNCHANGED seat PROVE RemovesNobody
  BY <1>1
<1>2. ASSUME NEW s \in Sessions, Logout(s) PROVE RemovesNobody
  BY <1>2 DEF Logout, Authenticated
<1>3. ASSUME \/ \E s \in Sessions, r \in Rooms : CreateAccountRoom(s, r)
             \/ ProvisionAccounts PROVE RemovesNobody
  BY <1>3 DEF CreateAccountRoom, ProvisionAccounts, EmptyRoom
<1>4. ASSUME NEW b \in Accounts, NEW on \in BOOLEAN, ManageAccount(b, on) PROVE RemovesNobody
  BY <1>4 DEF ManageAccount
<1>5. ASSUME NEW b \in Accounts, NEW s \in Sessions, LoginFinish(b, s) PROVE RemovesNobody
  BY <1>1, <1>5, EnterRemovesNobody DEF LoginFinish
<1>6. ASSUME NEW s \in Sessions, PollRoom(s) PROVE RemovesNobody
  BY <1>6, EnterRemovesNobody DEF PollRoom, Authenticated
<1>7. ASSUME NEW s \in Sessions, NEW t \in Sessions, ResumeRotated(s, t) PROVE RemovesNobody
  BY <1>1, <1>7, EnterRemovesNobody DEF ResumeRotated
<1> HIDE DEF RemovesNobody
<1> QED
  BY <1>1, <1>2, <1>3, <1>4, <1>5, <1>6, <1>7 DEF OtherStep, LoginBegin, ExpireSession

LEMMA SocketStepInv ==
    ASSUME SocketInv, [SocketNext]_socketVars
    PROVE  SocketTypeOK' /\ RemovedMemberIsOff'
<1> DEFINE Goal == SocketTypeOK' /\ RemovedMemberIsOff'
<1>1. ASSUME NEW s \in Sessions, OpenSocket(s) PROVE Goal
  <2>1. /\ owner[s] \in Accounts /\ seat[owner[s]] = "active" /\ UNCHANGED seat
        /\ sockets' = sockets \cup {[by |-> s, account |-> owner[s], row |-> "newest"]}
    BY <1>1 DEF OpenSocket, HoldsSeat, Authenticated, SocketInv, TypeOK, vars
  <2> QED
    BY <2>1 DEF SocketInv, SocketTypeOK, Socket, RemovedMemberIsOff, SocketsOf
<1>2. ASSUME sockets' \subseteq sockets, UNCHANGED vars PROVE Goal
  BY <1>2 DEF SocketInv, SocketTypeOK, RemovedMemberIsOff, SocketsOf, vars
<1>3. ASSUME NEW s \in Sessions, EnterRoomAndClose(s) PROVE Goal
  <2>1. RemovesNobody
    BY <1>3, EnterRemovesNobody DEF EnterRoomAndClose, EnterRoom, Authenticated, SocketInv, TypeOK
  <2>2. PICK K \in SUBSET sockets : Keep(K, None, None)
    BY <1>3 DEF EnterRoomAndClose
  <2> QED BY <2>1, <2>2, KeepIsHarmless DEF RemovesNobody
<1>4. ASSUME NEW s \in Sessions, LeaveAndClose(s) PROVE Goal
  <2>1. \A a \in Accounts : a # owner[s] => seat[a] = seat'[a]
    BY <1>4 DEF LeaveAndClose, Leave, SocketInv, TypeOK
  <2> DEFINE K == sockets \ SocketsOf(owner[s])
  <2>2. Keep(K, None, None) /\ K \in SUBSET sockets
    BY <1>4 DEF LeaveAndClose
  <2>3. \A k \in K : k.account = owner[s] => k.row # "newest"
    BY DEF SocketsOf
  <2> HIDE DEF K
  <2> QED BY <2>1, <2>2, <2>3, KeepIsHarmless
<1>5. ASSUME NEW s \in Sessions, NEW v \in Viewers, KickAndClose(s, v) PROVE Goal
  <2>1. \A a \in Accounts : a # v => seat[a] = seat'[a]
    BY <1>5 DEF KickAndClose, KickMember, SocketInv, TypeOK
  <2> DEFINE K == sockets \ SocketsOf(v)
  <2>2. Keep(K, None, None) /\ K \in SUBSET sockets
    BY <1>5 DEF KickAndClose
  <2>3. \A k \in K : k.account = v => k.row # "newest"
    BY DEF SocketsOf
  <2> HIDE DEF K
  <2> QED BY <2>1, <2>2, <2>3, KeepIsHarmless
<1>6. ASSUME NEW s \in Sessions, CloseRoomAndSockets(s) PROVE Goal
  <2>1. \A a \in Accounts : seat'[a] = "none"
    BY <1>6 DEF CloseRoomAndSockets, CloseRoom, EmptyRoom
  <2>2. PICK K \in SUBSET sockets : Keep(K, None, None)
    BY <1>6 DEF CloseRoomAndSockets
  <2> QED BY <2>1, <2>2, KeepIsHarmless
<1>7. CASE OtherStep
  <2>1. RemovesNobody
    BY <1>7, OtherStepRemovesNobody DEF SocketInv
  <2>2. CASE Keep(sockets, None, None)
    BY <2>1, <2>2, KeepIsHarmless DEF RemovesNobody
  <2>3. ASSUME NEW s \in Sessions, NEW t \in Sessions, Keep(sockets, s, t) PROVE Goal
    BY <2>1, <2>3, KeepIsHarmless DEF RemovesNobody
  <2> QED BY <1>7, <2>2, <2>3 DEF OtherStep
<1> QED
  BY <1>1, <1>2, <1>3, <1>4, <1>5, <1>6, <1>7 DEF SocketNext, CloseSocket, socketVars

LEMMA SocketInvariance == SocketSpec => []SocketInv
<1>1. SocketInit => SocketTypeOK /\ RemovedMemberIsOff
  BY DEF SocketInit, SocketTypeOK, RemovedMemberIsOff, SocketsOf
<1>2. TypeOK /\ (SocketTypeOK /\ RemovedMemberIsOff) /\ [SocketNext]_socketVars
         => (SocketTypeOK /\ RemovedMemberIsOff)'
  BY SocketStepInv DEF SocketInv
<1> QED
  BY <1>1, <1>2, SocketsImplementSeats, TypeCorrect, PTL DEF SocketSpec, SocketInv

\* Every open socket whose session has not ended is one of that session's account.
SocketsOwned == \A k \in sockets : k.by = Stale \/ owner[k.by] = k.account

OwnerStep ==
    \A k \in sockets' :
        /\ k.by = Stale \/ owner'[k.by] = k.account
        /\ \/ \E old \in sockets : ComesFrom(k, old)
           \/ k.by \in Sessions /\ HoldsSeat(k.by) /\ k.account = owner[k.by]

\* A socket that a step keeps is one of the account whose session opened it: the
\* session t that a rotation puts in the place of s has the same owner.
LEMMA KeptOwners ==
    ASSUME SocketInv, SocketsOwned, NEW K \in SUBSET sockets,
           NEW s, NEW t, s = None \/ (s \in Sessions /\ t \in Sessions /\ owner'[t] = owner[s]),
           Keep(K, s, t)
    PROVE  OwnerStep
<1> SUFFICES ASSUME NEW m \in sockets'
             PROVE  /\ m.by = Stale \/ owner'[m.by] = m.account
                    /\ \E old \in sockets : ComesFrom(m, old)
  BY DEF OwnerStep
<1>1. PICK k \in K : m = [k EXCEPT !.by = ByAfter(k, s, t), !.row = RowAfter(k)]
  BY DEF Keep
<1>2. k \in sockets /\ k \in Socket
  BY DEF SocketInv, SocketTypeOK
<1>3. m.account = k.account /\ m.by = ByAfter(k, s, t) /\ m.row = RowAfter(k)
  BY <1>1, <1>2 DEF Socket
<1>4. k.by = Stale \/ (k.by \in Sessions /\ owner[k.by] = k.account)
  BY <1>2 DEF SocketsOwned, Socket
<1>5. m.by = Stale \/ owner'[m.by] = m.account
  BY <1>3, <1>4, IdAssumption DEF ByAfter
<1>6. k.row \in {"newest", "older", "closed"}
  BY <1>2 DEF Socket
<1>7. ComesFrom(m, k)
  BY <1>3, <1>6 DEF ComesFrom, Rank, RowAfter
<1> QED
  BY <1>2, <1>5, <1>7

LEMMA SocketStepOwners ==
    ASSUME SocketInv, SocketsOwned, [SocketNext]_socketVars
    PROVE  OwnerStep \/ UNCHANGED socketVars
<1>1. ASSUME NEW s \in Sessions, OpenSocket(s) PROVE OwnerStep
  <2>1. /\ HoldsSeat(s) /\ UNCHANGED <<owner, seat>>
        /\ sockets' = sockets \cup {[by |-> s, account |-> owner[s], row |-> "newest"]}
    BY <1>1 DEF OpenSocket, vars
  <2>2. ASSUME NEW k \in sockets PROVE ComesFrom(k, k)
    BY <2>1, <2>2 DEF ComesFrom, Rank, Seated, SocketInv, SocketTypeOK, Socket
  <2> QED
    BY <2>1, <2>2 DEF OwnerStep, SocketsOwned
<1>2. ASSUME NEW k, CloseSocket(k) PROVE OwnerStep
  <2>1. sockets' \subseteq sockets /\ UNCHANGED <<owner, seat>>
    BY <1>2 DEF CloseSocket, vars
  <2>2. ASSUME NEW m \in sockets PROVE ComesFrom(m, m)
    BY <2>1, <2>2 DEF ComesFrom, Rank, Seated, SocketInv, SocketTypeOK, Socket
  <2> QED
    BY <2>1, <2>2 DEF OwnerStep, SocketsOwned
<1>3. ASSUME NEW K \in SUBSET sockets, Keep(K, None, None) PROVE OwnerStep
  BY <1>3, KeptOwners
<1>4. ASSUME NEW s \in Sessions, NEW t \in Sessions, ResumeRotated(s, t), Keep(sockets, s, t)
      PROVE  OwnerStep
  <2>1. owner'[t] = owner[s]
    BY <1>4 DEF ResumeRotated, SocketInv, TypeOK
  <2> QED
    BY <1>4, <2>1, KeptOwners
<1>5. CASE OtherStep
  BY <1>3, <1>4, <1>5 DEF OtherStep
<1>6. ASSUME NEW s \in Sessions, EnterRoomAndClose(s) PROVE OwnerStep
  <2>1. PICK K \in SUBSET sockets : Keep(K, None, None)
    BY <1>6 DEF EnterRoomAndClose
  <2> QED
    BY <1>3, <2>1
<1>7. ASSUME NEW s \in Sessions, LeaveAndClose(s) PROVE OwnerStep
  BY <1>3, <1>7 DEF LeaveAndClose
<1>8. ASSUME NEW s \in Sessions, NEW v \in Viewers, KickAndClose(s, v) PROVE OwnerStep
  BY <1>3, <1>8 DEF KickAndClose
<1>9. ASSUME NEW s \in Sessions, CloseRoomAndSockets(s) PROVE OwnerStep
  BY <1>3, <1>9 DEF CloseRoomAndSockets
<1> QED
  BY <1>1, <1>2, <1>5, <1>6, <1>7, <1>8, <1>9 DEF SocketNext

\* An open socket stays with the account whose session opened it, through every
\* rename, revocation and expiry of that session, and only an upgrade by the
\* session that holds the account's seat puts one on its newest member row
\* (room-hub.ts, app.ts): re-entry does not revive a connection.
THEOREM SocketsStayWithTheirOwner == SocketSpec => SocketsKeepTheirOwner
<1>1. SocketInit => SocketsOwned
  BY DEF SocketInit, SocketsOwned
<1>2. SocketInv /\ SocketsOwned /\ [SocketNext]_socketVars => SocketsOwned' /\ [OwnerStep]_socketVars
  <2>1. ASSUME SocketInv, SocketsOwned, OwnerStep PROVE SocketsOwned'
    BY <2>1 DEF OwnerStep, SocketsOwned
  <2>2. ASSUME SocketsOwned, UNCHANGED socketVars PROVE SocketsOwned'
    BY <2>2 DEF SocketsOwned, socketVars, vars
  <2> QED
    BY <2>1, <2>2, SocketStepOwners
<1> QED
  BY <1>1, <1>2, SocketInvariance, PTL DEF SocketSpec, SocketsKeepTheirOwner, OwnerStep

\* Who left or was kicked has no socket on that member row, from the step that
\* removes it until the account gets a new row, whichever browser opened it and
\* whatever happens to that browser's session meanwhile (hub.closeMember).
THEOREM RemovedMembersGoOff == SocketSpec => []RemovedMemberIsOff
<1>1. SocketInv => RemovedMemberIsOff
  BY DEF SocketInv
<1> QED BY <1>1, SocketInvariance, PTL
=============================================================================
