------------------------- MODULE RoomPlayback_proofs -------------------------
(***************************************************************************)
(* Proofs about RoomPlayback, for any films, rates, lead, result lifetime  *)
(* and number of commands.  Everything rests on one fact: the revision is  *)
(* above that of every command carried out and of every snapshot given to  *)
(* a page or kept, unless the snapshot is the current one.                 *)
(***************************************************************************)
EXTENDS RoomPlayback, TLAPS

USE PlaybackAssumption, NullAssumption

RevisionsArePast ==
    /\ \A id \in Ids : accepted[id] # None => accepted[id].expected < revision
    /\ \A id \in Ids : results[id] # None => accepted[id] # None
    /\ \A s \in Snapshots : s.revision <= revision
    /\ heard # None => heard <= revision
    /\ status = "closed" =>
           /\ heard # None /\ heard < revision
           /\ shown.revision < revision
           /\ \A id \in Ids : results[id] # None => results[id].result.revision < revision

Inv == TypeOK /\ RevisionsArePast /\ OneProgramPerRevision /\ FilmStaysAvailable

\* A position is a natural number, whenever it is asked for.
LEMMA PositionIsNat ==
  ASSUME NEW t \in Transport, NEW at \in Nat
  PROVE  PositionAt(t, at) \in Nat
<1>1. CASE t.state = "paused" \/ at <= t.anchor
  BY <1>1 DEF PositionAt, Transport
<1>2. CASE ~(t.state = "paused" \/ at <= t.anchor)
  <2>1. /\ t.position \in Nat /\ t.rate \in Nat /\ at - t.anchor \in Nat
    BY <1>2 DEF Transport
  <2>2. \A m, n \in Nat : m * n \in Nat
    OBVIOUS
  <2>3. (at - t.anchor) * t.rate \in Nat
    BY <2>1, <2>2
  <2> QED
    BY <1>2, <2>1, <2>3 DEF PositionAt
<1> QED
  BY <1>1, <1>2

\* Every kind of command leaves a well-formed program, whose film is in the
\* library if the film before it was.
LEMMA CommandsLeavePrograms ==
  ASSUME TypeOK, FilmStaysAvailable, NEW c \in Command, ApplyRoomCommand(c)
  PROVE  /\ program' \in Program
         /\ status = "active" /\ program'.media # None => program'.media \in library
         /\ program'.mode = "vod" => program'.media # None /\ program'.transport # None
<1>1. /\ program \in Program /\ now + Lead \in Nat
      /\ library \subseteq Films
      /\ status = "active" /\ program.media # None => program.media \in library
      /\ program.mode = "vod" => program.media # None /\ program.transport # None
  BY DEF TypeOK, FilmStaysAvailable
<1>2. program.transport # None => program.transport \in Transport /\ Projected \in Nat
  BY <1>1, PositionIsNat DEF Program, Projected
<1>3. ASSUME NEW state \in {"playing", "paused"}, NEW position \in Nat, NEW rate \in Nat
      PROVE  Anchor(state, position, rate) \in Transport
  BY <1>1 DEF Anchor, Transport
<1>4. Normal \in Nat
  BY DEF Normal
<1>5. CASE SelectVod(c)
  BY <1>1, <1>3, <1>4, <1>5 DEF SelectVod, Program, Command
<1>6. CASE SelectLive(c)
  <2>1. program.transport # None => Anchor("paused", Projected, program.transport.rate) \in Transport
    BY <1>2, <1>3 DEF Transport
  <2> QED
    BY <1>1, <1>6, <2>1 DEF SelectLive, Program
<1>7. CASE RestoreVod(c)
  <2>1. /\ Anchor("paused", 0, Normal) \in Transport
        /\ program.transport # None =>
             Anchor("paused", program.transport.position, program.transport.rate) \in Transport
    BY <1>2, <1>3, <1>4 DEF Transport
  <2> QED
    BY <1>1, <1>7, <2>1 DEF RestoreVod, Program
<1>8. CASE PlayOrPause(c)
  <2>1. \A state \in {"playing", "paused"} :
            program.transport # None => Anchor(state, Projected, program.transport.rate) \in Transport
    BY <1>2, <1>3 DEF Transport
  <2> QED
    BY <1>1, <1>8, <2>1 DEF PlayOrPause, Program
<1>9. CASE Seek(c)
  <2>1. c.position \in Nat
    BY <1>9 DEF Seek, Command
  <2>2. Clamped(c.position, program.media) \in Nat
    BY <2>1 DEF Clamped, DurationOf
  <2>3. program.transport # None =>
            Anchor(program.transport.state, Clamped(c.position, program.media),
                   program.transport.rate) \in Transport
    BY <1>2, <1>3, <2>2 DEF Transport
  <2> QED
    BY <1>1, <1>9, <2>3 DEF Seek, Program
<1>10. CASE SetRate(c)
  <2>1. c.rate \in Nat
    BY <1>10 DEF SetRate, Command
  <2>2. program.transport # None =>
            Anchor(program.transport.state, Projected, c.rate) \in Transport
    BY <1>2, <1>3, <2>1 DEF Transport
  <2> QED
    BY <1>1, <1>10, <2>2 DEF SetRate, Program
<1> QED
  BY <1>5, <1>6, <1>7, <1>8, <1>9, <1>10 DEF ApplyRoomCommand

\* No command is carried out in a room its host has closed: the revision that
\* the close made was never told.
LEMMA ApplyIsOpen ==
  ASSUME Inv, NEW id, NEW expected, NEW c, Told(expected), Apply(id, expected, c)
  PROVE  status # "closed" /\ expected = revision /\ expected \in Nat
<1>1. expected = revision /\ revision \in Nat
  BY DEF Apply, Inv, TypeOK
<1>2. ASSUME status = "closed" PROVE FALSE
  <2>1. heard # None /\ heard \in Nat /\ heard < revision
    BY <1>2 DEF Inv, TypeOK, RevisionsArePast
  <2> QED
    BY <1>1, <2>1 DEF Told, SocketsOpen
<1> QED
  BY <1>1, <1>2

\* A command that is carried out keeps the invariant: it makes a revision above
\* all others, and every snapshot of that revision is the one it made.
LEMMA ApplyKeepsInv ==
  ASSUME Inv, NEW id \in Ids, NEW expected, NEW c \in Command,
         Told(expected), Apply(id, expected, c)
  PROVE  Inv'
<1>1. /\ status # "closed" /\ expected = revision /\ expected \in Nat
      /\ UNCHANGED <<now, status, heard, library>>
  BY ApplyIsOpen DEF Apply
<1>2. /\ program' \in Program
      /\ status' = "active" /\ program'.media # None => program'.media \in library'
      /\ program'.mode = "vod" => program'.media # None /\ program'.transport # None
  BY <1>1, CommandsLeavePrograms DEF Inv, Apply
<1>3. /\ Current' \in Snapshot /\ Current'.revision = revision + 1
      /\ revision' = revision + 1 /\ revision \in Nat
      /\ shown' \in {Current', shown}
  BY <1>1, <1>2 DEF Inv, TypeOK, Apply, Current, Snapshot, Broadcast
<1> DEFINE row == [result |-> Current', expires |-> now + Ttl]
           request == [expected |-> expected, command |-> c]
<1>4. row \in Row /\ row.result = Current' /\ row # None
  BY <1>3 DEF Row, Inv, TypeOK
<1>5. request \in Request /\ request.expected = revision /\ request # None
  BY <1>1 DEF Request
<1>6. /\ results' \in [Ids -> Row \cup {None}]
      /\ \A i \in Ids : results'[i] # None =>
             \/ i = id /\ results'[i] = row
             \/ i # id /\ results'[i] = results[i]
  BY <1>4 DEF Apply, Inv, TypeOK
<1>7. /\ accepted' \in [Ids -> Request \cup {None}]
      /\ accepted'[id] = request
      /\ \A i \in Ids : i # id => accepted'[i] = accepted[i]
  BY <1>5 DEF Apply, Inv, TypeOK
<1> HIDE DEF row, request
<1>8. \A s \in Snapshots' : s = Current' \/ s \in Snapshots
  BY <1>3, <1>4, <1>6 DEF Snapshots
<1>9. \A s \in Snapshots : s.revision <= revision /\ s.revision \in Nat
  BY DEF Inv, RevisionsArePast, Snapshots, TypeOK, Current, Snapshot, Row
<1>10. TypeOK'
  BY <1>1, <1>2, <1>3, <1>6, <1>7 DEF Inv, TypeOK, Apply
<1>11. RevisionsArePast'
  BY <1>1, <1>3, <1>4, <1>5, <1>6, <1>7, <1>8, <1>9 DEF Inv, TypeOK, RevisionsArePast, Request
<1>12. OneProgramPerRevision'
  BY <1>3, <1>8, <1>9 DEF Inv, OneProgramPerRevision
<1>13. FilmStaysAvailable'
  BY <1>1, <1>2 DEF FilmStaysAvailable
<1> QED
  BY <1>10, <1>11, <1>12, <1>13 DEF Inv

\* A snapshot that is sent again was a snapshot before.
LEMMA ResendKeepsInv ==
  ASSUME Inv, NEW s \in Snapshots, Broadcast(s),
         UNCHANGED <<now, status, heard, revision, program, results, library, accepted>>
  PROVE  Inv'
<1>1. s \in Snapshot
  BY DEF Inv, TypeOK, Snapshots, Current, Snapshot, Row
<1>2. shown' \in Snapshots /\ shown' \in Snapshot /\ (status = "closed" => shown' = shown)
  BY <1>1 DEF Broadcast, SocketsOpen, Inv, TypeOK, RevisionsArePast, Snapshots
<1>3. \A t \in Snapshots' : t \in Snapshots
  BY <1>2 DEF Snapshots, Current
<1>4. TypeOK'
  BY <1>2 DEF Inv, TypeOK
<1>5. RevisionsArePast'
  BY <1>2, <1>3 DEF Inv, RevisionsArePast
<1>6. OneProgramPerRevision'
  BY <1>3 DEF Inv, OneProgramPerRevision
<1>7. FilmStaysAvailable'
  BY DEF Inv, FilmStaysAvailable
<1> QED
  BY <1>4, <1>5, <1>6, <1>7 DEF Inv

\* Closing an active room makes a revision that no page is told; the program of
\* a room that was closed by the CLI stays as it is.
LEMMA CloseKeepsInv == Inv /\ CloseRoom => Inv'
<1> SUFFICES ASSUME Inv, CloseRoom PROVE Inv'
  OBVIOUS
<1>1. /\ revision \in Nat /\ heard' = revision /\ heard' # None
      /\ UNCHANGED <<now, results, library, shown, accepted>>
  BY NullAssumption DEF Inv, TypeOK, CloseRoom
<1>2. \A s \in Snapshots : s.revision <= revision /\ s.revision \in Nat
  BY DEF Inv, RevisionsArePast, Snapshots, TypeOK, Current, Snapshot, Row
<1>3. CASE status = "active"
  <2>1. revision' = revision + 1 /\ program' = Idle /\ status' = "closed"
    BY <1>3 DEF CloseRoom
  <2>2. /\ Current'.revision = revision + 1
        /\ \A s \in Snapshots' : s = Current' \/ s \in Snapshots
    BY <1>1, <2>1 DEF Snapshots, Current
  <2>3. TypeOK'
    BY <1>1, <2>1 DEF Inv, TypeOK, Idle, Program
  <2>4. RevisionsArePast'
    <3>1. shown \in Snapshots /\ \A id \in Ids : results[id] # None => results[id].result \in Snapshots
      BY DEF Snapshots
    <3>2. \A id \in Ids : accepted[id] # None => accepted[id].expected \in Nat
      BY DEF Inv, TypeOK, Request
    <3> QED
      BY <1>1, <1>2, <2>1, <2>2, <3>1, <3>2 DEF Inv, RevisionsArePast
  <2>5. OneProgramPerRevision'
    BY <1>1, <1>2, <2>1, <2>2 DEF Inv, OneProgramPerRevision
  <2>6. FilmStaysAvailable'
    BY <2>1 DEF FilmStaysAvailable, Idle
  <2> QED
    BY <2>3, <2>4, <2>5, <2>6 DEF Inv
<1>4. CASE UNCHANGED <<status, revision, program>> /\ status = "provisioned"
  <2>1. Snapshots' = Snapshots
    BY <1>1, <1>4 DEF Snapshots, Current
  <2>2. TypeOK'
    BY <1>1, <1>4 DEF Inv, TypeOK
  <2>3. RevisionsArePast'
    BY <1>1, <1>4, <2>1 DEF Inv, RevisionsArePast
  <2>4. OneProgramPerRevision' /\ FilmStaysAvailable'
    BY <1>1, <1>4, <2>1 DEF Inv, OneProgramPerRevision, FilmStaysAvailable
  <2> QED
    BY <2>2, <2>3, <2>4 DEF Inv
<1> QED
  BY <1>3, <1>4 DEF CloseRoom

\* The CLI changes nothing but the room's status, and leaves it other than
\* "closed".
LEMMA ProvisionKeepsInv == Inv /\ ProvisionAccounts => Inv'
<1> SUFFICES ASSUME Inv, ProvisionAccounts PROVE Inv'
  OBVIOUS
<1>1. /\ status' = "provisioned"
      /\ UNCHANGED <<now, heard, revision, program, results, library, shown, accepted>>
  BY DEF ProvisionAccounts
<1>2. Snapshots' = Snapshots
  BY <1>1 DEF Snapshots, Current
<1>3. TypeOK'
  BY <1>1 DEF Inv, TypeOK
<1>4. RevisionsArePast'
  BY <1>1, <1>2 DEF Inv, RevisionsArePast
<1>5. OneProgramPerRevision' /\ FilmStaysAvailable'
  BY <1>1, <1>2 DEF Inv, OneProgramPerRevision, FilmStaysAvailable
<1> QED
  BY <1>3, <1>4, <1>5 DEF Inv

\* The library and the clock leave the program and its snapshots alone, and
\* the film of the active room is not put in the trash.
LEMMA LibraryKeepsInv ==
  ASSUME Inv, (\E f \in Films : AddFilm(f) \/ TrashMedia(f)) \/ Tick
  PROVE  Inv'
<1>1. UNCHANGED <<status, heard, revision, program, results, shown, accepted>>
  BY DEF AddFilm, TrashMedia, Tick
<1>2. Snapshots' = Snapshots
  BY <1>1 DEF Snapshots, Current
<1>3. TypeOK'
  BY <1>1 DEF Inv, TypeOK, AddFilm, TrashMedia, Tick
<1>4. RevisionsArePast' /\ OneProgramPerRevision'
  BY <1>1, <1>2 DEF Inv, RevisionsArePast, OneProgramPerRevision
<1>5. FilmStaysAvailable'
  BY <1>1 DEF Inv, FilmStaysAvailable, AddFilm, TrashMedia, Tick
<1> QED
  BY <1>3, <1>4, <1>5 DEF Inv

LEMMA InitInv == Init => Inv
<1> SUFFICES ASSUME Init PROVE Inv
  OBVIOUS
<1>1. Idle \in Program /\ Current \in Snapshot /\ Snapshots = {Current}
  BY DEF Init, Idle, Program, Current, Snapshot, Snapshots
<1> QED
  BY <1>1 DEF Init, Inv, TypeOK, RevisionsArePast, OneProgramPerRevision, FilmStaysAvailable,
              Idle, Current

LEMMA NextInv == Inv /\ [Next]_vars => Inv'
<1> SUFFICES ASSUME Inv, [Next]_vars PROVE Inv'
  OBVIOUS
<1>1. ASSUME NEW id \in Ids, NEW expected \in 0 .. revision, NEW c \in Command,
             RoomCommand(id, expected, c)
      PROVE  Inv'
  <2>1. CASE Apply(id, expected, c)
    BY <1>1, <2>1, ApplyKeepsInv DEF RoomCommand
  <2>2. CASE Repeat(id)
    <3>1. results[id].result \in Snapshots
      BY <2>2 DEF Repeat, Remembered, Snapshots
    <3> QED
      BY <2>2, <3>1, ResendKeepsInv DEF Repeat
  <2> QED
    BY <1>1, <2>1, <2>2 DEF RoomCommand
<1>2. CASE SendSnapshot
  BY <1>2, ResendKeepsInv DEF SendSnapshot, Snapshots
<1>3. CASE UNCHANGED vars
  BY <1>3 DEF vars, Inv, TypeOK, RevisionsArePast, OneProgramPerRevision, FilmStaysAvailable,
              Snapshots, Current
<1> QED
  BY <1>1, <1>2, <1>3, CloseKeepsInv, ProvisionKeepsInv, LibraryKeepsInv DEF Next

LEMMA SpecInv == Spec => []Inv
  BY InitInv, NextInv, PTL DEF Spec

\* Every column and message keeps its type, whatever the host sends.
THEOREM TypeCorrect == Spec => []TypeOK
  BY SpecInv, PTL DEF Inv

\* A revision stands for one program, in every broadcast and stored answer.
THEOREM RevisionsAreUnique == Spec => []OneProgramPerRevision
  BY SpecInv, PTL DEF Inv

\* The film of an active room cannot be trashed, also while live is shown; and
\* nothing that was under way gives a room a program after its host closed it.
THEOREM FilmsStay == Spec => []FilmStaysAvailable
  BY SpecInv, PTL DEF Inv

(***************************************************************************)
(* Refinement.                                                             *)
(***************************************************************************)

\* A command that is carried out was not carried out before: the revision it
\* names would be in the past.
LEMMA ApplyIsFirst ==
  ASSUME Inv, NEW id \in Ids, NEW expected, NEW c \in Command,
         Told(expected), Apply(id, expected, c),
         accepted[id] \in {None, [expected |-> expected, command |-> c]}
  PROVE  Log!CarryOut(id)
<1>1. status # "closed" /\ expected = revision /\ expected \in Nat
  BY ApplyIsOpen
<1>2. accepted[id] = None
  <2>1. CASE accepted[id] = [expected |-> expected, command |-> c]
    <3>1. accepted[id] # None /\ accepted[id].expected = revision /\ revision \in Nat
      BY <1>1, <2>1 DEF Request
    <3> QED
      BY <3>1 DEF Inv, RevisionsArePast
  <2> QED
    BY <2>1
<1>3. /\ accepted'[id] # None
      /\ \A i \in Ids : i # id => accepted'[i] = accepted[i]
  BY <1>1 DEF Apply, Inv, TypeOK, Request
<1> QED
  BY <1>1, <1>2, <1>3 DEF Apply, Log!CarryOut

\* The handler of room.command keeps the promise of ProgramLog: at most once,
\* one version each, and never after the room was closed from its seat or from
\* the console, also when accounts:provision has closed it before.
THEOREM CommandsRefineLog == Spec => ImplementsLog
<1>1. Init => Log!Init
  BY DEF Init, Log!Init
<1>2. Inv /\ [Next]_vars => [Log!Next]_Log!logVars
  <2> SUFFICES ASSUME Inv, [Next]_vars PROVE [Log!Next]_Log!logVars
    OBVIOUS
  <2>1. ASSUME NEW id \in Ids, NEW expected \in 0 .. revision, NEW c \in Command,
               RoomCommand(id, expected, c)
        PROVE  [Log!Next]_Log!logVars
    <3>1. CASE Apply(id, expected, c)
      BY <2>1, <3>1, ApplyIsFirst DEF RoomCommand, Log!Next
    <3>2. CASE Repeat(id)
      BY <3>2 DEF Repeat, Log!logVars
    <3> QED
      BY <2>1, <3>1, <3>2 DEF RoomCommand
  <2>2. CASE CloseRoom
    <3>1. CASE status = "active"
      BY <2>2, <3>1 DEF CloseRoom, Log!Close, Log!Next
    <3>2. CASE UNCHANGED <<status, revision>>
      BY <2>2, <3>2 DEF CloseRoom, Log!logVars
    <3> QED
      BY <2>2, <3>1, <3>2 DEF CloseRoom
  <2>4. CASE ProvisionAccounts
    BY <2>4 DEF ProvisionAccounts, Log!logVars
  <2>3. CASE UNCHANGED <<status, revision, accepted>>
    BY <2>3 DEF Log!logVars
  <2> QED
    BY <2>1, <2>2, <2>3, <2>4 DEF Next, SendSnapshot, AddFilm, TrashMedia, Tick, vars
<1> QED
  BY <1>1, <1>2, SpecInv, PTL DEF Spec, ImplementsLog, Log!Spec

(***************************************************************************)
(* Continuity.                                                             *)
(***************************************************************************)

Steady == {"play", "pause", "set-rate", "select-live"}

FilmStays ==
    Kind \cap Steady # {} /\ program.transport # None =>
        PositionAt(program'.transport, now + Lead) = PositionAt(program.transport, now + Lead)

\* The new anchor lies at the instant for which the old one was projected.
LEMMA SteadyCommands ==
  ASSUME TypeOK, NEW c \in Command, c.kind \in Steady, ApplyRoomCommand(c),
         program.transport # None
  PROVE  PositionAt(program'.transport, now + Lead) = PositionAt(program.transport, now + Lead)
<1>1. program \in Program /\ now + Lead \in Nat
  BY DEF TypeOK
<1>2. ASSUME NEW state, NEW rate, program'.transport = Anchor(state, Projected, rate)
      PROVE  PositionAt(program'.transport, now + Lead) = Projected
  BY <1>1, <1>2 DEF PositionAt, Anchor
<1>3. CASE SelectLive(c)
  <2>1. program'.transport = Anchor("paused", Projected, program.transport.rate)
    BY <1>1, <1>3 DEF SelectLive, Program
  <2> QED
    BY <1>2, <2>1 DEF Projected
<1>4. CASE PlayOrPause(c)
  <2>1. program'.transport = Anchor(IF c.kind = "play" THEN "playing" ELSE "paused", Projected,
                                    program.transport.rate)
    BY <1>1, <1>4 DEF PlayOrPause, Program
  <2> QED
    BY <1>2, <2>1 DEF Projected
<1>5. CASE SetRate(c)
  <2>1. program'.transport = Anchor(program.transport.state, Projected, c.rate)
    BY <1>1, <1>5 DEF SetRate, Program
  <2> QED
    BY <1>2, <2>1 DEF Projected
<1>6. ~SelectVod(c) /\ ~RestoreVod(c) /\ ~Seek(c)
  BY DEF SelectVod, RestoreVod, Seek, Steady
<1> QED
  BY <1>3, <1>4, <1>5, <1>6 DEF ApplyRoomCommand

\* Play, pause, a new rate and the switch to the live program leave the film
\* where it is at the instant they take effect, whatever came just before.
THEOREM FilmKeepsItsPosition == Spec => FilmDoesNotJump
<1>1. Inv /\ [Next]_vars => [FilmStays]_vars
  <2> SUFFICES ASSUME Inv, Next PROVE FilmStays
    OBVIOUS
  <2>1. ASSUME NEW id \in Ids, NEW expected \in 0 .. revision, NEW c \in Command,
               Apply(id, expected, c)
        PROVE  FilmStays
    <3>1. \A i \in Ids : accepted'[i] # accepted[i] => i = id /\ accepted'[i].command = c
      BY <2>1 DEF Apply, Inv, TypeOK
    <3>2. Kind \subseteq {c.kind}
      BY <3>1 DEF Kind
    <3> QED
      BY <2>1, <3>2, SteadyCommands DEF FilmStays, Apply, Inv
  <2>2. CASE UNCHANGED accepted
    BY <2>2 DEF FilmStays, Kind
  <2> QED
    BY <2>1, <2>2 DEF Next, RoomCommand, Repeat, SendSnapshot, CloseRoom, ProvisionAccounts,
                             AddFilm, TrashMedia, Tick
<1> QED
  BY <1>1, SpecInv, PTL DEF Spec, FilmDoesNotJump, FilmStays, Steady
=============================================================================
