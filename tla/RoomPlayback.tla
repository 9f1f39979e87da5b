----------------------------- MODULE RoomPlayback ----------------------------
(***************************************************************************)
(* The shared program of one room: the row of room_state, the commands of  *)
(* the host and their stored results (applyCommand and applyRoomCommand in *)
(* room-service.ts), the snapshots that the WebSocket route broadcasts,    *)
(* and the library requests that a selected film is protected from         *)
(* (media-service.ts).  Every handler is synchronous, so it is one step.   *)
(*                                                                         *)
(* Abstractions.                                                           *)
(*  - one tick of now stands for a fixed span of milliseconds, positions   *)
(*    and lengths count half ticks of film and rates half speeds, so that  *)
(*    every position is a natural number.                                  *)
(*  - a snapshot is what pages take from it to play: revision and program. *)
(*    Every page has the same stream of broadcasts, so shown, the latest   *)
(*    one, stands for the page of any member.                              *)
(*  - a command that is refused changes nothing and is broadcast to        *)
(*    nobody; it is a step that does not happen.                           *)
(*  - the room's sockets are told apart only by whether a close route has  *)
(*    closed them all; one that its own browser closed sends nothing more, *)
(*    which is a behaviour without its commands.                           *)
(***************************************************************************)
EXTENDS Naturals

CONSTANTS
    Films,       \* ids of films
    Unmeasured,  \* the films whose duration is unknown
    Length,      \* the duration of the others
    Rates,       \* playback rates in half speeds, Normal among them
    Targets,     \* the positions that are sought
    Ids,         \* command ids
    Lead,        \* the 750 ms between a command and its effect
    Ttl,         \* the ten minutes a result is kept
    MaxTime,     \* bound: the last tick
    None         \* null

Normal == 2

ASSUME PlaybackAssumption ==
    /\ None \notin Films
    /\ Length \in Nat
    /\ Rates \subseteq Nat /\ Normal \in Rates
    /\ Targets \subseteq Nat
    /\ Lead \in Nat /\ Ttl \in Nat /\ MaxTime \in Nat

VARIABLES
    now,         \* the clock of the API process
    status,      \* rooms.status, "provisioned" where accounts:provision wrote 'closed'
    heard,       \* None while the room's sockets are open, then the last revision they told
    revision,    \* room_state.revision
    program,     \* room_state: mode, media_id and transport_json
    results,     \* room_commands, by command id
    library,     \* the films that are ready and not in the trash
    shown,       \* the snapshot that was broadcast last
    accepted     \* what each applied command was (history, read only by retries)

vars == <<now, status, heard, revision, program, results, library, shown, accepted>>

Transport ==
    [state : {"playing", "paused"}, position : Nat, rate : Nat, anchor : Nat]
Program ==
    [mode : {"idle", "vod", "live"}, media : Films \cup {None}, transport : Transport \cup {None}]
Snapshot == [revision : Nat, program : Program]
Command ==
    [kind : {"select-vod"}, film : Films] \cup
    [kind : {"seek"}, position : Targets] \cup
    [kind : {"set-rate"}, rate : Rates] \cup
    [kind : {"select-live", "restore-vod", "play", "pause"}]
Request == [expected : Nat, command : Command]
Row == [result : Snapshot, expires : Nat]

ASSUME NullAssumption ==
    /\ None \notin Transport \cup Request \cup Row
    /\ None \notin Nat

\* Every column and message keeps its type, through every command and close.
TypeOK ==
    /\ now \in Nat
    /\ status \in {"active", "closed", "provisioned"}
    /\ heard \in Nat \cup {None}
    /\ revision \in Nat
    /\ program \in Program
    /\ results \in [Ids -> Row \cup {None}]
    /\ library \subseteq Films
    /\ shown \in Snapshot
    /\ accepted \in [Ids -> Request \cup {None}]

Idle == [mode |-> "idle", media |-> None, transport |-> None]

Current == [revision |-> revision, program |-> program]

(***************************************************************************)
(* The position of the program                                             *)
(***************************************************************************)

\* projectPosition, and the position that reconcileVod steers a page to.
PositionAt(t, at) ==
    IF t.state = "paused" \/ at <= t.anchor THEN t.position
    ELSE t.position + (at - t.anchor) * t.rate

DurationOf(f) == IF f \in Unmeasured THEN 0 ELSE Length

\* A known duration bounds the position that is sought.
Clamped(p, f) == IF DurationOf(f) > 0 /\ p > DurationOf(f) THEN DurationOf(f) ELSE p

\* The anchor that a command leaves, which takes effect at now + Lead.
Anchor(state, position, rate) ==
    [state |-> state, position |-> position, rate |-> rate, anchor |-> now + Lead]

Projected == PositionAt(program.transport, now + Lead)

(***************************************************************************)
(* applyRoomCommand: the program that each kind of command leaves          *)
(***************************************************************************)

SelectVod(c) ==
    /\ c.kind = "select-vod"
    /\ c.film \in library
    /\ program' = [mode |-> "vod", media |-> c.film, transport |-> Anchor("paused", 0, Normal)]

SelectLive(c) ==
    /\ c.kind = "select-live"
    /\ program' = [program EXCEPT !.mode = "live",
                                  !.transport = IF @ = None THEN None
                                                ELSE Anchor("paused", Projected, @.rate)]

\* The stored position is kept as it is, also when the room is in vod mode.
RestoreVod(c) ==
    /\ c.kind = "restore-vod"
    /\ program.media \in library
    /\ program' = [program EXCEPT !.mode = "vod",
                                  !.transport = IF @ = None THEN Anchor("paused", 0, Normal)
                                                ELSE Anchor("paused", @.position, @.rate)]

\* Mutant: the new state starts from the old anchor's position.
PlayOrPauseUnprojected(c) ==
    /\ c.kind \in {"play", "pause"}
    /\ program.mode = "vod" /\ program.transport # None
    /\ program' = [program EXCEPT !.transport =
                       Anchor(IF c.kind = "play" THEN "playing" ELSE "paused", @.position, @.rate)]

\* Mutant: the anchor is given the name of the command as its state.
PlayOrPauseMisnamed(c) ==
    /\ c.kind \in {"play", "pause"}
    /\ program.mode = "vod" /\ program.transport # None
    /\ program' = [program EXCEPT !.transport = Anchor(c.kind, Projected, @.rate)]

PlayOrPause(c) ==
    /\ c.kind \in {"play", "pause"}
    /\ program.mode = "vod" /\ program.transport # None
    /\ program' = [program EXCEPT !.transport =
                       Anchor(IF c.kind = "play" THEN "playing" ELSE "paused", Projected, @.rate)]

Seek(c) ==
    /\ c.kind = "seek"
    /\ program.mode = "vod" /\ program.transport # None
    /\ program' = [program EXCEPT !.transport =
                       Anchor(@.state, Clamped(c.position, program.media), @.rate)]

SetRate(c) ==
    /\ c.kind = "set-rate"
    /\ program.mode = "vod" /\ program.transport # None
    /\ program' = [program EXCEPT !.transport = Anchor(@.state, Projected, c.rate)]

ApplyRoomCommand(c) ==
    \/ SelectVod(c) \/ SelectLive(c) \/ RestoreVod(c)
    \/ PlayOrPause(c) \/ Seek(c) \/ SetRate(c)

(***************************************************************************)
(* applyCommand, the handler of room.command                               *)
(***************************************************************************)

\* A result that has not expired.
Remembered(id) == results[id] # None /\ results[id].expires > now

SocketsOpen == heard = None

\* Snapshots go to open sockets, whatever became of the room.
Broadcast(s) == shown' = IF SocketsOpen THEN s ELSE shown

\* A revision that some page was sent, the highest by the time the sockets were
\* closed; messages that were under way then still arrive.
Told(n) == n \in 0 .. IF SocketsOpen THEN revision ELSE heard

\* Mutant: the revision of the request is not compared.
ApplyUnconditionally(id, expected, c) ==
    /\ ~Remembered(id)
    /\ ApplyRoomCommand(c)
    /\ revision' = revision + 1
    /\ results' = [i \in Ids |->
           IF i = id THEN [result |-> Current', expires |-> now + Ttl]
           ELSE IF results[i] # None /\ results[i].expires <= now THEN None
           ELSE results[i]]
    /\ accepted' = [accepted EXCEPT ![id] = [expected |-> expected, command |-> c]]
    /\ Broadcast(Current')
    /\ UNCHANGED <<now, status, heard, library>>

\* A command with a stale revision is rejected; nothing here asks whether the
\* room is still active.
Apply(id, expected, c) ==
    /\ ~Remembered(id)
    /\ expected = revision
    /\ ApplyRoomCommand(c)
    /\ revision' = revision + 1
    /\ results' = [i \in Ids |->
           IF i = id THEN [result |-> Current', expires |-> now + Ttl]
           ELSE IF results[i] # None /\ results[i].expires <= now THEN None
           ELSE results[i]]
    /\ accepted' = [accepted EXCEPT ![id] = [expected |-> expected, command |-> c]]
    /\ Broadcast(Current')
    /\ UNCHANGED <<now, status, heard, library>>

\* The stored result is the answer, and it is broadcast like any other.
Repeat(id) ==
    /\ Remembered(id)
    /\ Broadcast(results[id].result)
    /\ UNCHANGED <<now, status, heard, revision, program, results, library, accepted>>

\* A first attempt, or the same request once more.
RoomCommand(id, expected, c) ==
    /\ Told(expected)
    /\ accepted[id] \in {None, [expected |-> expected, command |-> c]}
    /\ \/ Apply(id, expected, c)
       \/ Repeat(id)

\* room.hello, and the notice that a member was kicked or left.
SendSnapshot ==
    /\ SocketsOpen
    /\ Broadcast(Current)
    /\ UNCHANGED <<now, status, heard, revision, program, results, library, accepted>>

(***************************************************************************)
(* The rest of the room's life                                             *)
(***************************************************************************)

\* Mutant: closing empties the program and leaves the revision.
CloseRoomKeepingRevision ==
    /\ SocketsOpen
    /\ heard' = revision
    /\ \/ /\ status = "active"
          /\ status' = "closed"
          /\ program' = Idle
          /\ UNCHANGED revision
       \/ /\ status = "provisioned"
          /\ UNCHANGED <<status, revision, program>>
    /\ UNCHANGED <<now, results, library, shown, accepted>>

\* The close routes close the sockets in any case; closeRoomInternal leaves a
\* room alone that is closed already.
CloseRoom ==
    /\ SocketsOpen
    /\ heard' = revision
    /\ \/ /\ status = "active"
          /\ status' = "closed"
          /\ program' = Idle
          /\ revision' = revision + 1
       \/ /\ status = "provisioned"
          /\ UNCHANGED <<status, revision, program>>
    /\ UNCHANGED <<now, results, library, shown, accepted>>

\* accounts:provision, in a process of its own: it closes the room, leaves its
\* program and revision, and reaches no socket.
ProvisionAccounts ==
    /\ status = "active"
    /\ status' = "provisioned"
    /\ UNCHANGED <<now, heard, revision, program, results, library, shown, accepted>>

\* A job completes as compatible.
AddFilm(f) ==
    /\ f \notin library
    /\ library' = library \cup {f}
    /\ UNCHANGED <<now, status, heard, revision, program, results, shown, accepted>>

\* Mutant: only a film that is being shown is in use.
TrashWhileLive(f) ==
    /\ f \in library
    /\ ~(status = "active" /\ program.mode = "vod" /\ program.media = f)
    /\ library' = library \ {f}
    /\ UNCHANGED <<now, status, heard, revision, program, results, shown, accepted>>

TrashMedia(f) ==
    /\ f \in library
    /\ ~(status = "active" /\ program.media = f)     \* else MEDIA_IN_USE
    /\ library' = library \ {f}
    /\ UNCHANGED <<now, status, heard, revision, program, results, shown, accepted>>

Tick ==
    /\ now < MaxTime
    /\ now' = now + 1
    /\ UNCHANGED <<status, heard, revision, program, results, library, shown, accepted>>

(***************************************************************************)
(* The specification                                                       *)
(***************************************************************************)

\* The room as createAccountRoom leaves it; pages start from its snapshot.
Init ==
    /\ now = 0
    /\ status = "active"
    /\ heard = None
    /\ revision = 0
    /\ program = Idle
    /\ results = [id \in Ids |-> None]
    /\ library \in SUBSET Films
    /\ shown = Current
    /\ accepted = [id \in Ids |-> None]

Next ==
    \/ \E id \in Ids, expected \in 0 .. revision, c \in Command : RoomCommand(id, expected, c)
    \/ SendSnapshot
    \/ CloseRoom
    \/ ProvisionAccounts
    \/ \E f \in Films : AddFilm(f) \/ TrashMedia(f)
    \/ Tick

Spec == Init /\ [][Next]_vars

(***************************************************************************)
(* What must hold                                                          *)
(***************************************************************************)

\* The command stream keeps the promise of ProgramLog: no command is carried
\* out twice, not even when it is repeated after its result has expired, and
\* none after the room was closed from its seat or from the console, although
\* applyCommand does not ask.  A room that accounts:provision has closed still
\* carries commands out: it counts as open here.
Log == INSTANCE ProgramLog
       WITH version <- revision,
            done <- {id \in Ids : accepted[id] # None},
            open <- status # "closed"
ImplementsLog == Log!Spec

\* A revision stands for one program: whoever has seen revision n, in a
\* broadcast or as the stored answer to a command, has seen the same program,
\* so a host that names it acts on what it saw.
Snapshots ==
    {Current, shown} \cup {results[id].result : id \in {i \in Ids : results[i] # None}}
OneProgramPerRevision ==
    \A s, t \in Snapshots : s.revision = t.revision => s.program = t.program

\* The film of an active room stays available, also while the room shows the
\* live program, so that the host can go back to it; vod mode has a film and a
\* position, also in a room that accounts:provision has closed; and no command
\* that was under way gives a room its host has closed a program again.
FilmStaysAvailable ==
    /\ status = "active" /\ program.media # None => program.media \in library
    /\ program.mode = "vod" => program.media # None /\ program.transport # None
    /\ status = "closed" => program = Idle

Kind == {accepted'[id].command.kind : id \in {i \in Ids : accepted'[i] # accepted[i]}}

\* Playing, pausing, a new rate and the switch to the live program do not move
\* the film: at the instant the command takes effect the old anchor and the new
\* one give the same position, also when commands follow each other faster than
\* they take effect.
FilmDoesNotJump ==
    [][Kind \cap {"play", "pause", "set-rate", "select-live"} # {}
          /\ program.transport # None =>
       PositionAt(program'.transport, now + Lead) = PositionAt(program.transport, now + Lead)]_vars
=============================================================================
