# simple-watch in TLA+

simple-watch is a self-hosted room for watching films together. One API
process (`apps/api`, Fastify over synchronous SQLite) serves one active room: a
host runs it, viewers with fixed accounts sit in it or wait for a seat, pages
follow the host's program over WebSockets, MediaMTX carries the live program and
LiveKit the voices, and one worker process (`apps/worker`) probes uploads, takes
in SFTP files, and carries out what the API asks of MediaMTX and LiveKit.

This directory holds specifications of that program, model-checked with TLC and
proved with TLAPS. Source paths are relative to `src/`; the exact lines
behind each definition are in `PROJECT.json` under `map`.

## 1. Inventory

### How the parts interact

    browsers --HTTP--> app.ts --> auth-service / room-service / media-service
       |  \--SSE /lobby/events (2 s timer) --> getAccountRoomState
       |  \--WebSocket--> registerWebSocketRoute --> applyCommand, RoomHub
    MediaMTX --authorize--> transport-service     LiveKit --webhook--> transport-routes
    worker --claim/complete/fail--> outbox-service --kick/remove--> MediaMTX, LiveKit
    worker --claim/result--> media-service (jobs)
    accounts:manage, accounts:provision, library:reset: processes of their own on
    the same database

Every API handler is synchronous except where it awaits (argon2 in login, the
signature of a token, tus callbacks, outgoing HTTP), and every multi-statement
write is a SQLite transaction, so a handler is one step, or one step on each side
of its await. The CLIs and the worker run at any time between those steps.

### Components

| Component | State it keeps | Operations | Hard behaviour | What makes it correct |
|---|---|---|---|---|
| Rooms, members, waiting queue (`room-service.ts`, `auth-service.ts`) | `rooms`, `room_members`, `room_device_leases`, `room_wait_queue`, `account_sessions` | create, enter, take over, poll, leave, kick, close; login, resume with rotation, logout, expiry; account CLIs | every poll may seat somebody; rows of four tables must agree after any order of requests; login awaits | capacity; leases and queue rows name own, unrevoked sessions of the right accounts; a kick lasts; first come first served |
| Waiting pages (`GET /lobby/events`, `HomePage.tsx`) | open streams and timers | open, tick, close | nobody but a page that polls turns a place in line into a seat | a free seat is offered |
| Room sockets (`app.ts`, `room-hub.ts`) | open sockets with the identity they authenticated | open, heartbeat, close; closeMember, closeRoom | identity is read once and goes stale | who left or was removed is off; only the newest device is on |
| Shared program (`applyCommand`, `applyRoomCommand`) | `room_state`, `room_commands` | seven host commands, repeat, hello, close | retries, two host devices, anchors in the future, library requests in between | at most once; a revision names one program; position is kept; film stays available |
| Media access (`transport-service.ts`, revocations of `room-service.ts`) | `token_jti`, `media_transport_sessions` | issue, authorize, revoke by takeover, kick, leave, close, CLI | token issue awaits; MediaMTX sessions outlive rows | who was removed is cut off |
| Service outbox and reconciliation (`outbox-service.ts`, worker) | `service_outbox` with leases | claim, complete, fail, webhook, snapshot | worker restarts, late and lost calls, lease expiry, stale snapshots | nothing is completed before it was carried out; removed participants are out in the end |
| Library, uploads, jobs (`media-service.ts`, worker) | `media`, `uploads`, `media_jobs`, `subtitles`, the directories uploads, inbox/sftp, inbox, library, trash | authorize, finish, cancel upload; import; rescan, subtitle, trash, purge; claim, result | reservation of disk space, a lease that nobody renews (the heartbeat route is never called), a crash between moving a file and reporting it, trash while the worker moves | rows name files that exist; one inspection at a time; a purge leaves nothing; an interrupted job can be done again; reservations add up |
| SFTP scanner (`sftp-scanner.ts`) | seen sizes and times, files | scan, move, register | partial uploads, restarts | only whole files are imported, each once, and each in the end |
| Library reset CLI (`library-reset-service.ts`) | all library tables and roots | reset | files are outside the transaction | all or nothing seen by API and worker |
| Accounts and sessions (`auth-service.ts`, `store.ts`, `HomePage.tsx`) | `accounts`, `account_sessions` with CSRF hashes, `auth_rate_limits`; the cookie jar and each tab's store | login, resume with rotation, bootstrap, logout, manage, provision | await in login between reading and writing; two persisted windows; tabs that share a cookie and not a token | a cut-off session stays cut off; failures are limited; a page acts for the account it shows |
| Clock and drift (`packages/sync`, `reconcileVod` of `RoomPage.tsx`) | clock offset, the video element, since when the drift is excessive | reconcile on snapshots, element events and a 500 ms interval | thresholds, clamps, anchors that are still to come, a video that cannot seek yet | the page comes to the room's position and says so when it cannot |
| Live reader and voice of the room page (`RoomPage.tsx`, `live-program.ts`) | generation, reader, tracks, retry timer; voice room | enable, retry, reconnect, close; join, drop, leave | answers and callbacks that come after the page went on; one rate limit for both | one reader at most; nothing after the program is off; the program comes back |
| Public rate limiter | window per key | consume | window edge | never more than the limit in a window |
| Database, contracts, media rules, configuration, UI | schema, schemas, tables of formats | - | none of their own | - |

`PROJECT.json` lists every component with its status, and under `hazards` each
hard behaviour at the line where it bites, with the properties that cover it.

## 2. Modules

| Module | Stands for | Builds on |
|---|---|---|
| `RoomSeats` | seats, leases, queue and sessions | - |
| `RoomLobby` | the waiting pages | EXTENDS `RoomSeats`; each request is a step of its `Next` |
| `RoomSockets` | the hub and its sockets | EXTENDS `RoomSeats`; each action is a `RoomSeats` action and what its route closes |
| `ProgramLog` | abstract: commands happen at most once, in order, in an open room | - |
| `RoomPlayback` | the shared program | implements `ProgramLog` (`Log`, with `done` the command ids that were applied) |
| `MediaAccess` | tokens, media sessions, outbox, worker, voice room | - |
| `FilmLife` | abstract: a film is inspected, settles, and leaves through the trash; an upload comes once | - |
| `MediaJobs` | uploads, SFTP imports, jobs, trash, and the worker that inspects and moves files | implements `FilmLife` (`Life`; a film's stage is read off its row) |
| `AccountSessions` | logins, sessions, tokens, the tabs of a browser | - |
| `RoomPage` | a guest's page: socket, live program, voice, and the rate limit of credentials | - |
| `VodSync` | the film on a page: clock, drift, corrections | - |
| `Uploads` | reservation, tusd and its hooks, the disk | - (its `received` is where an upload of `MediaJobs` begins; up to there it implements `FilmLife` as well) |
| `SftpImport` | SFTP client, scanner, move, registration | - (its registration is `ImportSftpFile` of `MediaJobs`) |
| `*_proofs` (of `RoomSeats` with `RoomSockets` and `RoomLobby`, `RoomPlayback`, `MediaAccess`, `MediaJobs`, `AccountSessions`, `RoomPage`, `VodSync`) | theorems | EXTEND the modules they are about |
| `Intake_proofs` | theorems about `SftpImport` and `Uploads`, the two ways a film gets to the server | EXTENDS both |
| `MC*` | symmetry sets for TLC | EXTEND the module they check |

Definitions named in a comment that begins with `Mutant:` are faulty variants,
used only to see that a property can tell them from the code.

### RoomSeats

One action per handler. State is per account: `seat[a]` is the newest member row
in the active room, with `left_at` split by who wrote it, because `leave`
leaves a suppression row behind and logout does not. `Enter` is
`enterAccountRoom` with all its branches, called with the tables that the same
request has just renamed (`ResumeRotated`). `ahead` is the order of `queued_at`.
Login is two actions, around its password check; `ManageAccount` and
`ProvisionAccounts` are the CLIs. Sessions that expired keep their rows in the
database for ever; all of them are `Stale`. `updateRoom` only
closes the room (`CloseRoom`). Not in the model: `touch` (a column nothing here
reads), and equal `queued_at` values.

### RoomLobby

`OpenLobby`, `LobbyTick` (one `getAccountRoomState` every two seconds) and
`CloseLobby`; any other request ends the streams of a session that is gone.

### RoomSockets

A socket is `by` (the browser session that opened it), the account, and
whether its member id is still the account's newest row. A takeover through
`POST /room/enter` or `/room/takeover`, a leave, a kick and a close each call
the hub; login, resume, logout, expiry and the CLIs do not (`OtherStep`). What
becomes of a socket in a step is `RowAfter` and `ByAfter`: nothing authenticates it
again, so that it must keep its account and never get a newer member row
(`SocketsKeepTheirOwner`).

### RoomPlayback

`RoomCommand` is the message handler: a remembered result is broadcast again
(`Repeat`), otherwise the revision is compared and `ApplyRoomCommand` makes the
next program. `shown` is the last broadcast. Time is in ticks, positions in half
ticks and rates in half speeds, so the code's projection is exact in naturals.
`accepted` is a history variable; only the requests a page may send again depend
on it. A room is closed in two ways. The close routes set it idle with a new
revision, if it is active, and close its sockets in any case; a command that is still
under way names at most the revision that the sockets had told by then (`heard`).
`accounts:provision`, in a process of its own, writes `closed` and nothing else
(`ProvisionAccounts`): program and revision stay, no socket is closed, and since
`applyCommand` never asks for an active room, commands of the open sockets are
carried out and broadcast until a close route closes them. `status` tells this
close (`provisioned`) from the other.

### MediaAccess

Members are viewers with a fresh member id per entry. `TakeOver`, `Remove`,
`ManageAccount`, `CloseRoom` and `ProvisionAccounts` are the revocations with the
outbox items each of them writes in its transaction (they differ: `Remove` writes
a kick item also when there is nothing to kick, `TakeOver` does not,
`ProvisionAccounts` writes none). The worker is a record: what item it carries
out, what call it waits for, which snapshot it is working through. Its calls may
fail, be lost, or arrive after it went on; a lease that ran out stays good until
the item is claimed again, as in `requireLease`. MediaMTX and LiveKit are
modelled only as what they admit and drop.

### MediaJobs

A film is the upload or the SFTP file it comes from. `upload`, `media`, `trashed`
and `finalPath` are columns of its rows; `files[f]` is the set of directories its
file is in, so that a rename changes one set and a copy makes it larger for a
while. `jobs` is the table `media_jobs` in the order of `created_at`: `overdue` is
a lease that ran out, `deleted` a row a purge took along. The worker goes `idle`,
`claimed`, `inspected`, perhaps `copied`, `moved` (of a subtitle `claimed`,
`written`), and ends the process (`down`)
on every exception, as `main.ts` does; `restart: unless-stopped` starts it
again. It may be killed in any phase (`Crash`), and its lease may run out while it
works, since nothing renews it (`Overrun`). `TrashMedia` moves the file of the recorded path and removes the film's own
directories whatever the worker has put there meanwhile (`target`). Results of the
inspection are chosen anew each time. Not in the model: sizes and
reservations, names, and the order of two `created_at` values that are equal.

### AccountSessions

A session is its row and its cookie; `session[s]` is its account while it is
neither revoked nor expired. A CSRF token is only ever compared with the hash of
one row, so a copy of it is that row's name while it matches, and `Stale` when the
row got another token or ended: `Reply` and `End` replace it everywhere at once.
Login is two steps around its password check. `LoginAllowed` reads both
windows of failures before it, `RecordLoginFailure` writes them after it. `Resume`
rotates at any time, with a new row in place of the old one; the old cookie may
still be in another tab's request. Tabs share `cookie`, and each has a store
(`page`) and one request under way, whose answer may be lost. Most
requests that change something carry the same two credentials through the same
checks (`authenticate`, `requireCsrf`); logout stands for those. `POST /room/enter`
and `/room/takeover` carry the cookie alone (`app.ts:440-467`) and act for the account
of the cookie, whatever the page shows. `page[t].account` is the account whose token
the page holds: the bootstrap of the room page sets the token and not `store.account`
(`RoomPage.tsx:118-125`). A logout that fails clears the landing page and leaves the
administration page as it is (`AfterFailure`).

### RoomPage

An attempt of `enableLiveProgram` is `requesting` its credential or `reading`;
`current` is the attempt of the present generation. `LiveEffect` is the React effect,
run some time after one of the values it depends on changed (`due`). `EndProgram` is
`closeLiveProgram`, and with `retry` `scheduleLiveRetry`. A call of `enableVoice`
goes through its awaits one by one (`step`) while LiveKit may disconnect its room
(`link`), in any order. Both kinds of credential requests are recorded in one
bucket (`used`), a fixed window of the public rate limiter. `Leave` and `Unmount` are
what ends a page.

### VodSync

Time goes in steps of 250 ms and positions in units of 25 microseconds, in which
speeds of one half to two, and 3 % more or less, are whole numbers. What is kept is
the drift. `Reconcile` is `reconcileVod`: without metadata it does nothing, paused
it holds the position, playing it seeks, corrects the speed or leaves it alone. A
command comes with an anchor up to 750 ms ahead; until then the desired position
stands still. `Pong` moves the estimate of the server's clock by what two delays
make of it.

### Uploads

A block of space is a share of a chunk. The `k`-th block of an upload's file is the
pair of both, so that a sum over uploads is the size of a set of blocks (`Blocks`),
for uploads in any number. `AuthorizeUpload` is the transaction that
compares the free space, less what is reserved, with the declared size and a
reserve of 12 GiB. tusd asks before every request (`TusRequestIsAuthorized`), then
writes for as long as the PATCH lasts, whatever becomes of the row. Post hooks go to
a set: they arrive later in any order, again when their answer was lost, or not at
all. A removed file takes its space until it is closed.

### SftpImport

A unit of time is half a minute. `seen` is the age of the scanner's observation:
a file that changed is unseen again. `Stable` is both conditions of `scan`: an
observation that is a minute old and agrees, and two minutes without a write.
`moveFile` is one step where rename works, and otherwise copy, rename and unlink
with the worker's death between them. `copies[f]` are the files in inbox/sftp
that came of a client's file, each with the films made of it. An exception ends the
worker, as `main.ts` does, and it starts again without observations.

## 3. Runs

| Run | Shows | Instance and why it is enough |
|---|---|---|
| `sockets_devices` | capacity, line, leases, the host's seat, kicks, sockets keep their owner and are closed for removed members | the host and two viewers for a room of two: one seated, one in line, who may change places; three browsers, two of one account and another's; one socket. Two are in line while no room is open, and one of them is seated when it opens; the other may be overtaken by a viewer who comes back |
| `lobby_withheld` | violated: see finding 1 | two viewers with a session each, a room of two |
| `playback_commands` | at most once, revisions name programs, film stays and keeps its position, refinement of `ProgramLog` | three commands, two films (one without a duration), results that expire after two ticks, a clock of four: long enough for a repeat before and after expiry and for the film's end; one close of either kind or both |
| `access_removal` | kicks are carried out before they are completed; a removed member is out of the voice room for good in the end | one member with a media session and a microphone, who joins again while its token lasts; two items; restarts, lost and late calls. Several sessions, tokens and members are the theorem's part |
| `access_cut_off` | violated: see finding 2 | one member, two media sessions, three items |
| `media_library` | rows and files agree, one inspection at a time, a purge leaves nothing, no retry loses a film, inspections end, refinement of `FilmLife` | an upload and an SFTP file; three jobs, the least for a film that is inspected, rescanned or subtitled while the other one is in line; one fault: a crash in any phase or a lease that runs out under the worker. Any number of them is the theorems' part |
| `media_crash` | violated: see finding 3 | one upload, two jobs, one fault |
| `account_tabs` | failures are limited, cut-off sessions stay cut off, pages act for the account they show | two accounts, two tabs, two sessions: both tabs logged in apart, or one session rotated under the other's token; limits of one per name and two per address, so that either bites first |
| `sync_settle` | pages catch up, failures clear | rates 1 and 2, jumps to each side of every threshold, two events of any kind after the start; drifts beyond 1.1 s are cut off, which is beyond all thresholds |
| `page_live` | one reader, nothing after off, joining ends, the program comes back | two attempts (one late, one current), one voice room, two requests in a window (20 in the code), two failures; the limit itself refuses without being counted. An older voice room that disconnects beside a newer call needs two calls: that is the part of the theorem `JoiningEnds` |
| `sftp_import` | films are whole, single, and made in the end | two files, one written in place and one renamed, one copy that fails or one kill |
| `uploads_disk` | promises fit, one film per upload, nothing is revived | two uploads of two or three blocks on a disk of five with one in reserve; two hooks under way |

Between them the passing runs fire every action of every module but `RoomLobby`, whose
one property is refuted, and for every
property of a passing run `PROJECT.json` lists a mutant of the code that violates it.

Bounds by name: `MaxVerifying` (logins in flight), `MaxSockets`, `MaxTime`,
`MaxItems` (a step that would overfill the outbox does not happen), `MaxJobs` (a
request that would insert one more does not happen), `MaxFaults`,
`MaxFailures`, `MaxEvents`, `MaxDrift`, `MaxHooks` (a hook beyond it is lost, as any
hook may be), and the sizes of the constant sets. Two more are marked `BOUND` in
`MediaJobs`: a film is not purged while the worker is at it (a day against
minutes), and the worker is started again in less time than a lease lasts.
Room ids are used again once no row names
them; the code's ids are never used again, which the model's `Unused` and
`CreateAccountRoom` conditions preserve for everything that reads them.
`page_live` and `uploads_disk` do not check deadlock: a page may be gone, and all
uploads may be over.

### Fairness

- `PollingFairness`: the two-second timer of an open lobby stream fires. Nothing
  makes a user open a page, leave or log in.
- `MediaAccess!Fairness`: the worker's loop goes on (weak fairness of its outbox
  steps), voice tokens expire (two minutes), and the reconciliation, which is
  asked for every 15 seconds, is not always cut short at the same point (strong
  fairness: a restart or a failed call disables the step each time, and comes
  back). Nothing is assumed of webhooks or of calls that report results.
- `MediaJobs!Fairness`: the worker goes on and is started again (weak fairness of
  `Work` and `Restart`), leases run out although the worker is down from time to
  time, and a job that stays claimable is claimed (strong fairness per job).
  Claims go in the order of `created_at`, so a job that ends the process each time
  comes back first when its lease runs out; but that takes sixty seconds, thirty
  of the worker's polling rounds, in which it takes the others.
- `VodSync!Fairness`: time passes, the interval fires, and what the element loads
  or buffers arrives. No command and no click is assumed.
- `RoomPage!Fairness`: effects run, the retry timer fires, requests for live
  credentials are answered one way or the other, tracks and playback promises
  settle, and the rate limiter's window passes. Failures are bounded, refusals for
  the rate are not. `LiveComesBack` is about a room that stays live while nobody clicks.
- `SftpImport!Fairness`: the worker goes on and is started again, time passes, a
  client that began goes on writing, and the API accepts a registration if it is
  asked again and again (strong fairness: each refusal ends that round).

### Findings

1. `lobby_withheld`. A seat goes to the head of the line only, and a row keeps its
   place when its viewer closes the waiting page: the page of the viewer behind
   it polls for ever beside a free seat, although it says that it will let its viewer in
   by itself (`room-service.ts:269`, `HomePage.tsx:242`, `IMPLEMENTATION_PLAN.md:18`).
2. `access_cut_off`. Completing a kick item closes all open session rows of the
   member, also those opened since; when that member is kicked later, its
   connected session is in no item and nothing disconnects it.
3. `media_crash`. When the worker dies after it moved the file and before its
   result was accepted, or the result is refused because its lease had run out, the job is claimed again each time its lease runs out,
   finds no source and ends the process; the film stays in the state scanning.

### Seen while modelling

No run stands for these; they were met in the source, and the module named has the steps.

- `accounts:provision` closes the active room and leaves its program, revision and
  sockets (`auth-service.ts:244-248`): an open host socket goes on commanding a
  closed room, against `IMPLEMENTATION_PLAN.md:792`. `RoomPlayback`,
  `ProvisionAccounts`.
- A password that is changed while a login with the old one is being checked leaves the
  new session good (`auth-service.ts:388`, `docs/fixed-accounts.md:43`), and an account
  that is disabled and enabled again meanwhile is let in. `AccountSessions`,
  `LoginFinish`.
- The reconciliation of the voice room works through a list it read earlier, and
  removes a participant that joined since. `MediaAccess`.
- A socket keeps the member id that it was opened with: a kick after the account
  came back under a new id leaves it open (`app.ts:654`,
  `IMPLEMENTATION_PLAN.md:791`). `RoomSockets`.
- The stored result of a repeated command is broadcast to the room and takes
  pages back to an older program (`app.ts:894`, `docs/websocket.md:24`).
  `RoomPlayback`, `Repeat`.
- Logging out clears the page even if the request failed (`HomePage.tsx:120`); the
  session and its cookie live on (`IMPLEMENTATION_PLAN.md:814`). `AccountSessions`.
- The correction is 3 % where `IMPLEMENTATION_PLAN.md:1017` says 2 %; it has no time
  limit of 5 s; and at a rate of 2 the clamp leaves a page that is 120 to 500 ms
  behind where it is (`AtTheLimit`). `syncFailed` is judged by the drift before the
  seek that repairs it, so the message may show for one more interval. `VodSync`.
- The live program is tried again every 2 s, where `IMPLEMENTATION_PLAN.md:1158` has
  1/2/4/8/15 s; the rate limit then makes it wait for the window. A rejected
  `play()` is not tried again (`Blocked`). `RoomPage`.
- `enableVoice` that is past its request when the page goes keeps its room and
  microphone (`RoomPage.tsx:502`); a `startAudio` that fails leaves its room
  connected; a room that disconnects during the microphone prompt is shown as
  connected. `RoomPage`.
- The scanner's errors end the worker: a file that its client removes during a scan
  (`main.ts:84`). When rename is refused with EXDEV, a worker killed in the middle
  leaves a `.tmp` that `pendingImports` takes for a film, and one killed before the
  unlink imports the file twice; `IMPLEMENTATION_PLAN.md:1040` expects a rename on one
  file system. An empty file is refused by the API for ever. `SftpImport`, `torn`.
- An upload's token and reservation last one hour (`IMPLEMENTATION_PLAN.md:508`: 24), a
  file of an upload that expired stays on the disk, received bytes may go
  back when progress hooks cross, the reserved bytes are not reduced by what has
  been received (`IMPLEMENTATION_PLAN.md:494`, which is on the safe side), and a
  `post-finish` that is lost is never made up for (`IMPLEMENTATION_PLAN.md:1031`).
  A PATCH that was let through writes on after its upload ended: `SpaceIsKept` has
  one chunk for each. `Uploads`.
- The library reset deletes `rooms` although `room_wait_queue` may name one in
  `suppressed_room_id`; the foreign key then refuses the whole reset.

## 4. Proofs

All theorems hold for every value of the constants that satisfies the named
assumptions (the `...Assumption`s of each module): finite rosters, tabs and uploads, host not a viewer,
a room of at least one seat, uploads that are not SFTP files, limits that are not
zero, a client that never pauses for two minutes in the middle of a file it writes
in place, `None` and `Stale` different from real ids.

**RoomSeats.** The inductive invariant is `Inv`: `TypeOK`, `EmptyWithoutRoom`,
`HostKeepsSeat`, `LeaseFollowsSeat` and `QueueRowsAreCurrent` together. None is
inductive alone: `Enter` decides by the member row, the lease and the queue row of
an account at once, and `EmptyWithoutRoom` says that a new room starts from
nothing. `EnterKeepsInv` is the heart of it: stated for any tables `L`, `Q` that a
request has renamed (`NamesOwn`), it serves poll, login, rotation and takeover.
Capacity is proved apart: every step seats at most one account and only when there
is a free seat (`SeatsOneAtATime`), so the cardinality of `Seated` stays bounded
(`CapacityStep`). `KicksLast` is the action property from the same invariant.

`LineIsKept` (first come, first served) has an invariant of its own, `LineInv`: `ahead` is a strict
order among those that wait. A step leaves it alone, takes some accounts out, or puts
one behind all others (`LineStep`). Nobody overtakes, because where somebody waits
somebody is at the head (`LineHasHead`: the row with the fewest rows in front of it), and
a seat is given only to the head or when nobody is in line (`SeatsInOrder`).

**RoomSockets and RoomLobby.** `SocketsImplementSeats` and `LobbyImplementsSeats` say that the
compositions with the hub and with the waiting pages are still `RoomSeats`, so all of
the above holds with sockets open and pages polling. `RemovedMembersGoOff` rests on
`SocketInv`: a step either removes
nobody (`RemovesNobody`) or closes the sockets of whom it removed.
`SocketsStayWithTheirOwner` is the action property `SocketsKeepTheirOwner` from the same
invariant: a socket's session is one of its account's or over (`SocketsOwned`), and each action
either keeps sockets, perhaps with one session renamed (`KeptOwners`), or opens one for a
session that holds a seat.

**RoomPlayback.** `Inv` adds `RevisionsArePast` to the checked invariants: every
snapshot that exists anywhere has a revision of the past or the present one, which
is why the next revision is new and `OneProgramPerRevision` is kept.
`FilmKeepsItsPosition` follows from the form of anchors; `CommandsRefineLog` is
the refinement: initial states map to initial states, `Apply` to `CarryOut`, the
close by the host to `Close`, everything else, `ProvisionAccounts` too, stutters, and `ApplyIsFirst` shows that an id
is applied once: its expected revision is in the past after that.

**MediaAccess.** `TypeCorrect` and `KicksHold`. The strengthening `KickInv` says
what the code relies on and nobody wrote down: a lease token is on at most one
item (`LeasesAreUnique`); the ids of a kick item are sessions that exist
(`KicksNameSessions`), and a session that was disconnected does not come back under
its id (`SessionsEnd`); the worker that holds the token of a kick has disconnected
whatever is not on its list any more (`WorkerKeepsCount`); and whoever sent a
completion that is still on its way had disconnected everything
(`CompletionsAreTrue`). Most actions only let the outbox grow and sessions end,
and share one lemma (`GrowingKeepsKickInv`); claim, completion, worker call and
report each have their own. `OnlyCompletionsShorten` and `WithoutIsInjective` lead
from the shorter outbox back to the call that shortened it.

**MediaJobs.** `TypeCorrect`, `ScanningHasOneInspection`, `LibraryHasItsFiles`,
`PurgedFilmsLeaveNothing`, `RetriesAreSafe` and `LibraryKeepsFilmLife`. `OneInspection` needs to
know that the job in the worker's hands is an open one (`WorkerInv`), or a late
result would complete a film twice, and that an upload nobody finished has neither
row nor job (`UploadInv`). The files need no strengthening: `completeJob` looks for
the file before it writes the row, and a trash leaves the row trashed.
`RetriesAreSafe` has no hypotheses about crashes and leases. It goes one job at a time
(`Retriable`): a film's file leaves the place that its job names only for the library or the
inbox, and the source of a copy is removed while the copy is there
(`WorkerKeepsFile`, unless the film was trashed). That a job finds the file again is not
true, and `media_crash` shows it; what is true is that the film is not lost.
`LibraryKeepsFilmLife` is the refinement: crashes and leases that ran out
may repeat an inspection, but never settle a film twice. A result can only be that of
the one open inspection, so that its film is scanning (`OneInspection`, `WorkerInv`);
of a film in the trash it changes nothing that shows. The addition is that only
films with a row are in the trash (`TrashHasRow`), or the next film of a purged SFTP
file would begin there.

**AccountSessions.** The inductive invariant is `Tokens`: every copy of a token that
matches a row, on a page or in an answer, stands beside the account of that row
(`TokenOf`), and a logout on its way carries the token of its page. That is what
makes `PagesKeepToTheirAccount` true although cookie and token come from different
places: the cookie chooses the row, the row's hash chooses the token, and the
token belongs to the page's account. `CutOffLasts` needs to know that a login which
passed its check inserts an unused row, and that the CLIs end an account's
sessions whenever they touch `enabled`. `FailuresStayLimited` counts the logins being
checked together with the failures: `Within` says that `failures[k]` and the
logins pending on `k` stay below the limit and the number of tabs.

**RoomPage.** `ReaderIsSingle` and `ProgramStaysOff` follow from one invariant
(`LiveInv`), which adds to both that nothing has begun before the bootstrap. Each action either
leaves the live program alone, begins an attempt, or ends the program, and the
three lemmas for that carry most of the proof. `JoiningEnds` is inductive with types.

**VodSync.** `EstimateError` and `CorrectionHelps` are about the pure functions:
the estimated offset is wrong by half of the measured round trip at most, and a
correction shrinks the drift in every step without passing zero unless the speed is
at its bound. `TypeCorrect` includes that every speed the page sets is one that
browsers play.

**SftpImport.** `CountInv` adds to the types what a scan has in hand (`Listed`,
`AtPlace`), and that a file which is still with the client has as many copies as
there were faults that made one (`Counts`, `Single`); hence `FilmsAreSingle`.
`FilmsAreWhole` adds `Rested`: a file that is not whole was touched less than
two minutes ago, which is where `PauseAssumption` is needed.

**Uploads.** `UploadsBecomeOneFilm` and `LateHooksReviveNothing` rest on `UploadInv`: an upload that is
open has made no film and reserves its whole size (`RowOK`), and no hook on its way
reports more than was written (`HookInv`), so that the last one speaks the truth. `HookEffect` is
what any hook can do: open, cancel or complete an upload that is open. From it also follows
`UploadsComeOnce`: up to the inspection an upload leads the same `FilmLife` that
`MediaJobs` continues, so that the two modules mean the same by an upload that is over.

`DiskIsNotOvercommitted` (`SpaceIsKept`) needs a strengthening, `SpaceInv`, because the
property allows a chunk to each upload that ended and is not inductive about who uses
it: what an upload may come to have on the disk is counted from the start
(`Extent`, with the rest of a PATCH that goes on after the end). Then every step but one
only shrinks what is claimed (`StepShrinks`), and `AuthorizeKeepsSpace` is the one that
adds to it, after the comparison of `authorizeUpload`: all that is claimed is on the disk, is
reserved, or is the rest of a PATCH whose upload ended, a chunk at most
(`SharesAreBounded`). No induction over uploads is needed: sums are
cardinalities of sets of blocks.

Only model-checked, because TLAPS does not reason about fairness here: the liveness properties `VoiceIsCleared`, `InspectionEnds`, `LiveComesBack`, `PagesCatchUp`, `FailureClears`
and `EveryFileIsImported`. Every other property of a passing run is a theorem.
`SeatIsOffered`, `KickedMemberIsCutOff` and `CrashesAreRecovered` do not hold (findings).

## 5. Plan for what is left

1. `MediaAccess`: which device a token was made for, so that a token signed across
   a takeover can be stated; the host's sessions and the OBS publish credential
   with its rotation.
2. `MediaJobs`: a crash of the API inside `trashMedia`, and the bound that keeps a
   purge away from the worker.
3. `KicksHold` says that a completed kick was carried out; what the outbox owes
   its consumers could be an abstract specification, as `ProgramLog` and `FilmLife`
   are for commands and films.

## 6. Not modelled

- The library reset: one sequential process, whose hazards come from what runs
  beside it against no stated promise (its row under `components`).
- The OBS publish credential and the host's media sessions; signed content URLs
  and subtitle tickets: they are issued and compared, and nothing waits for them.
- Database and migrations, contracts, configuration and the tables of media formats keep
  no state of their own. The constraints of the schema are in the modules that rely
  on them.
- The forms and the presentation of the pages, the diagnostics and the settings
  page, the host's camera.
