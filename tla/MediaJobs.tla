------------------------------ MODULE MediaJobs ------------------------------
(***************************************************************************)
(* How a film gets into the library and out of it: uploads and their       *)
(* cancellation, the import of files that came by SFTP, the jobs of the    *)
(* table media_jobs with their leases, the trash (media-service.ts), and   *)
(* the worker that inspects a film and moves its file                      *)
(* (worker/src/main.ts, process-media.ts).                                 *)
(*                                                                         *)
(* Abstractions.                                                           *)
(*  - a film is the upload or the SFTP file it comes from; completeUpload  *)
(*    makes one row of an upload, and a row of an SFTP file is found by    *)
(*    its source_path.                                                     *)
(*  - a film's file is the set of directories it is in: moving it is one   *)
(*    rename on one file system; a move to another one, and a remux, put   *)
(*    a complete file in place and then remove the source.                 *)
(*  - whether a film is compatible is found out by every inspection anew.  *)
(*  - one worker, as it is deployed: what holds a lease is the worker or   *)
(*    nobody, so that a lease has no token here.                           *)
(***************************************************************************)
EXTENDS Naturals, FiniteSets

CONSTANTS
    Uploads,      \* authorized uploads
    SftpFiles,    \* files the scanner moved to inbox/sftp
    Unreadable,   \* films on which ffprobe or ffmpeg fails
    MaxJobs,      \* bound: jobs ever created
    MaxFaults,    \* bound: crashes of the worker, and leases that run out under it
    None

Films == Uploads \cup SftpFiles
Jobs == 1..MaxJobs

Phases == {"down", "idle", "claimed", "inspected", "copied", "moved", "written"}

ASSUME JobsAssumption ==
    /\ Uploads \cap SftpFiles = {}
    /\ None \notin Films \cup Jobs
    /\ MaxJobs \in Nat /\ MaxFaults \in Nat

VARIABLES
    upload,     \* uploads.state; authorized and uploading are "open"
    media,      \* media.state, "none" without a row
    trashed,    \* media.trashed_at IS NOT NULL
    finalPath,  \* where media.probe_json says that the file is
    files,      \* the directories that hold the film's file
    jobs,       \* media_jobs, numbered in the order of created_at
    subtitles,  \* subtitle jobs with a row in the table subtitles
    tracks,     \* subtitle jobs whose file was written
    worker,     \* what the worker is doing
    faults,     \* how often it crashed, or was slower than its lease
    playing     \* room_state.media_id of the active room

libraryVars == <<upload, media, trashed, finalPath, files>>
subtitleVars == <<subtitles, tracks>>
workerVars == <<worker, faults>>
vars == <<libraryVars, jobs, subtitleVars, workerVars, playing>>

Places == {"uploads", "sftp", "inbox", "library", "trash"}

\* The payload's filePath is the film's file in the directory source.  A lease
\* that ran out is overdue; the jobs of a purged film are deleted.
Job == [film : Films, kind : {"probe", "subtitle"}, source : Places \cup {None},
        state : {"pending", "leased", "overdue", "completed", "deleted"}]

ASSUME JobRowAssumption == None \notin Job

\* fits: what the inspection found; target: the directory for it is there.
Worker == [phase : Phases, job : Jobs \cup {None}, fits : BOOLEAN, target : BOOLEAN]

Without(phase) == [phase |-> phase, job |-> None, fits |-> FALSE, target |-> FALSE]

\* Tables, files and the worker keep their types.
TypeOK ==
    /\ upload \in [Uploads -> {"open", "received", "cancelled", "published", "incompatible"}]
    /\ media \in [Films -> {"none", "scanning", "published", "incompatible"}]
    /\ trashed \in [Films -> BOOLEAN]
    /\ finalPath \in [Films -> {"library", "inbox", None}]
    /\ files \in [Films -> SUBSET Places]
    /\ jobs \in [Jobs -> Job \cup {None}]
    /\ subtitles \subseteq Jobs /\ tracks \subseteq Jobs
    /\ worker \in Worker
    /\ faults \in 0..MaxFaults
    /\ playing \in Films \cup {None}

-----------------------------------------------------------------------------
(* Jobs *)

Exists(j) == jobs[j] # None
Open(j) == Exists(j) /\ jobs[j].state \in {"pending", "leased", "overdue"}
\* Mutant: a lease that ran out is not taken back (DEF-026).
ClaimablePending(j) == Exists(j) /\ jobs[j].state = "pending"

Claimable(j) == Exists(j) /\ jobs[j].state \in {"pending", "overdue"}
Probes(f, j) == Open(j) /\ jobs[j].kind = "probe" /\ jobs[j].film = f

Insert(f, kind, source) ==
    \E j \in Jobs :
        /\ ~ Exists(j)
        /\ \A i \in Jobs : i < j => Exists(i)
        /\ jobs' = [jobs EXCEPT ![j] =
               [film |-> f, kind |-> kind, source |-> source, state |-> "pending"]]

SetState(j, state) == jobs' = [jobs EXCEPT ![j].state = state]

-----------------------------------------------------------------------------
(* Requests and hooks *)

\* Mutant: a hook that comes again is taken for another upload.
CompleteUploadAgain(u) ==
    /\ upload[u] # "cancelled"
    /\ upload' = [upload EXCEPT ![u] = "received"]
    /\ media' = [media EXCEPT ![u] = "scanning"]
    /\ files' = [files EXCEPT ![u] = {"uploads"}]
    /\ Insert(u, "probe", "uploads")
    /\ UNCHANGED <<trashed, finalPath, subtitleVars, workerVars, playing>>

\* The post-finish hook, or POST /internal/uploads/complete.
CompleteUpload(u) ==
    /\ upload[u] = "open"
    /\ upload' = [upload EXCEPT ![u] = "received"]
    /\ media' = [media EXCEPT ![u] = "scanning"]
    /\ files' = [files EXCEPT ![u] = {"uploads"}]
    /\ Insert(u, "probe", "uploads")
    /\ UNCHANGED <<trashed, finalPath, subtitleVars, workerVars, playing>>

\* Also post-terminate, of an upload that is open.
CancelUpload(u) ==
    /\ upload[u] \in {"open", "received"}
    /\ upload' = [upload EXCEPT ![u] = "cancelled"]
    /\ files' = [files EXCEPT ![u] = @ \ {"uploads"}]
    /\ UNCHANGED <<media, trashed, finalPath, jobs, subtitleVars, workerVars, playing>>

\* The worker reports every file it sees in inbox/sftp, between two jobs.
ImportSftpFile(f) ==
    /\ worker.phase = "idle"
    /\ "sftp" \in files[f] /\ media[f] = "none"
    /\ media' = [media EXCEPT ![f] = "scanning"]
    /\ Insert(f, "probe", "sftp")
    /\ UNCHANGED <<upload, trashed, finalPath, files, subtitleVars, workerVars, playing>>

\* Mutant: a film that is being scanned can be scanned once more.
RescanTwice(f) ==
    /\ media[f] \in {"incompatible", "scanning"} /\ ~ trashed[f]
    /\ finalPath[f] = "inbox" /\ "inbox" \in files[f]
    /\ media' = [media EXCEPT ![f] = "scanning"]
    /\ Insert(f, "probe", "inbox")
    /\ UNCHANGED <<upload, trashed, finalPath, files, subtitleVars, workerVars, playing>>

RescanMedia(f) ==
    /\ media[f] = "incompatible" /\ ~ trashed[f]
    /\ finalPath[f] = "inbox" /\ "inbox" \in files[f]
    /\ media' = [media EXCEPT ![f] = "scanning"]
    /\ Insert(f, "probe", "inbox")
    /\ UNCHANGED <<upload, trashed, finalPath, files, subtitleVars, workerVars, playing>>

CreateSubtitleJob(f) ==
    /\ media[f] = "published" /\ ~ trashed[f]
    /\ Insert(f, "subtitle", None)
    /\ UNCHANGED <<libraryVars, subtitleVars, workerVars, playing>>

WorksOn(f) == worker.job # None /\ Exists(worker.job) /\ jobs[worker.job].film = f

\* Mutant: the film of the active room can be trashed.
TrashWhilePlaying(f) ==
    /\ media[f] # "none" /\ ~ trashed[f]
    /\ trashed' = [trashed EXCEPT ![f] = TRUE]
    /\ files' = [files EXCEPT ![f] =
           (@ \ {"library", "inbox"}) \cup {p \in {"trash"} : finalPath[f] \in @}]
    /\ worker' = IF WorksOn(f) THEN [worker EXCEPT !.target = FALSE] ELSE worker
    /\ UNCHANGED <<upload, media, finalPath, jobs, subtitleVars, faults, playing>>

\* A file whose path is not recorded yet stays where it is, unless the worker
\* has moved it already: the film's own directories are removed in any case.
TrashMedia(f) ==
    /\ media[f] # "none" /\ ~ trashed[f] /\ playing # f
    /\ trashed' = [trashed EXCEPT ![f] = TRUE]
    /\ files' = [files EXCEPT ![f] =
           (@ \ {"library", "inbox"}) \cup {p \in {"trash"} : finalPath[f] \in @}]
    /\ worker' = IF WorksOn(f) THEN [worker EXCEPT !.target = FALSE] ELSE worker
    /\ UNCHANGED <<upload, media, finalPath, jobs, subtitleVars, faults, playing>>

\* Mutant: only what the trash holds is removed.
PurgeTrashOnly(f) ==
    LET gone == {j \in Jobs : Exists(j) /\ jobs[j].film = f} IN
    /\ trashed[f] /\ playing # f /\ ~ WorksOn(f)
    /\ media' = [media EXCEPT ![f] = "none"]
    /\ trashed' = [trashed EXCEPT ![f] = FALSE]
    /\ finalPath' = [finalPath EXCEPT ![f] = None]
    /\ files' = [files EXCEPT ![f] = @ \ {"trash"}]
    /\ jobs' = [j \in Jobs |-> IF j \in gone THEN [jobs[j] EXCEPT !.state = "deleted"] ELSE jobs[j]]
    /\ tracks' = tracks \ (subtitles \cap gone)
    /\ subtitles' = subtitles \ gone
    /\ UNCHANGED <<upload, workerVars, playing>>

\* A day later, when somebody lists the library.
\* BOUND: not while the worker is at this film.
PurgeExpiredTrash(f) ==
    LET gone == {j \in Jobs : Exists(j) /\ jobs[j].film = f} IN
    /\ trashed[f] /\ playing # f /\ ~ WorksOn(f)
    /\ media' = [media EXCEPT ![f] = "none"]
    /\ trashed' = [trashed EXCEPT ![f] = FALSE]
    /\ finalPath' = [finalPath EXCEPT ![f] = None]
    /\ files' = [files EXCEPT ![f] = @ \ {"trash", "library", "inbox"}]
    /\ jobs' = [j \in Jobs |-> IF j \in gone THEN [jobs[j] EXCEPT !.state = "deleted"] ELSE jobs[j]]
    /\ tracks' = tracks \ (subtitles \cap gone)
    /\ subtitles' = subtitles \ gone
    /\ UNCHANGED <<upload, workerVars, playing>>

\* select-vod of the host; the end of the room.
PlayFilm(f) ==
    /\ media[f] = "published" /\ ~ trashed[f] /\ playing # f
    /\ playing' = f
    /\ UNCHANGED <<libraryVars, jobs, subtitleVars, workerVars>>

StopFilm ==
    /\ playing # None
    /\ playing' = None
    /\ UNCHANGED <<libraryVars, jobs, subtitleVars, workerVars>>

-----------------------------------------------------------------------------
(* The worker *)

ClaimJob(j) ==
    /\ worker.phase = "idle"
    /\ Claimable(j)
    /\ \A i \in Jobs : Claimable(i) => j <= i
    /\ SetState(j, "leased")
    /\ worker' = [Without("claimed") EXCEPT !.job = j]
    /\ UNCHANGED <<libraryVars, subtitleVars, faults, playing>>

\* Sixty seconds, of a job that the worker gave up.
\* BOUND: the worker is started again in less time than a lease lasts.
LeaseRunsOut(j) ==
    /\ Exists(j) /\ jobs[j].state = "leased"
    /\ worker.phase # "down" /\ worker.job # j
    /\ SetState(j, "overdue")
    /\ UNCHANGED <<libraryVars, subtitleVars, workerVars, playing>>

\* The worker's job, its film, and where the inspection sends the file.
Current == jobs[worker.job]
Film == Current.film
Target == IF worker.fits THEN "library" ELSE "inbox"
SourceIsThere == Current.source \in files[Film]

In(phase, kind) == worker.phase = phase /\ Current.kind = kind

Proceed(phase) == worker' = [worker EXCEPT !.phase = phase]

\* The worker takes longer than the lease, which nobody renews.
\* BOUND: as often as faults allows.
Overrun ==
    /\ worker.job # None /\ Current.state = "leased"
    /\ faults < MaxFaults /\ faults' = faults + 1
    /\ SetState(worker.job, "overdue")
    /\ UNCHANGED <<libraryVars, subtitleVars, worker, playing>>

\* An exception, or an answer that is not ok, ends the process.
Exit ==
    /\ worker' = Without("down")
    /\ UNCHANGED <<libraryVars, jobs, subtitleVars, faults, playing>>

\* statSync, ffprobe, mkdirSync.
Inspect ==
    /\ In("claimed", "probe")
    /\ SourceIsThere /\ Film \notin Unreadable
    /\ \E fits \in BOOLEAN :
           worker' = [worker EXCEPT !.phase = "inspected", !.fits = fits, !.target = TRUE]
    /\ UNCHANGED <<libraryVars, jobs, subtitleVars, faults, playing>>

CannotInspect ==
    /\ In("claimed", "probe")
    /\ ~ SourceIsThere \/ Film \in Unreadable
    /\ Exit

MayMove == In("inspected", "probe") /\ SourceIsThere /\ worker.target

MoveFile ==
    /\ MayMove
    /\ files' = [files EXCEPT ![Film] = (@ \ {Current.source}) \cup {Target}]
    /\ Proceed("moved")
    /\ UNCHANGED <<upload, media, trashed, finalPath, jobs, subtitleVars, faults, playing>>

\* Mutant: the source is removed before the copy is in its place.
MoveSourceFirst ==
    /\ MayMove /\ Current.source # Target
    /\ files' = [files EXCEPT ![Film] = @ \ {Current.source}]
    /\ Proceed("copied")
    /\ UNCHANGED <<upload, media, trashed, finalPath, jobs, subtitleVars, faults, playing>>

\* A remux, or a move to another file system.
CopyFile ==
    /\ MayMove /\ Current.source # Target
    /\ files' = [files EXCEPT ![Film] = @ \cup {Target}]
    /\ Proceed("copied")
    /\ UNCHANGED <<upload, media, trashed, finalPath, jobs, subtitleVars, faults, playing>>

RemoveSource ==
    /\ In("copied", "probe") /\ SourceIsThere
    /\ files' = [files EXCEPT ![Film] = @ \ {Current.source}]
    /\ Proceed("moved")
    /\ UNCHANGED <<upload, media, trashed, finalPath, jobs, subtitleVars, faults, playing>>

CannotMove ==
    /\ \/ In("inspected", "probe") /\ ~ MayMove
       \/ In("copied", "probe") /\ ~ SourceIsThere
    /\ Exit

\* The file must not be there yet: flag "wx".
WriteSubtitle ==
    /\ In("claimed", "subtitle") /\ worker.job \notin tracks
    /\ tracks' = tracks \cup {worker.job}
    /\ Proceed("written")
    /\ UNCHANGED <<libraryVars, jobs, subtitles, faults, playing>>

CannotWriteSubtitle ==
    /\ In("claimed", "subtitle") /\ worker.job \in tracks
    /\ Exit

\* The result is accepted while the lease holds and the file is in its place.
\* An upload's row is overwritten, whatever its state.
HoldsLease == Current.state = "leased"
ResultIsGood == HoldsLease /\ Target \in files[Film]
Outcome == IF worker.fits THEN "published" ELSE "incompatible"

ReportFilm ==
    /\ In("moved", "probe") /\ ResultIsGood
    /\ media' = [media EXCEPT ![Film] = Outcome]
    /\ finalPath' = [finalPath EXCEPT ![Film] = Target]
    /\ upload' = IF Current.source = "uploads" THEN [upload EXCEPT ![Film] = Outcome] ELSE upload
    /\ SetState(worker.job, "completed")
    /\ worker' = Without("idle")
    /\ UNCHANGED <<trashed, files, subtitleVars, faults, playing>>

ReportSubtitle ==
    /\ In("written", "subtitle") /\ HoldsLease /\ worker.job \in tracks
    /\ subtitles' = subtitles \cup {worker.job}
    /\ SetState(worker.job, "completed")
    /\ worker' = Without("idle")
    /\ UNCHANGED <<libraryVars, tracks, faults, playing>>

\* The file is gone (statSync, or 400), or the lease is (409).
ReportFails ==
    /\ \/ In("moved", "probe") /\ ~ ResultIsGood
       \/ In("written", "subtitle") /\ ~ (HoldsLease /\ worker.job \in tracks)
    /\ Exit

\* Killed, or the API cannot be reached with the result.
Crash ==
    /\ worker.phase # "down"
    /\ faults < MaxFaults /\ faults' = faults + 1
    /\ worker' = Without("down")
    /\ UNCHANGED <<libraryVars, jobs, subtitleVars, playing>>

\* restart: unless-stopped
Restart ==
    /\ worker.phase = "down"
    /\ worker' = Without("idle")
    /\ UNCHANGED <<libraryVars, jobs, subtitleVars, faults, playing>>

Work ==
    \/ Inspect \/ CannotInspect \/ MoveFile \/ CopyFile \/ RemoveSource \/ CannotMove
    \/ WriteSubtitle \/ CannotWriteSubtitle
    \/ ReportFilm \/ ReportSubtitle \/ ReportFails

-----------------------------------------------------------------------------

Init ==
    /\ upload = [u \in Uploads |-> "open"]
    /\ media = [f \in Films |-> "none"]
    /\ trashed = [f \in Films |-> FALSE]
    /\ finalPath = [f \in Films |-> None]
    /\ files = [f \in Films |-> IF f \in SftpFiles THEN {"sftp"} ELSE {}]
    /\ jobs = [j \in Jobs |-> None]
    /\ subtitles = {} /\ tracks = {}
    /\ worker = Without("idle")
    /\ faults = 0
    /\ playing = None

Next ==
    \/ \E u \in Uploads : CompleteUpload(u) \/ CancelUpload(u)
    \/ \E f \in SftpFiles : ImportSftpFile(f)
    \/ \E f \in Films :
           \/ RescanMedia(f) \/ CreateSubtitleJob(f)
           \/ TrashMedia(f) \/ PurgeExpiredTrash(f) \/ PlayFilm(f)
    \/ StopFilm
    \/ \E j \in Jobs : ClaimJob(j) \/ LeaseRunsOut(j)
    \/ Work \/ Overrun \/ Crash \/ Restart

Spec == Init /\ [][Next]_vars

\* The worker is started again and goes on, and a lease runs out however often
\* the worker is down meanwhile.  A lease lasts for thirty of the worker's rounds:
\* a job that fails again and again does not keep it from claiming the others.
Fairness ==
    /\ WF_vars(Work) /\ WF_vars(Restart)
    /\ \A j \in Jobs : SF_vars(LeaseRunsOut(j)) /\ SF_vars(ClaimJob(j))

FairSpec == Spec /\ Fairness

-----------------------------------------------------------------------------
(* Properties *)

\* A film in the library has its file where its row says, and the film of the
\* room is in the library, whatever the worker, the trash and rescans do
\* meanwhile (completeJob, trashMedia, requirePathWithin).
FilmsHaveFiles ==
    \A f \in Films :
        /\ media[f] = "published" /\ ~ trashed[f] => "library" \in files[f]
        /\ media[f] = "incompatible" /\ ~ trashed[f] => "inbox" \in files[f]
        /\ playing = f => media[f] = "published" /\ ~ trashed[f]

\* A film is scanning exactly as long as one unfinished job inspects it: none is
\* forgotten, and no two inspections move one file (completeUpload, rescanMedia,
\* importSftpFile, completeJob, purgeExpiredTrash).
OneInspection ==
    \A f \in Films :
        /\ media[f] = "scanning" => \E j \in Jobs : Probes(f, j)
        /\ \A i, j \in Jobs : Probes(f, i) /\ Probes(f, j) => i = j
        /\ media[f] # "scanning" => ~ \E j \in Jobs : Probes(f, j)

\* A purged film leaves no file in the library, the inbox or the trash, also
\* when the worker was moving it while it was trashed (purgeExpiredTrash).
NothingIsLeft ==
    \A f \in Films :
        media[f] = "none" => files[f] \cap {"library", "inbox", "trash"} = {}

\* The job's file is not where the job says, and the worker is not on its way
\* to report where it went: every further attempt ends the process.
Stranded(f) ==
    \E j \in Jobs :
        /\ Probes(f, j)
        /\ jobs[j].source \notin files[f]
        /\ ~ (worker.job = j /\ worker.phase = "moved")

\* However often the worker is killed, restarted or slower than its lease, and
\* whatever it had done to the file by then, a film that waits for its inspection
\* has a whole file, where its job says or where an inspection puts it; only a
\* cancellation or the trash may take it away (process-media.ts, moveFile).
RetriesKeepTheFilm ==
    \A f \in Films, j \in Jobs :
        Probes(f, j) =>
            \/ jobs[j].source \in files[f]
            \/ files[f] \cap {"library", "inbox"} # {}
            \/ trashed[f]
            \/ f \in Uploads /\ upload[f] = "cancelled"

\* Whatever the worker, its lease and the requests do in whichever order, a film
\* leads the life that FilmLife promises: late or repeated results change nothing
\* that was decided, and an upload comes once (completeJob, completeUpload).
Stage == [f \in Films |->
    IF media[f] = "none" THEN "absent" ELSE IF trashed[f] THEN "trash" ELSE media[f]]

Life == INSTANCE FilmLife WITH
    Once <- Uploads, stage <- Stage, spent <- {u \in Uploads : upload[u] # "open"}, screen <- playing

ImplementsFilmLife == Life!Spec

\* An inspection ends although the worker may crash, and although other jobs
\* fail for ever (claimJob, the worker's loop).
InspectionEnds ==
    \A f \in Films \ Unreadable :
        media[f] = "scanning" ~> media[f] # "scanning" \/ Stranded(f)

\* Job leases make the worker recoverable (IMPLEMENTATION_PLAN.md): nothing but
\* the trash or a cancellation keeps a film in the state scanning for ever.
CrashesAreRecovered ==
    \A f \in Films \ Unreadable :
        media[f] = "scanning" ~>
            \/ media[f] # "scanning" \/ trashed[f]
            \/ f \in Uploads /\ upload[f] = "cancelled"
=============================================================================
