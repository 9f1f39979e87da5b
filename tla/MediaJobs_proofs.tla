-------------------------- MODULE MediaJobs_proofs --------------------------
(***************************************************************************)
(* Proofs about MediaJobs: types, the jobs of films that are scanning, and *)
(* the files of the library, for any films, jobs, crashes and leases.      *)
(***************************************************************************)
EXTENDS MediaJobs, TLAPS

\* The worker is at a job that is not finished, which nobody else completes or
\* deletes meanwhile.
WorkerInv ==
    /\ worker.phase \in {"down", "idle"} => worker.job = None
    /\ worker.phase \notin {"down", "idle"} =>
           worker.job \in Jobs /\ Exists(worker.job) /\ jobs[worker.job].state \in {"leased", "overdue"}

\* An upload has no row in the library before it is complete.
UploadInv == \A u \in Uploads : upload[u] = "open" => media[u] = "none"

JobInv == WorkerInv /\ UploadInv /\ OneInspection
FileInv == FilmsHaveFiles /\ NothingIsLeft

Inv == TypeOK /\ JobInv /\ FileInv

-----------------------------------------------------------------------------

\* A job that is added has its own row, and the others keep theirs.
LEMMA Inserted ==
    ASSUME TypeOK, NEW f \in Films, NEW kind \in {"probe", "subtitle"},
           NEW source \in Places \cup {None}, Insert(f, kind, source)
    PROVE  /\ jobs' \in [Jobs -> Job \cup {None}]
           /\ \E j \in Jobs :
                  /\ jobs[j] = None
                  /\ jobs'[j] = [film |-> f, kind |-> kind, source |-> source, state |-> "pending"]
                  /\ \A i \in Jobs \ {j} : jobs'[i] = jobs[i]
  BY DEF TypeOK, Insert, Exists, Job

\* A job whose state is set keeps its other columns.
LEMMA StateSet ==
    ASSUME TypeOK, NEW j \in Jobs, Exists(j),
           NEW state \in {"pending", "leased", "overdue", "completed", "deleted"}, SetState(j, state)
    PROVE  /\ jobs' \in [Jobs -> Job \cup {None}]
           /\ jobs'[j] # None /\ jobs'[j].state = state
           /\ jobs'[j].film = jobs[j].film /\ jobs'[j].kind = jobs[j].kind
           /\ jobs'[j].source = jobs[j].source
           /\ \A i \in Jobs \ {j} : jobs'[i] = jobs[i]
  <1>1. jobs[j] \in Job
    BY DEF TypeOK, Exists
  <1>2. [jobs[j] EXCEPT !.state = state] \in Job
    BY <1>1 DEF Job
  <1>3. jobs' = [jobs EXCEPT ![j] = [jobs[j] EXCEPT !.state = state]]
    BY DEF SetState
  <1> QED BY <1>1, <1>2, <1>3, JobRowAssumption DEF TypeOK, Job

\* What a worker that has a job knows of it.
LEMMA AtWork ==
    ASSUME Inv, worker.phase \notin {"down", "idle"}
    PROVE  /\ worker.job \in Jobs /\ Exists(worker.job) /\ Open(worker.job)
           /\ Current \in Job /\ Film \in Films
           /\ Current.kind = "probe" => Probes(Film, worker.job) /\ media[Film] = "scanning"
           /\ \A f \in Films : WorksOn(f) <=> f = Film
  <1>1. worker.job \in Jobs /\ Exists(worker.job) /\ Open(worker.job)
    BY DEF Inv, JobInv, WorkerInv, Open
  <1>2. Current \in Job
    BY <1>1 DEF Inv, TypeOK, Exists, Current
  <1>3. Film \in Films
    BY <1>2 DEF Job, Film
  <1>4. Current.kind = "probe" => Probes(Film, worker.job)
    BY <1>1 DEF Probes, Current, Film
  <1>5. Current.kind = "probe" => media[Film] = "scanning"
    BY <1>1, <1>3, <1>4 DEF Inv, JobInv, OneInspection
  <1>6. \A f \in Films : WorksOn(f) <=> f = Film
    BY <1>1, JobsAssumption DEF WorksOn, Film, Current
  <1> QED BY <1>1, <1>2, <1>3, <1>4, <1>5, <1>6

-----------------------------------------------------------------------------
(* Types *)

LEMMA InitType == ASSUME Init PROVE TypeOK
  BY JobsAssumption DEF Init, TypeOK, Without, Worker, Phases, Places

LEMMA StepType == ASSUME Inv, [Next]_vars PROVE TypeOK'
  <1> USE DEF libraryVars, subtitleVars, workerVars
  <1>t. TypeOK
    BY DEF Inv
  <1>1. ASSUME NEW u \in Uploads, CompleteUpload(u) PROVE TypeOK'
    <2>1. jobs' \in [Jobs -> Job \cup {None}]
      BY <1>t, <1>1, Inserted DEF CompleteUpload, Films, Places
    <2> QED BY <1>t, <1>1, <2>1 DEF TypeOK, CompleteUpload, Places, Films
  <1>2. ASSUME NEW u \in Uploads, CancelUpload(u) PROVE TypeOK'
    BY <1>t, <1>2 DEF TypeOK, CancelUpload, Films
  <1>3. ASSUME NEW f \in SftpFiles, ImportSftpFile(f) PROVE TypeOK'
    <2>1. jobs' \in [Jobs -> Job \cup {None}]
      BY <1>t, <1>3, Inserted DEF ImportSftpFile, Films, Places
    <2> QED BY <1>t, <1>3, <2>1 DEF TypeOK, ImportSftpFile, Films
  <1>4. ASSUME NEW f \in Films, RescanMedia(f) PROVE TypeOK'
    <2>1. jobs' \in [Jobs -> Job \cup {None}]
      BY <1>t, <1>4, Inserted DEF RescanMedia, Places
    <2> QED BY <1>t, <1>4, <2>1 DEF TypeOK, RescanMedia
  <1>5. ASSUME NEW f \in Films, CreateSubtitleJob(f) PROVE TypeOK'
    <2>1. jobs' \in [Jobs -> Job \cup {None}]
      BY <1>t, <1>5, Inserted DEF CreateSubtitleJob
    <2> QED BY <1>t, <1>5, <2>1 DEF TypeOK, CreateSubtitleJob
  <1>6. ASSUME NEW f \in Films, TrashMedia(f) PROVE TypeOK'
    <2>1. worker' \in Worker
      BY <1>t, <1>6 DEF TypeOK, TrashMedia, Worker
    <2>2. files' \in [Films -> SUBSET Places]
      BY <1>t, <1>6 DEF TypeOK, TrashMedia, Places
    <2> QED BY <1>t, <1>6, <2>1, <2>2 DEF TypeOK, TrashMedia
  <1>7. ASSUME NEW f \in Films, PurgeExpiredTrash(f) PROVE TypeOK'
    <2>1. \A j \in Jobs : Exists(j) => [jobs[j] EXCEPT !.state = "deleted"] \in Job
      BY <1>t DEF TypeOK, Exists, Job
    <2>2. jobs' \in [Jobs -> Job \cup {None}]
      BY <1>t, <1>7, <2>1 DEF TypeOK, PurgeExpiredTrash
    <2> QED BY <1>t, <1>7, <2>2 DEF TypeOK, PurgeExpiredTrash
  <1>8. ASSUME NEW f \in Films, PlayFilm(f) PROVE TypeOK'
    BY <1>t, <1>8 DEF TypeOK, PlayFilm
  <1>9. CASE StopFilm
    BY <1>t, <1>9 DEF TypeOK, StopFilm
  <1>10. ASSUME NEW j \in Jobs, ClaimJob(j) PROVE TypeOK'
    <2>1. jobs' \in [Jobs -> Job \cup {None}]
      BY <1>t, <1>10, StateSet DEF ClaimJob, Claimable
    <2> QED BY <1>t, <1>10, <2>1 DEF TypeOK, ClaimJob, Worker, Without, Phases
  <1>11. ASSUME NEW j \in Jobs, LeaseRunsOut(j) PROVE TypeOK'
    <2>1. jobs' \in [Jobs -> Job \cup {None}]
      BY <1>t, <1>11, StateSet DEF LeaseRunsOut
    <2> QED BY <1>t, <1>11, <2>1 DEF TypeOK, LeaseRunsOut
  <1>15. CASE Overrun
    <2>1. worker.job \in Jobs /\ Exists(worker.job)
      BY <1>15, AtWork DEF Overrun, Inv, JobInv, WorkerInv
    <2>2. jobs' \in [Jobs -> Job \cup {None}]
      BY <1>t, <1>15, <2>1, StateSet DEF Overrun
    <2>3. faults' \in 0..MaxFaults
      BY <1>t, <1>15, JobsAssumption DEF TypeOK, Overrun
    <2> QED BY <1>t, <1>15, <2>2, <2>3 DEF TypeOK, Overrun
  <1>12. CASE Exit \/ Crash \/ Restart
    <2>1. \A phase \in Phases : Without(phase) \in Worker
      BY DEF Without, Worker
    <2>2. worker' \in Worker
      BY <1>12, <2>1 DEF Exit, Crash, Restart, Phases
    <2>3. faults' \in 0..MaxFaults
      BY <1>t, <1>12, JobsAssumption DEF TypeOK, Exit, Crash, Restart
    <2> QED BY <1>t, <1>12, <2>2, <2>3 DEF TypeOK, Exit, Crash, Restart
  <1>13. CASE Work /\ ~ Exit
    <2>0. worker.phase \notin {"down", "idle"}
      BY <1>13 DEF Work, Inspect, CannotInspect, MoveFile, CopyFile, MayMove, RemoveSource, CannotMove,
            WriteSubtitle, CannotWriteSubtitle, ReportFilm, ReportSubtitle, ReportFails, In
    <2>1. worker.job \in Jobs /\ Exists(worker.job) /\ Film \in Films /\ Current \in Job
      BY <2>0, AtWork
    <2>2. CASE Inspect
      BY <1>t, <2>2 DEF TypeOK, Inspect, Worker, Phases
    <2>3. CASE MoveFile \/ CopyFile \/ RemoveSource
      <3>1. files' \in [Films -> SUBSET Places]
        BY <1>t, <2>3 DEF TypeOK, MoveFile, CopyFile, RemoveSource, Target, Places
      <3>2. worker' \in Worker
        BY <1>t, <2>3 DEF TypeOK, MoveFile, CopyFile, RemoveSource, Proceed, Worker, Phases
      <3> QED BY <1>t, <2>3, <3>1, <3>2 DEF TypeOK, MoveFile, CopyFile, RemoveSource
    <2>4. CASE WriteSubtitle
      BY <1>t, <2>1, <2>4 DEF TypeOK, WriteSubtitle, Proceed, Worker, Phases
    <2>5. CASE ReportFilm
      <3>1. jobs' \in [Jobs -> Job \cup {None}]
        BY <1>t, <2>1, <2>5, StateSet DEF ReportFilm
      <3>2. upload' \in [Uploads -> {"open", "received", "cancelled", "published", "incompatible"}]
        BY <1>t, <2>5 DEF TypeOK, ReportFilm, Outcome
      <3> QED BY <1>t, <2>5, <3>1, <3>2
            DEF TypeOK, ReportFilm, Outcome, Target, Without, Worker, Phases
    <2>6. CASE ReportSubtitle
      <3>1. jobs' \in [Jobs -> Job \cup {None}]
        BY <1>t, <2>1, <2>6, StateSet DEF ReportSubtitle
      <3> QED BY <1>t, <2>1, <2>6, <3>1 DEF TypeOK, ReportSubtitle, Without, Worker, Phases
    <2> QED BY <1>13, <2>2, <2>3, <2>4, <2>5, <2>6
          DEF Work, CannotInspect, CannotMove, CannotWriteSubtitle, ReportFails
  <1>14. CASE UNCHANGED vars
    BY <1>t, <1>14 DEF TypeOK, vars
  <1> QED BY <1>1, <1>2, <1>3, <1>4, <1>5, <1>6, <1>7, <1>8, <1>9, <1>10, <1>11, <1>12, <1>13, <1>14,
             <1>15
        DEF Next

-----------------------------------------------------------------------------
(* Jobs *)

LEMMA InitJobs == ASSUME Init PROVE JobInv /\ FileInv
  <1>1. WorkerInv
    BY DEF Init, WorkerInv, Without
  <1>2. UploadInv
    BY DEF Init, UploadInv, Films
  <1>3. OneInspection
    BY DEF Init, OneInspection, Probes, Open, Exists
  <1>4. FilmsHaveFiles
    BY JobsAssumption DEF Init, FilmsHaveFiles
  <1>5. NothingIsLeft
    BY DEF Init, NothingIsLeft
  <1> QED BY <1>1, <1>2, <1>3, <1>4, <1>5 DEF JobInv, FileInv

\* The invariant of jobs depends on four variables.
LEMMA SameJobs ==
    ASSUME JobInv, UNCHANGED <<media, jobs>>,
           \/ /\ worker'.job = worker.job
              /\ worker'.phase \in {"down", "idle"} <=> worker.phase \in {"down", "idle"}
           \/ worker' \in {Without("down"), Without("idle")},
           \A u \in Uploads : upload'[u] = "open" => upload[u] = "open"
    PROVE  JobInv'
  <1>1. WorkerInv'
    BY DEF JobInv, WorkerInv, Without, Exists
  <1>2. UploadInv'
    BY DEF JobInv, UploadInv
  <1>3. OneInspection'
    BY DEF JobInv, OneInspection, Probes, Open, Exists
  <1> QED BY <1>1, <1>2, <1>3 DEF JobInv

\* A film that was not scanning gets its one inspection.
LEMMA NewInspection ==
    ASSUME Inv, NEW f \in Films, media[f] # "scanning",
           NEW source \in Places, Insert(f, "probe", source),
           media' = [media EXCEPT ![f] = "scanning"],
           UNCHANGED worker,
           \A u \in Uploads : upload'[u] = "open" => upload[u] = "open" /\ u # f
    PROVE  JobInv'
  <1>t. TypeOK
    BY DEF Inv
  <1>1. PICK j \in Jobs :
            /\ jobs[j] = None
            /\ jobs'[j] = [film |-> f, kind |-> "probe", source |-> source, state |-> "pending"]
            /\ \A i \in Jobs \ {j} : jobs'[i] = jobs[i]
    BY <1>t, Inserted
  <1>2. jobs'[j] # None
    <2>1. jobs'[j] \in Job
      BY <1>1 DEF Job, Places
    <2> QED BY <2>1, JobRowAssumption
  <1>3. WorkerInv'
    BY <1>1 DEF Inv, JobInv, WorkerInv, Exists
  <1>4. UploadInv'
    BY <1>t DEF Inv, JobInv, UploadInv, TypeOK, Films
  <1>5. \A g \in Films, i \in Jobs :
            Probes(g, i)' <=> Probes(g, i) \/ (i = j /\ g = f)
    BY <1>1, <1>2 DEF Probes, Open, Exists
  <1>6. \A i \in Jobs : ~ Probes(f, i)
    BY DEF Inv, JobInv, OneInspection
  <1>7. OneInspection'
    BY <1>t, <1>5, <1>6 DEF Inv, JobInv, OneInspection, TypeOK
  <1> QED BY <1>3, <1>4, <1>7 DEF JobInv

\* A job that was claimed, or whose lease ran out, stays open.
LEMMA StillOpen ==
    ASSUME Inv, NEW j \in Jobs, Open(j), NEW state \in {"leased", "overdue"}, SetState(j, state),
           UNCHANGED <<media, upload>>,
           \/ UNCHANGED worker
           \/ worker'.job = j /\ worker'.phase = "claimed"
    PROVE  JobInv'
  <1>t. TypeOK
    BY DEF Inv
  <1>1. /\ jobs'[j] # None /\ jobs'[j].state = state
        /\ jobs'[j].film = jobs[j].film /\ jobs'[j].kind = jobs[j].kind
        /\ \A i \in Jobs \ {j} : jobs'[i] = jobs[i]
    BY <1>t, StateSet DEF Open
  <1>2. WorkerInv'
    BY <1>1 DEF Inv, JobInv, WorkerInv, Exists
  <1>3. UploadInv'
    BY DEF Inv, JobInv, UploadInv
  <1>4. \A g \in Films, i \in Jobs : Probes(g, i)' <=> Probes(g, i)
    BY <1>1 DEF Probes, Open, Exists
  <1>5. OneInspection'
    BY <1>4 DEF Inv, JobInv, OneInspection
  <1> QED BY <1>2, <1>3, <1>5 DEF JobInv

LEMMA StepJobs == ASSUME Inv, [Next]_vars PROVE JobInv'
  <1> USE DEF libraryVars, subtitleVars, workerVars
  <1>t. TypeOK /\ JobInv
    BY DEF Inv
  <1>1. ASSUME NEW u \in Uploads, CompleteUpload(u) PROVE JobInv'
    <2>1. u \in Films /\ media[u] # "scanning"
      BY <1>t, <1>1 DEF JobInv, UploadInv, CompleteUpload, Films
    <2>2. \A v \in Uploads : upload'[v] = "open" => upload[v] = "open" /\ v # u
      BY <1>t, <1>1 DEF TypeOK, CompleteUpload
    <2> QED BY <1>1, <2>1, <2>2, NewInspection DEF CompleteUpload, Places
  <1>2. ASSUME NEW u \in Uploads, CancelUpload(u) PROVE JobInv'
    BY <1>t, <1>2, SameJobs DEF TypeOK, CancelUpload
  <1>3. ASSUME NEW f \in SftpFiles, ImportSftpFile(f) PROVE JobInv'
    BY <1>3, JobsAssumption, NewInspection DEF ImportSftpFile, Films, Places
  <1>4. ASSUME NEW f \in Films, RescanMedia(f) PROVE JobInv'
    <2>1. \A u \in Uploads : upload'[u] = "open" => upload[u] = "open" /\ u # f
      BY <1>t, <1>4 DEF JobInv, UploadInv, RescanMedia
    <2> QED BY <1>4, <2>1, NewInspection DEF RescanMedia, Places
  <1>5. ASSUME NEW f \in Films, CreateSubtitleJob(f) PROVE JobInv'
    <2>1. PICK j \in Jobs :
              /\ jobs[j] = None
              /\ jobs'[j] = [film |-> f, kind |-> "subtitle", source |-> None, state |-> "pending"]
              /\ \A i \in Jobs \ {j} : jobs'[i] = jobs[i]
      BY <1>t, <1>5, Inserted DEF CreateSubtitleJob
    <2>2. WorkerInv'
      BY <1>t, <1>5, <2>1 DEF JobInv, WorkerInv, CreateSubtitleJob, Exists
    <2>3. \A g \in Films, i \in Jobs : Probes(g, i)' <=> Probes(g, i)
      BY <2>1 DEF Probes, Open, Exists
    <2>4. OneInspection'
      BY <1>t, <1>5, <2>3 DEF JobInv, OneInspection, CreateSubtitleJob
    <2> QED BY <1>t, <1>5, <2>2, <2>4 DEF JobInv, UploadInv, CreateSubtitleJob
  <1>6. ASSUME NEW f \in Films, TrashMedia(f) PROVE JobInv'
    <2>1. worker'.job = worker.job /\ worker'.phase = worker.phase
      BY <1>t, <1>6 DEF TypeOK, TrashMedia, Worker
    <2> QED BY <1>t, <1>6, <2>1, SameJobs DEF TrashMedia
  <1>7. ASSUME NEW f \in Films, PurgeExpiredTrash(f) PROVE JobInv'
    <2> DEFINE gone == {j \in Jobs : Exists(j) /\ jobs[j].film = f}
    <2>1. \A j \in gone : jobs[j] \in Job
      BY <1>t DEF TypeOK, Exists
    <2>2. \A j \in gone : /\ [jobs[j] EXCEPT !.state = "deleted"] \in Job
                          /\ [jobs[j] EXCEPT !.state = "deleted"].state = "deleted"
      BY <2>1 DEF Job
    <2>3. /\ \A j \in gone : jobs'[j] = [jobs[j] EXCEPT !.state = "deleted"]
          /\ \A j \in Jobs \ gone : jobs'[j] = jobs[j]
      BY <1>7 DEF PurgeExpiredTrash
    <2>4. \A g \in Films, i \in Jobs : Probes(g, i)' <=> Probes(g, i) /\ g # f
      BY <2>2, <2>3 DEF Probes, Open, Exists
    <2>5. OneInspection'
      BY <1>t, <1>7, <2>4 DEF TypeOK, JobInv, OneInspection, PurgeExpiredTrash
    <2>6. worker.phase \notin {"down", "idle"} => worker.job \in Jobs \ gone
      BY <1>t, <1>7, JobsAssumption DEF JobInv, WorkerInv, PurgeExpiredTrash, WorksOn
    <2>7. WorkerInv'
      BY <1>t, <1>7, <2>3, <2>6 DEF JobInv, WorkerInv, PurgeExpiredTrash, Exists
    <2>8. UploadInv'
      BY <1>t, <1>7 DEF TypeOK, JobInv, UploadInv, PurgeExpiredTrash, Films
    <2> QED BY <2>5, <2>7, <2>8 DEF JobInv
  <1>8. ASSUME NEW f \in Films, PlayFilm(f) PROVE JobInv'
    BY <1>t, <1>8, SameJobs DEF PlayFilm
  <1>9. CASE StopFilm
    BY <1>t, <1>9, SameJobs DEF StopFilm
  <1>10. ASSUME NEW j \in Jobs, ClaimJob(j) PROVE JobInv'
    <2>1. Open(j)
      BY <1>10 DEF ClaimJob, Claimable, Open
    <2>2. worker'.job = j /\ worker'.phase = "claimed"
      BY <1>10 DEF ClaimJob, Without
    <2> QED BY <1>10, <2>1, <2>2, StillOpen DEF ClaimJob
  <1>11. ASSUME NEW j \in Jobs, LeaseRunsOut(j) PROVE JobInv'
    <2>1. Open(j)
      BY <1>11 DEF LeaseRunsOut, Open
    <2> QED BY <1>11, <2>1, StillOpen DEF LeaseRunsOut
  <1>17. CASE Overrun
    <2>1. worker.job \in Jobs /\ Open(worker.job)
      BY <1>17, AtWork DEF Overrun, Inv, JobInv, WorkerInv
    <2> QED BY <1>17, <2>1, StillOpen DEF Overrun
  <1>12. CASE Exit \/ Crash \/ Restart
    <2>1. worker' = Without("down") \/ worker' = Without("idle")
      BY <1>12 DEF Exit, Crash, Restart
    <2> QED BY <1>t, <1>12, <2>1, SameJobs DEF Exit, Crash, Restart
  <1>13. CASE Inspect \/ MoveFile \/ CopyFile \/ RemoveSource \/ WriteSubtitle
    <2>0. worker \in Worker
      BY <1>t DEF TypeOK
    <2>1. worker'.job = worker.job /\ worker'.phase \notin {"down", "idle"}
      <3>1. CASE Inspect
        BY <2>0, <3>1 DEF Worker, Inspect
      <3>2. CASE MoveFile \/ RemoveSource
        BY <2>0, <3>2 DEF Worker, MoveFile, RemoveSource, Proceed
      <3>3. CASE CopyFile
        BY <2>0, <3>3 DEF Worker, CopyFile, Proceed
      <3>4. CASE WriteSubtitle
        BY <2>0, <3>4 DEF Worker, WriteSubtitle, Proceed
      <3> QED BY <1>13, <3>1, <3>2, <3>3, <3>4
    <2>2. worker.phase \notin {"down", "idle"}
      BY <1>13 DEF Inspect, MoveFile, CopyFile, MayMove, RemoveSource, WriteSubtitle, In
    <2> QED BY <1>t, <1>13, <2>1, <2>2, SameJobs
          DEF Inspect, MoveFile, CopyFile, RemoveSource, WriteSubtitle
  <1>14. CASE ReportFilm
    <2>0. worker.phase \notin {"down", "idle"} /\ Current.kind = "probe"
      BY <1>14 DEF ReportFilm, In
    <2>1. /\ worker.job \in Jobs /\ Exists(worker.job) /\ Film \in Films
          /\ Probes(Film, worker.job) /\ media[Film] = "scanning"
      BY <2>0, AtWork
    <2>2. /\ jobs'[worker.job] # None /\ jobs'[worker.job].state = "completed"
          /\ \A i \in Jobs \ {worker.job} : jobs'[i] = jobs[i]
      BY <1>t, <1>14, <2>1, StateSet DEF ReportFilm
    <2>3. \A g \in Films, i \in Jobs : Probes(g, i)' <=> Probes(g, i) /\ i # worker.job
      BY <2>2 DEF Probes, Open, Exists
    <2>4. \A g \in Films : Probes(g, worker.job) => g = Film
      BY DEF Probes, Film, Current
    <2>5. media'[Film] # "scanning" /\ \A g \in Films \ {Film} : media'[g] = media[g]
      BY <1>t, <1>14, <2>1 DEF TypeOK, ReportFilm, Outcome
    <2>6. OneInspection'
      <3>1. \A g \in Films : media'[g] = "scanning" => \E j \in Jobs : Probes(g, j)'
        BY <1>t, <2>3, <2>4, <2>5 DEF JobInv, OneInspection
      <3>2. \A g \in Films, i, j \in Jobs : Probes(g, i)' /\ Probes(g, j)' => i = j
        BY <1>t, <2>3 DEF JobInv, OneInspection
      <3>3. \A g \in Films : media'[g] # "scanning" => ~ \E j \in Jobs : Probes(g, j)'
        BY <1>t, <2>1, <2>3, <2>5 DEF JobInv, OneInspection
      <3> QED BY <3>1, <3>2, <3>3 DEF OneInspection
    <2>7. WorkerInv'
      BY <1>14 DEF ReportFilm, WorkerInv, Without
    <2>8. UploadInv'
      BY <1>t, <1>14, <2>1, <2>5 DEF TypeOK, JobInv, UploadInv, ReportFilm, Outcome, Films
    <2> QED BY <2>6, <2>7, <2>8 DEF JobInv
  <1>15. CASE ReportSubtitle
    <2>0. worker.phase \notin {"down", "idle"} /\ Current.kind = "subtitle"
      BY <1>15 DEF ReportSubtitle, In
    <2>1. worker.job \in Jobs /\ Exists(worker.job)
      BY <2>0, AtWork
    <2>2. /\ jobs'[worker.job].kind = jobs[worker.job].kind
          /\ \A i \in Jobs \ {worker.job} : jobs'[i] = jobs[i]
      BY <1>t, <1>15, <2>1, StateSet DEF ReportSubtitle
    <2>3. \A g \in Films, i \in Jobs : Probes(g, i)' <=> Probes(g, i)
      BY <2>0, <2>2 DEF Probes, Open, Exists, Current
    <2>4. OneInspection'
      BY <1>t, <1>15, <2>3 DEF JobInv, OneInspection, ReportSubtitle
    <2>5. WorkerInv'
      BY <1>15 DEF ReportSubtitle, WorkerInv, Without
    <2> QED BY <1>t, <1>15, <2>4, <2>5 DEF JobInv, UploadInv, ReportSubtitle
  <1>16. CASE UNCHANGED vars
    BY <1>t, <1>16, SameJobs DEF vars
  <1> QED BY <1>1, <1>2, <1>3, <1>4, <1>5, <1>6, <1>7, <1>8, <1>9, <1>10, <1>11, <1>12, <1>13, <1>14,
             <1>15, <1>16, <1>17
        DEF Next, Work, CannotInspect, CannotMove, CannotWriteSubtitle, ReportFails

-----------------------------------------------------------------------------
(* Files *)

\* While the worker moves a film's file, the film is scanning, so that its row
\* promises no file and is not missing.
LEMMA MovedWhileScanning ==
    ASSUME Inv, worker.phase \notin {"down", "idle"}, Current.kind = "probe",
           UNCHANGED <<media, trashed, playing>>,
           \A f \in Films : f # Film => files'[f] = files[f]
    PROVE  FileInv'
  <1>1. Film \in Films /\ media[Film] = "scanning"
    BY AtWork
  <1> QED BY <1>1 DEF Inv, FileInv, FilmsHaveFiles, NothingIsLeft

LEMMA StepFiles == ASSUME Inv, [Next]_vars PROVE FileInv'
  <1> USE DEF libraryVars, subtitleVars, workerVars
  <1>t. TypeOK /\ JobInv /\ FileInv
    BY DEF Inv
  <1>1. ASSUME NEW u \in Uploads, CompleteUpload(u) PROVE FileInv'
    BY <1>t, <1>1 DEF TypeOK, JobInv, UploadInv, FileInv, FilmsHaveFiles, NothingIsLeft, CompleteUpload, Films
  <1>2. ASSUME NEW u \in Uploads, CancelUpload(u) PROVE FileInv'
    BY <1>t, <1>2 DEF TypeOK, FileInv, FilmsHaveFiles, NothingIsLeft, CancelUpload, Films
  <1>3. ASSUME NEW f \in Films, media[f] # "published", UNCHANGED <<trashed, files, playing>>,
               media' = [media EXCEPT ![f] = "scanning"]
        PROVE FileInv'
    BY <1>t, <1>3 DEF TypeOK, FileInv, FilmsHaveFiles, NothingIsLeft
  <1>4. ASSUME NEW f \in Films, TrashMedia(f) PROVE FileInv'
    BY <1>t, <1>4 DEF TypeOK, FileInv, FilmsHaveFiles, NothingIsLeft, TrashMedia
  <1>5. ASSUME NEW f \in Films, PurgeExpiredTrash(f) PROVE FileInv'
    <2>1. FilmsHaveFiles'
      BY <1>t, <1>5 DEF TypeOK, FileInv, FilmsHaveFiles, PurgeExpiredTrash
    <2>2. NothingIsLeft'
      BY <1>t, <1>5 DEF TypeOK, FileInv, NothingIsLeft, PurgeExpiredTrash
    <2> QED BY <2>1, <2>2 DEF FileInv
  <1>6. ASSUME NEW f \in Films, PlayFilm(f) PROVE FileInv'
    BY <1>t, <1>6 DEF FileInv, FilmsHaveFiles, NothingIsLeft, PlayFilm
  <1>7. CASE StopFilm
    BY <1>t, <1>7, JobsAssumption DEF FileInv, FilmsHaveFiles, NothingIsLeft, StopFilm
  <1>8. CASE UNCHANGED <<media, trashed, files, playing>>
    BY <1>t, <1>8 DEF FileInv, FilmsHaveFiles, NothingIsLeft
  <1>9. CASE MoveFile \/ CopyFile \/ RemoveSource
    <2>1. worker.phase \notin {"down", "idle"} /\ Current.kind = "probe"
      BY <1>9 DEF MoveFile, CopyFile, MayMove, RemoveSource, In
    <2>2. \A f \in Films : f # Film => files'[f] = files[f]
      BY <1>t, <1>9 DEF TypeOK, MoveFile, CopyFile, RemoveSource
    <2> QED BY <1>9, <2>1, <2>2, MovedWhileScanning DEF MoveFile, CopyFile, RemoveSource
  <1>10. CASE ReportFilm
    <2>1. worker.phase \notin {"down", "idle"} /\ Current.kind = "probe"
      BY <1>10 DEF ReportFilm, In
    <2>2. Film \in Films /\ media[Film] = "scanning"
      BY <2>1, AtWork
    <2>3. Target \in files[Film]
      BY <1>10 DEF ReportFilm, ResultIsGood
    <2> QED BY <1>t, <1>10, <2>2, <2>3
          DEF TypeOK, FileInv, FilmsHaveFiles, NothingIsLeft, ReportFilm, Outcome, Target
  <1>11. ASSUME NEW f \in SftpFiles, ImportSftpFile(f) PROVE FileInv'
    BY <1>11, <1>3 DEF ImportSftpFile, Films
  <1>12. ASSUME NEW f \in Films, RescanMedia(f) PROVE FileInv'
    BY <1>12, <1>3 DEF RescanMedia
  <1> QED BY <1>1, <1>2, <1>4, <1>5, <1>6, <1>7, <1>8, <1>9, <1>10, <1>11, <1>12
        DEF Next, vars, Work, CreateSubtitleJob, ClaimJob, LeaseRunsOut, Inspect, CannotInspect, CannotMove,
            WriteSubtitle, CannotWriteSubtitle, ReportSubtitle, ReportFails, Exit, Overrun, Crash, Restart

-----------------------------------------------------------------------------
(* Retries *)

\* What the worker has copied is there, unless somebody trashed the film, and
\* it is not the source itself.
WorkerKeepsFile ==
    worker.phase = "copied" /\ Current.kind = "probe" =>
        /\ Target \in files[Film] \/ trashed[Film]
        /\ Current.source # Target

RetryInv == WorkerKeepsFile /\ RetriesKeepTheFilm

Destinations == {"library", "inbox"}

\* What RetriesKeepTheFilm says of one job.
Retriable(f, j) ==
    \/ jobs[j].source \in files[f]
    \/ files[f] \cap Destinations # {}
    \/ trashed[f]
    \/ f \in Uploads /\ upload[f] = "cancelled"

LEMMA RetriesByJob ==
    RetriesKeepTheFilm <=> \A f \in Films, j \in Jobs : Probes(f, j) => Retriable(f, j)
  BY DEF RetriesKeepTheFilm, Retriable, Destinations

LEMMA InitRetry == ASSUME Init PROVE RetryInv
  <1>1. WorkerKeepsFile
    BY DEF Init, WorkerKeepsFile, Without
  <1>2. RetriesKeepTheFilm
    BY DEF Init, RetriesKeepTheFilm, Probes, Open, Exists
  <1> QED BY <1>1, <1>2 DEF RetryInv

\* A step that leaves the worker where it is and its job alone.
LEMMA WorkerUndisturbed ==
    ASSUME Inv, RetryInv,
           worker'.job = worker.job, worker'.phase = worker.phase, worker'.fits = worker.fits,
           worker.phase = "copied" =>
               /\ jobs'[worker.job].film = jobs[worker.job].film
               /\ jobs'[worker.job].kind = jobs[worker.job].kind
               /\ jobs'[worker.job].source = jobs[worker.job].source,
           worker.phase = "copied" /\ Current.kind = "probe" =>
               /\ Target \in files[Film] => Target \in files'[Film] \/ trashed'[Film]
               /\ trashed[Film] => trashed'[Film]
    PROVE  WorkerKeepsFile'
  BY DEF RetryInv, WorkerKeepsFile, Current, Film, Target

\* A new inspection, of a film whose file is where its job says.
LEMMA NewRetry ==
    ASSUME Inv, RetryInv, NEW f \in Films, media[f] # "scanning",
           NEW source \in Places, Insert(f, "probe", source), source \in files'[f],
           UNCHANGED <<worker, trashed>>,
           \A g \in Films \ {f} : files'[g] = files[g],
           \A u \in Uploads : u # f => upload'[u] = upload[u]
    PROVE  RetryInv'
  <1>t. TypeOK
    BY DEF Inv
  <1>1. PICK j \in Jobs :
            /\ jobs[j] = None
            /\ jobs'[j] = [film |-> f, kind |-> "probe", source |-> source, state |-> "pending"]
            /\ \A i \in Jobs \ {j} : jobs'[i] = jobs[i]
    BY <1>t, Inserted
  <1>2. worker.phase \notin {"down", "idle"} => jobs'[worker.job] = jobs[worker.job]
    BY <1>1, AtWork DEF Exists
  <1>3. worker.phase = "copied" /\ Current.kind = "probe" => Film \in Films \ {f}
    BY AtWork
  <1>4. WorkerKeepsFile'
    BY <1>2, <1>3, WorkerUndisturbed
  <1>5. \A i \in Jobs : ~ Probes(f, i)
    BY DEF Inv, JobInv, OneInspection
  <1>6. \A g \in Films, i \in Jobs : Probes(g, i)' => (i = j /\ g = f) \/ (i # j /\ g # f /\ Probes(g, i))
    BY <1>1, <1>5 DEF Probes, Open, Exists
  <1>7. Retriable(f, j)'
    BY <1>1 DEF Retriable
  <1>8. \A g \in Films, i \in Jobs : i # j /\ g # f /\ Retriable(g, i) => Retriable(g, i)'
    BY <1>1 DEF Retriable
  <1>9. RetriesKeepTheFilm'
    <2>1. \A g \in Films, i \in Jobs : Probes(g, i)' => Retriable(g, i)'
      BY <1>6, <1>7, <1>8, RetriesByJob DEF RetryInv
    <2> QED BY <2>1 DEF RetriesKeepTheFilm, Retriable, Destinations, Probes, Open, Exists
  <1> QED BY <1>4, <1>9 DEF RetryInv

\* A step that opens no inspection and keeps those that there are retriable.
LEMMA RetriesKept ==
    ASSUME RetriesKeepTheFilm,
           \A f \in Films, j \in Jobs : Probes(f, j)' => Probes(f, j),
           \A f \in Films, j \in Jobs : Probes(f, j)' /\ Retriable(f, j) => Retriable(f, j)'
    PROVE  RetriesKeepTheFilm'
  <1>1. \A f \in Films, j \in Jobs : Probes(f, j)' => Retriable(f, j)'
    BY RetriesByJob
  <1> QED BY <1>1 DEF RetriesKeepTheFilm, Retriable, Destinations

LEMMA StepRetry ==
    ASSUME Inv, RetryInv, [Next]_vars
    PROVE  RetryInv'
  <1> USE DEF libraryVars, subtitleVars, workerVars
  <1>t. TypeOK /\ JobInv /\ RetriesKeepTheFilm
    BY DEF Inv, RetryInv
  <1>1. ASSUME NEW u \in Uploads, CompleteUpload(u) PROVE RetryInv'
    <2>1. u \in Films /\ media[u] # "scanning"
      BY <1>t, <1>1 DEF JobInv, UploadInv, CompleteUpload, Films
    <2>2. /\ \A v \in Uploads : v # u => upload'[v] = upload[v]
          /\ \A g \in Films \ {u} : files'[g] = files[g]
          /\ "uploads" \in files'[u]
      BY <1>t, <1>1, <2>1 DEF TypeOK, CompleteUpload
    <2> QED BY <1>1, <2>1, <2>2, NewRetry DEF CompleteUpload, Places
  <1>2. ASSUME NEW u \in Uploads, CancelUpload(u) PROVE RetryInv'
    <2>1. WorkerKeepsFile'
      <3>1. worker.phase = "copied" /\ Target \in files[Film] => Target \in files'[Film]
        BY <1>t, <1>2, AtWork DEF TypeOK, CancelUpload, Target
      <3> QED BY <1>2, <3>1, WorkerUndisturbed DEF CancelUpload
    <2>2. \A f \in Films, j \in Jobs : Retriable(f, j) => Retriable(f, j)'
      BY <1>t, <1>2 DEF TypeOK, CancelUpload, Retriable
    <2>3. \A f \in Films, j \in Jobs : Probes(f, j)' => Probes(f, j)
      BY <1>2 DEF CancelUpload, Probes, Open, Exists
    <2> QED BY <1>t, <2>1, <2>2, <2>3, RetriesKept DEF RetryInv
  <1>3. ASSUME NEW f \in SftpFiles, ImportSftpFile(f) PROVE RetryInv'
    <2>1. f \in Films
      BY DEF Films
    <2> QED BY <1>3, <2>1, NewRetry DEF ImportSftpFile, Places
  <1>4. ASSUME NEW f \in Films, RescanMedia(f) PROVE RetryInv'
    BY <1>4, NewRetry DEF RescanMedia, Places
  <1>5. ASSUME NEW f \in Films, CreateSubtitleJob(f) PROVE RetryInv'
    <2>1. PICK j \in Jobs :
              /\ jobs[j] = None
              /\ jobs'[j] = [film |-> f, kind |-> "subtitle", source |-> None, state |-> "pending"]
              /\ \A i \in Jobs \ {j} : jobs'[i] = jobs[i]
      BY <1>t, <1>5, Inserted DEF CreateSubtitleJob
    <2>2. worker.phase \notin {"down", "idle"} => jobs'[worker.job] = jobs[worker.job]
      BY <2>1, AtWork DEF Exists
    <2>3. WorkerKeepsFile'
      BY <1>5, <2>2, WorkerUndisturbed DEF CreateSubtitleJob
    <2>4. \A g \in Films, i \in Jobs : Probes(g, i)' => Probes(g, i) /\ i # j
      BY <2>1 DEF Probes, Open, Exists
    <2>5. \A g \in Films, i \in Jobs : Probes(g, i)' /\ Retriable(g, i) => Retriable(g, i)'
      BY <1>5, <2>1, <2>4 DEF CreateSubtitleJob, Retriable
    <2> QED BY <1>t, <2>3, <2>4, <2>5, RetriesKept DEF RetryInv
  <1>6. ASSUME NEW f \in Films, TrashMedia(f) PROVE RetryInv'
    <2>1. worker'.job = worker.job /\ worker'.phase = worker.phase /\ worker'.fits = worker.fits
      BY <1>t, <1>6 DEF TypeOK, TrashMedia, Worker
    <2>2. /\ \A g \in Films \ {f} : files'[g] = files[g] /\ trashed'[g] = trashed[g]
          /\ trashed'[f]
      BY <1>t, <1>6 DEF TypeOK, TrashMedia
    <2>3. WorkerKeepsFile'
      BY <1>6, <2>1, <2>2, AtWork, WorkerUndisturbed DEF TrashMedia
    <2>4. \A g \in Films, i \in Jobs : Probes(g, i)' => Probes(g, i)
      BY <1>6 DEF TrashMedia, Probes, Open, Exists
    <2>5. \A g \in Films, i \in Jobs : Retriable(g, i) => Retriable(g, i)'
      BY <1>6, <2>1, <2>2 DEF TrashMedia, Retriable
    <2> QED BY <1>t, <2>3, <2>4, <2>5, RetriesKept DEF RetryInv
  <1>7. ASSUME NEW f \in Films, PurgeExpiredTrash(f) PROVE RetryInv'
    <2> DEFINE gone == {j \in Jobs : Exists(j) /\ jobs[j].film = f}
    <2>1. \A j \in gone : /\ jobs[j] \in Job
                          /\ [jobs[j] EXCEPT !.state = "deleted"].state = "deleted"
      BY <1>t DEF TypeOK, Exists, Job
    <2>2. /\ \A j \in gone : jobs'[j] = [jobs[j] EXCEPT !.state = "deleted"]
          /\ \A j \in Jobs \ gone : jobs'[j] = jobs[j]
      BY <1>7 DEF PurgeExpiredTrash
    <2>3. \A g \in Films, i \in Jobs : Probes(g, i)' => Probes(g, i) /\ g # f /\ i \notin gone
      BY <2>1, <2>2 DEF Probes, Open, Exists
    <2>4. \A g \in Films \ {f} : files'[g] = files[g] /\ trashed'[g] = trashed[g]
      BY <1>t, <1>7 DEF TypeOK, PurgeExpiredTrash
    <2>5. worker.phase \notin {"down", "idle"} => worker.job \in Jobs \ gone /\ Film \in Films \ {f}
      BY <1>7, AtWork DEF PurgeExpiredTrash, Film, Current
    <2>6. WorkerKeepsFile'
      BY <1>7, <2>2, <2>4, <2>5, WorkerUndisturbed DEF PurgeExpiredTrash
    <2>7. \A g \in Films, i \in Jobs : Probes(g, i)' /\ Retriable(g, i) => Retriable(g, i)'
      BY <1>7, <2>2, <2>3, <2>4 DEF PurgeExpiredTrash, Retriable
    <2> QED BY <1>t, <2>3, <2>6, <2>7, RetriesKept DEF RetryInv
  <1>8. CASE UNCHANGED <<upload, trashed, files, jobs, worker>>
    BY <1>t, <1>8 DEF RetryInv, WorkerKeepsFile, Current, Film, Target,
          RetriesKeepTheFilm, Probes, Open, Exists
  <1>9. ASSUME NEW j \in Jobs, ClaimJob(j) \/ LeaseRunsOut(j) PROVE RetryInv'
    <2>1. PICK state \in {"leased", "overdue"} : SetState(j, state)
      BY <1>9 DEF ClaimJob, LeaseRunsOut
    <2>2. Exists(j) /\ Open(j)
      BY <1>9 DEF ClaimJob, Claimable, LeaseRunsOut, Open
    <2>3. /\ jobs'[j] # None /\ jobs'[j].state = state
          /\ jobs'[j].film = jobs[j].film /\ jobs'[j].kind = jobs[j].kind
          /\ jobs'[j].source = jobs[j].source
          /\ \A i \in Jobs \ {j} : jobs'[i] = jobs[i]
      BY <1>t, <2>1, <2>2, StateSet
    <2>4. WorkerKeepsFile'
      <3>1. CASE ClaimJob(j)
        BY <3>1 DEF ClaimJob, Without, WorkerKeepsFile
      <3>2. CASE LeaseRunsOut(j)
        <4>1. worker.phase = "copied" => jobs'[worker.job] = jobs[worker.job]
          BY <2>3, <3>2, AtWork DEF LeaseRunsOut
        <4> QED BY <3>2, <4>1, WorkerUndisturbed DEF LeaseRunsOut
      <3> QED BY <1>9, <3>1, <3>2
    <2>5. \A g \in Films, i \in Jobs : Probes(g, i)' => Probes(g, i)
      BY <2>2, <2>3 DEF Probes, Open, Exists
    <2>6. \A g \in Films, i \in Jobs : Retriable(g, i) => Retriable(g, i)'
      BY <1>t, <1>9, <2>3 DEF ClaimJob, LeaseRunsOut, Retriable, JobInv, WorkerInv
    <2> QED BY <1>t, <2>4, <2>5, <2>6, RetriesKept DEF RetryInv
  <1>10. CASE CannotInspect \/ CannotMove \/ CannotWriteSubtitle \/ ReportFails \/ Crash \/ Restart
    <2>0. /\ UNCHANGED <<upload, trashed, files, jobs>>
          /\ worker' = Without("down") \/ worker' = Without("idle")
      BY <1>10 DEF CannotInspect, CannotMove, CannotWriteSubtitle, ReportFails, Exit, Crash, Restart
    <2>1. WorkerKeepsFile'
      BY <2>0 DEF Without, WorkerKeepsFile
    <2>2. \A g \in Films, i \in Jobs : Probes(g, i)' => Probes(g, i)
      BY <2>0 DEF Probes, Open, Exists
    <2>3. \A g \in Films, i \in Jobs : Retriable(g, i) => Retriable(g, i)'
      BY <2>0 DEF Retriable
    <2> QED BY <1>t, <2>1, <2>2, <2>3, RetriesKept DEF RetryInv
  <1>15. CASE Overrun
    <2>1. worker.job \in Jobs /\ Exists(worker.job) /\ Open(worker.job)
      BY <1>15, AtWork DEF Overrun, Inv, JobInv, WorkerInv
    <2>2. /\ jobs'[worker.job] # None /\ jobs'[worker.job].state = "overdue"
          /\ jobs'[worker.job].film = jobs[worker.job].film
          /\ jobs'[worker.job].kind = jobs[worker.job].kind
          /\ jobs'[worker.job].source = jobs[worker.job].source
          /\ \A i \in Jobs \ {worker.job} : jobs'[i] = jobs[i]
      BY <1>t, <1>15, <2>1, StateSet DEF Overrun
    <2>3. UNCHANGED <<upload, trashed, files, worker>>
      BY <1>15 DEF Overrun
    <2>4. WorkerKeepsFile'
      BY <2>2, <2>3, WorkerUndisturbed
    <2>5. \A g \in Films, i \in Jobs : Probes(g, i)' => Probes(g, i)
      BY <2>1, <2>2 DEF Probes, Open, Exists
    <2>6. \A g \in Films, i \in Jobs : Retriable(g, i) => Retriable(g, i)'
      BY <2>2, <2>3 DEF Retriable
    <2> QED BY <1>t, <2>4, <2>5, <2>6, RetriesKept DEF RetryInv
  <1>11. CASE Inspect \/ WriteSubtitle
    <2>0. /\ worker.phase = "claimed" /\ UNCHANGED <<upload, trashed, files, jobs>>
          /\ worker'.job = worker.job /\ worker'.phase \in {"inspected", "written"}
      BY <1>t, <1>11 DEF TypeOK, Worker, Inspect, WriteSubtitle, In, Proceed
    <2>1. WorkerKeepsFile'
      BY <2>0 DEF RetryInv, WorkerKeepsFile, Current
    <2>2. \A g \in Films, i \in Jobs : Probes(g, i)' => Probes(g, i)
      BY <2>0 DEF Probes, Open, Exists
    <2>3. \A g \in Films, i \in Jobs : Retriable(g, i) => Retriable(g, i)'
      BY <2>0 DEF Retriable
    <2> QED BY <1>t, <2>1, <2>2, <2>3, RetriesKept DEF RetryInv
  <1>12. CASE MoveFile \/ CopyFile \/ RemoveSource
    <2>0. worker.phase \notin {"down", "idle", "moved"} /\ Current.kind = "probe"
      BY <1>12 DEF MoveFile, CopyFile, MayMove, RemoveSource, In
    <2>1. /\ worker.job \in Jobs /\ Film \in Films /\ Probes(Film, worker.job)
      BY <2>0, AtWork
    <2>2. /\ worker'.job = worker.job /\ worker'.fits = worker.fits
          /\ worker'.phase = IF CopyFile THEN "copied" ELSE "moved"
      BY <1>t, <1>12, <2>0 DEF TypeOK, Worker, MoveFile, CopyFile, MayMove, RemoveSource, In, Proceed
    <2>3. /\ UNCHANGED <<upload, trashed, jobs>>
          /\ \A g \in Films \ {Film} : files'[g] = files[g]
      BY <1>t, <1>12 DEF TypeOK, MoveFile, CopyFile, RemoveSource
    <2>4. /\ MoveFile \/ CopyFile => Target \in files'[Film]
          /\ CopyFile => files[Film] \subseteq files'[Film] /\ Current.source # Target
      BY <1>t, <2>1 DEF TypeOK, MoveFile, CopyFile
    <2>5. RemoveSource => Target \in files'[Film] \/ trashed[Film]
      BY <1>t, <2>0, <2>1 DEF TypeOK, RemoveSource, In, RetryInv, WorkerKeepsFile
    <2>6. WorkerKeepsFile'
      BY <1>12, <2>2, <2>3, <2>4, <2>5 DEF WorkerKeepsFile, Current, Film, Target
    <2>8. \A g \in Films, i \in Jobs : Probes(g, i)' => Probes(g, i)
      BY <2>3 DEF Probes, Open, Exists
    <2>10. \A g \in Films, i \in Jobs : Probes(g, i) /\ Retriable(g, i) => Retriable(g, i)'
      <3> SUFFICES ASSUME NEW g \in Films, NEW i \in Jobs, Probes(g, i), Retriable(g, i)
                   PROVE  Retriable(g, i)'
        OBVIOUS
      <3>1. CASE g # Film
        BY <2>0, <2>3, <3>1 DEF Retriable
      <3>2. CASE g = Film /\ trashed[Film]
        BY <2>3, <3>2 DEF Retriable
      <3>3. CASE g = Film /\ Target \in files'[Film]
        BY <3>3 DEF Retriable, Target, Destinations
      <3> QED BY <1>12, <2>4, <2>5, <3>1, <3>2, <3>3
    <2>11. \A g \in Films, i \in Jobs : Probes(g, i)' /\ Retriable(g, i) => Retriable(g, i)'
      BY <2>8, <2>10
    <2> QED BY <1>t, <2>6, <2>8, <2>11, RetriesKept DEF RetryInv
  <1>13. CASE ReportFilm \/ ReportSubtitle
    <2>0. worker.phase \in {"moved", "written"} /\ worker' = Without("idle") /\ UNCHANGED <<trashed, files>>
      BY <1>13 DEF ReportFilm, ReportSubtitle, In
    <2>1. worker.job \in Jobs /\ Exists(worker.job) /\ Film \in Films
      BY <2>0, AtWork
    <2>2. /\ jobs'[worker.job].state = "completed"
          /\ \A i \in Jobs \ {worker.job} : jobs'[i] = jobs[i]
      BY <1>t, <1>13, <2>1, StateSet DEF ReportFilm, ReportSubtitle
    <2>3. \A g \in Films, i \in Jobs : Probes(g, i)' => Probes(g, i) /\ i # worker.job
      BY <2>2 DEF Probes, Open, Exists
    <2>4. \A g \in Films \ {Film} : g \in Uploads => upload'[g] = upload[g]
      BY <1>t, <1>13 DEF TypeOK, ReportFilm, ReportSubtitle
    <2>5. ReportSubtitle => upload' = upload
      BY DEF ReportSubtitle
    <2>6. ReportFilm => \A i \in Jobs : Probes(Film, i) => i = worker.job
      <3>1. ReportFilm => Probes(Film, worker.job)
        BY <2>0, AtWork DEF ReportFilm, In
      <3> QED BY <1>t, <2>1, <3>1 DEF JobInv, OneInspection
    <2>7. WorkerKeepsFile'
      BY <2>0 DEF Without, WorkerKeepsFile
    <2>8. \A g \in Films, i \in Jobs : Probes(g, i)' /\ Retriable(g, i) => Retriable(g, i)'
      BY <1>13, <2>0, <2>2, <2>3, <2>4, <2>5, <2>6 DEF Retriable
    <2> QED BY <1>t, <2>3, <2>7, <2>8, RetriesKept DEF RetryInv
  <1>14. (\E f \in Films : PlayFilm(f)) \/ StopFilm \/ UNCHANGED vars => UNCHANGED <<upload, trashed, files, jobs, worker>>
    BY DEF PlayFilm, StopFilm, vars
  <1> QED BY <1>1, <1>2, <1>3, <1>4, <1>5, <1>6, <1>7, <1>8, <1>9, <1>10, <1>11, <1>12, <1>13, <1>14,
             <1>15
        DEF Next, Work

-----------------------------------------------------------------------------
(* Theorems *)

LEMMA Invariance == Spec => []Inv
  <1>1. Init => Inv
    BY InitType, InitJobs DEF Inv
  <1>2. Inv /\ [Next]_vars => Inv'
    BY StepType, StepJobs, StepFiles DEF Inv
  <1> QED BY <1>1, <1>2, PTL DEF Spec

\* Tables, files and the worker keep their types.
THEOREM TypeCorrect == Spec => []TypeOK
  <1>1. Inv => TypeOK
    BY DEF Inv
  <1> QED BY <1>1, Invariance, PTL

\* A film is scanning exactly as long as one unfinished job inspects it, whenever
\* the worker crashes and however long it takes (media-service.ts).
THEOREM ScanningHasOneInspection == Spec => []OneInspection
  <1>1. Inv => OneInspection
    BY DEF Inv, JobInv
  <1> QED BY <1>1, Invariance, PTL

\* The films of the library and of the room have their files, under every order
\* of the worker, the trash and rescans (media-service.ts, process-media.ts).
THEOREM LibraryHasItsFiles == Spec => []FilmsHaveFiles
  <1>1. Inv => FilmsHaveFiles
    BY DEF Inv, FileInv
  <1> QED BY <1>1, Invariance, PTL

\* Purged films leave no file behind, also when the worker is moving them while
\* they are trashed and purged (purgeExpiredTrash).
THEOREM PurgedFilmsLeaveNothing == Spec => []NothingIsLeft
  <1>1. Inv => NothingIsLeft
    BY DEF Inv, FileInv
  <1> QED BY <1>1, Invariance, PTL

\* Whenever the worker is killed, however slow it is and however often a job is
\* tried, a film that waits for its inspection has a whole file where the job says
\* or where an inspection puts it, unless it is trashed or cancelled: no order of
\* the copy, the removal of the source and the requests loses it.
THEOREM RetriesAreSafe == Spec => []RetriesKeepTheFilm
  <1>1. Init => Inv /\ RetryInv
    BY InitType, InitJobs, InitRetry DEF Inv
  <1>2. (Inv /\ RetryInv) /\ [Next]_vars => (Inv /\ RetryInv)'
    BY StepType, StepJobs, StepFiles, StepRetry DEF Inv
  <1>3. Inv /\ RetryInv => RetriesKeepTheFilm
    BY DEF RetryInv
  <1> QED BY <1>1, <1>2, <1>3, PTL DEF Spec

-----------------------------------------------------------------------------
(* The life of a film *)

\* Only a film with a row is in the trash: a purge leaves none behind for the
\* next film of the same file.
TrashHasRow == \A f \in Films : media[f] = "none" => ~ trashed[f]

\* The worker writes rows of films and uploads only when it reports a film.
LEMMA WorkKeepsRows ==
    ASSUME Work PROVE ReportFilm \/ UNCHANGED <<upload, media, trashed, playing>>
  <1>1. Exit => UNCHANGED <<upload, media, trashed, playing>>
    BY DEF Exit, libraryVars
  <1>2. Inspect \/ WriteSubtitle \/ ReportSubtitle => UNCHANGED <<libraryVars, playing>>
    BY Zenon DEF Inspect, WriteSubtitle, ReportSubtitle
  <1>3. MoveFile \/ CopyFile \/ RemoveSource => UNCHANGED <<upload, media, trashed, playing>>
    BY DEF MoveFile, CopyFile, RemoveSource
  <1>4. CannotInspect \/ CannotMove \/ CannotWriteSubtitle \/ ReportFails => Exit
    BY DEF CannotInspect, CannotMove, CannotWriteSubtitle, ReportFails
  <1> QED BY <1>1, <1>2, <1>3, <1>4 DEF Work, libraryVars

LEMMA StepTrash == ASSUME Inv, TrashHasRow, [Next]_vars PROVE TrashHasRow'
  <1> USE DEF libraryVars, subtitleVars, workerVars
  <1>t. media \in [Films -> {"none", "scanning", "published", "incompatible"}]
        /\ trashed \in [Films -> BOOLEAN]
    BY DEF Inv, TypeOK
  <1>1. ASSUME NEW f \in Films, NEW state \in {"scanning", "published", "incompatible"},
               media' = [media EXCEPT ![f] = state], UNCHANGED trashed,
               media[f] # "none" \/ ~ trashed[f]
        PROVE  TrashHasRow'
    BY <1>t, <1>1 DEF TrashHasRow
  <1>2. ASSUME NEW u \in Uploads, CompleteUpload(u) PROVE TrashHasRow'
    <2>1. u \in Films /\ media[u] = "none" /\ ~ trashed[u]
      BY <1>2 DEF Inv, JobInv, UploadInv, CompleteUpload, Films, TrashHasRow
    <2> QED BY <1>1, <1>2, <2>1 DEF CompleteUpload
  <1>3. ASSUME NEW f \in SftpFiles, ImportSftpFile(f) PROVE TrashHasRow'
    <2>1. f \in Films /\ ~ trashed[f]
      BY <1>3 DEF ImportSftpFile, Films, TrashHasRow
    <2> QED BY <1>1, <1>3, <2>1 DEF ImportSftpFile
  <1>4. ASSUME NEW f \in Films, RescanMedia(f) PROVE TrashHasRow'
    BY <1>1, <1>4 DEF RescanMedia
  <1>5. ASSUME NEW f \in Films, TrashMedia(f) PROVE TrashHasRow'
    BY <1>t, <1>5 DEF TrashMedia, TrashHasRow
  <1>6. ASSUME NEW f \in Films, PurgeExpiredTrash(f) PROVE TrashHasRow'
    BY <1>t, <1>6 DEF PurgeExpiredTrash, TrashHasRow
  <1>7. CASE ReportFilm
    <2>1. Film \in Films /\ media[Film] = "scanning"
      BY <1>7, AtWork DEF ReportFilm, In
    <2> QED BY <1>1, <1>7, <2>1 DEF ReportFilm, Outcome
  <1>8. CASE UNCHANGED <<media, trashed>>
    BY <1>8 DEF TrashHasRow
  <1>9. CASE Work \/ Overrun \/ Crash \/ Restart \/ UNCHANGED vars
    BY <1>7, <1>8, <1>9, WorkKeepsRows DEF Overrun, Crash, Restart, vars
  <1>10. ASSUME NEW u \in Uploads, CancelUpload(u) PROVE TrashHasRow'
    BY <1>8, <1>10 DEF CancelUpload
  <1>11. ASSUME NEW f \in Films, CreateSubtitleJob(f) \/ PlayFilm(f) PROVE TrashHasRow'
    BY <1>8, <1>11 DEF CreateSubtitleJob, PlayFilm
  <1>12. ASSUME NEW j \in Jobs, ClaimJob(j) \/ LeaseRunsOut(j) PROVE TrashHasRow'
    BY <1>8, <1>12 DEF ClaimJob, LeaseRunsOut
  <1>13. CASE StopFilm
    BY <1>8, <1>13 DEF StopFilm
  <1> QED BY <1>2, <1>3, <1>4, <1>5, <1>6, <1>9, <1>10, <1>11, <1>12, <1>13 DEF Next

Spent == {u \in Uploads : upload[u] # "open"}

\* A step at one film's row is a step of its stage.
LEMMA OneStage ==
    ASSUME NEW f \in Films, NEW stage,
           \A g \in Films : g # f => media'[g] = media[g] /\ trashed'[g] = trashed[g],
           stage = IF media'[f] = "none" THEN "absent" ELSE IF trashed'[f] THEN "trash" ELSE media'[f]
    PROVE  Stage' = [Stage EXCEPT ![f] = stage]
  BY DEF Stage

LEMMA SameStage ==
    ASSUME UNCHANGED <<media, trashed>> PROVE Stage' = Stage
  BY DEF Stage

\* Every step of the library is a step of a film's life, or none of it.
LEMMA StepLife == ASSUME Inv, TrashHasRow, [Next]_vars PROVE [Life!Next]_Life!lifeVars
  <1> USE DEF libraryVars, subtitleVars, workerVars
  <1>t. /\ media \in [Films -> {"none", "scanning", "published", "incompatible"}]
        /\ trashed \in [Films -> BOOLEAN]
        /\ upload \in [Uploads -> {"open", "received", "cancelled", "published", "incompatible"}]
    BY DEF Inv, TypeOK
  <1>1. ASSUME NEW u \in Uploads, CompleteUpload(u) PROVE Life!Register(u)
    <2>1. u \in Films /\ media[u] = "none" /\ ~ trashed[u]
      BY <1>1 DEF Inv, JobInv, UploadInv, CompleteUpload, Films, TrashHasRow
    <2>2. Stage[u] = "absent" /\ u \notin Spent
      BY <1>1, <2>1 DEF Stage, Spent, CompleteUpload
    <2>3. Stage' = [Stage EXCEPT ![u] = "scanning"]
      BY <1>t, <1>1, <2>1, OneStage DEF CompleteUpload
    <2>4. Spent' = Spent \cup (Uploads \cap {u})
      BY <1>t, <1>1 DEF CompleteUpload, Spent
    <2> QED BY <1>1, <2>2, <2>3, <2>4 DEF CompleteUpload, Life!Register, Life!Become, Spent
  <1>2. ASSUME NEW u \in Uploads, CancelUpload(u) PROVE Life!Withdraw(u)
    <2>1. Spent' = Spent \cup {u}
      BY <1>t, <1>2 DEF CancelUpload, Spent
    <2> QED BY <1>2, <2>1, SameStage DEF CancelUpload, Life!Withdraw, Spent
  <1>3. ASSUME NEW f \in SftpFiles, ImportSftpFile(f) PROVE Life!Register(f)
    <2>1. f \in Films /\ f \notin Uploads /\ media[f] = "none" /\ ~ trashed[f]
      BY <1>3, JobsAssumption DEF ImportSftpFile, Films, TrashHasRow
    <2>2. Stage[f] = "absent" /\ f \notin Spent
      BY <2>1 DEF Stage, Spent
    <2>3. Stage' = [Stage EXCEPT ![f] = "scanning"]
      BY <1>t, <1>3, <2>1, OneStage DEF ImportSftpFile
    <2>4. Spent' = Spent \cup (Uploads \cap {f})
      BY <1>3, <2>1 DEF ImportSftpFile, Spent
    <2> QED BY <1>3, <2>2, <2>3, <2>4 DEF ImportSftpFile, Life!Register, Life!Become, Spent
  <1>4. ASSUME NEW f \in Films, RescanMedia(f) PROVE Life!Rescan(f)
    <2>1. Stage[f] = "incompatible"
      BY <1>4 DEF RescanMedia, Stage
    <2>2. Stage' = [Stage EXCEPT ![f] = "scanning"]
      BY <1>t, <1>4, OneStage DEF RescanMedia
    <2> QED BY <1>4, <2>1, <2>2 DEF RescanMedia, Life!Rescan, Life!Become
  <1>5. ASSUME NEW f \in Films, TrashMedia(f) PROVE Life!Discard(f)
    <2>1. Stage[f] \in {"scanning", "published", "incompatible"}
      BY <1>t, <1>5 DEF TrashMedia, Stage
    <2>2. Stage' = [Stage EXCEPT ![f] = "trash"]
      BY <1>t, <1>5, OneStage DEF TrashMedia
    <2> QED BY <1>5, <2>1, <2>2 DEF TrashMedia, Life!Discard, Life!Become
  <1>6. ASSUME NEW f \in Films, PurgeExpiredTrash(f) PROVE Life!Purge(f)
    <2>1. Stage[f] = "trash"
      BY <1>6 DEF PurgeExpiredTrash, Stage, TrashHasRow
    <2>2. Stage' = [Stage EXCEPT ![f] = "absent"]
      BY <1>t, <1>6, OneStage DEF PurgeExpiredTrash
    <2> QED BY <1>6, <2>1, <2>2 DEF PurgeExpiredTrash, Life!Purge, Life!Become
  <1>7. ASSUME NEW f \in Films, PlayFilm(f) PROVE Life!Show(f)
    <2>1. Stage[f] = "published"
      BY <1>7 DEF PlayFilm, Stage
    <2> QED BY <1>7, <2>1, SameStage DEF PlayFilm, Life!Show
  <1>8. CASE StopFilm
    BY <1>8, SameStage DEF StopFilm, Life!Blank, Life!Next
  <1>9. CASE ReportFilm
    <2>1. Film \in Films /\ media[Film] = "scanning"
      BY <1>9, AtWork DEF ReportFilm, In
    <2>2. Outcome \in {"published", "incompatible"}
      BY DEF Outcome
    <2>3. media' = [media EXCEPT ![Film] = Outcome] /\ UNCHANGED <<trashed, playing>>
      BY <1>9 DEF ReportFilm
    <2>4. Spent' = Spent
      <3>1. CASE upload' = [upload EXCEPT ![Film] = Outcome]
        <4>1. \A u \in Uploads : u = Film => upload[u] # "open"
          BY <2>1 DEF Inv, JobInv, UploadInv
        <4> QED BY <1>t, <2>2, <3>1, <4>1 DEF Spent
      <3>2. CASE upload' = upload
        BY <3>2 DEF Spent
      <3> QED BY <1>9, <3>1, <3>2 DEF ReportFilm
    <2>5. CASE trashed[Film]
      <3>1. Stage' = Stage
        BY <1>t, <2>1, <2>2, <2>3, <2>5 DEF Stage
      <3> QED BY <2>3, <2>4, <3>1 DEF Life!lifeVars, Spent
    <2>6. CASE ~ trashed[Film]
      <3>1. Stage[Film] = "scanning"
        BY <2>1, <2>6 DEF Stage
      <3>2. Stage' = [Stage EXCEPT ![Film] = Outcome]
        BY <1>t, <2>1, <2>2, <2>3, <2>6, OneStage
      <3>3. Life!Settle(Film)
        BY <2>2, <2>3, <2>4, <3>1, <3>2 DEF Life!Settle, Life!Become, Spent
      <3> QED BY <2>1, <3>3 DEF Life!Next
    <2> QED BY <2>5, <2>6
  <1>10. CASE UNCHANGED <<upload, media, trashed, playing>>
    BY <1>10, SameStage DEF Life!lifeVars
  <1>11. Uploads \subseteq Films /\ SftpFiles \subseteq Films
    BY DEF Films
  <1>12. CASE \E u \in Uploads : CompleteUpload(u) \/ CancelUpload(u)
    BY <1>1, <1>2, <1>11, <1>12 DEF Life!Next
  <1>13. CASE \E f \in SftpFiles : ImportSftpFile(f)
    BY <1>3, <1>11, <1>13 DEF Life!Next
  <1>14. CASE \E f \in Films :
                 RescanMedia(f) \/ TrashMedia(f) \/ PurgeExpiredTrash(f) \/ PlayFilm(f)
    BY <1>4, <1>5, <1>6, <1>7, <1>14 DEF Life!Next
  <1>15. CASE Work \/ Overrun \/ Crash \/ Restart \/ UNCHANGED vars
    BY <1>9, <1>10, <1>15, WorkKeepsRows DEF Overrun, Crash, Restart, vars
  <1>16. ASSUME NEW f \in Films, CreateSubtitleJob(f) PROVE UNCHANGED <<upload, media, trashed, playing>>
    BY <1>16 DEF CreateSubtitleJob
  <1>17. ASSUME NEW j \in Jobs, ClaimJob(j) \/ LeaseRunsOut(j)
         PROVE  UNCHANGED <<upload, media, trashed, playing>>
    BY <1>17 DEF ClaimJob, LeaseRunsOut
  <1> QED BY <1>8, <1>10, <1>12, <1>13, <1>14, <1>15, <1>16, <1>17 DEF Next

\* A film leads the life that FilmLife promises: a result that comes late or
\* again decides nothing twice, the film of the room stays in the library, and
\* an upload comes once (completeUpload, completeJob, trashMedia).
THEOREM LibraryKeepsFilmLife == Spec => ImplementsFilmLife
  <1>1. Init => Life!Init
    <2> SUFFICES ASSUME Init PROVE Life!Init
      OBVIOUS
    <2>1. Stage = [f \in Films |-> "absent"]
      BY DEF Init, Stage
    <2>2. Spent = {}
      BY DEF Init, Spent
    <2> QED BY <2>1, <2>2 DEF Init, Life!Init, Spent
  <1>2. Init => TrashHasRow
    BY DEF Init, TrashHasRow
  <1>3. Inv /\ TrashHasRow /\ [Next]_vars => TrashHasRow' /\ [Life!Next]_Life!lifeVars
    BY StepTrash, StepLife
  <1> QED BY <1>1, <1>2, <1>3, Invariance, PTL DEF Spec, ImplementsFilmLife, Life!Spec
=============================================================================
