----------------------------- MODULE SftpImport -----------------------------
(***************************************************************************)
(* How a film that a client writes into sftp/incoming gets into the        *)
(* library: the client, SftpScanner in the worker, and importSftpFile of   *)
(* the API.                                                                *)
(*                                                                         *)
(* A unit of time is half a minute.  A client either writes a name that    *)
(* ends in `.part' and renames the file, or writes the final name and then *)
(* never pauses for as long as two minutes (MaxPause).                     *)
(*                                                                         *)
(* Abstractions.                                                           *)
(*  - an observation that differs from the size and time of the file is    *)
(*    like none: both are replaced by the next scan.                       *)
(*  - a copy in inbox/sftp is known by its place in `copies'; the names    *)
(*    that moveFile makes up never meet.                                   *)
(*  - names and kinds of entries that the scanner skips are left out.      *)
(***************************************************************************)
EXTENDS Naturals, Sequences

CONSTANTS
    Files,       \* names in sftp/incoming, each used once
    Direct,      \* those that are written without `.part'
    MaxPause,    \* longest pause of a client that writes a final name
    MaxFaults,   \* bound: copies that fail, and times the worker is killed
    None

Interval == 2  \* between two scans, and between the observations that agree
Rest == 4      \* without a change of the file

Phases == {"down", "idle", "scanning", "copying", "unlinking", "registering"}

ASSUME FileAssumption == Direct \subseteq Files
ASSUME PauseAssumption == MaxPause \in 0..Rest - 1
ASSUME FaultAssumption == MaxFaults \in Nat
ASSUME NoneAssumption == None \notin Files

VARIABLES
    place,   \* of the client's file
    whole,   \* the client wrote all of it
    age,     \* since its mtime; Rest stands for more
    seen,    \* age of the scanner's observation; Unseen if none
    due,     \* until nextSftpScanAt
    phase,   \* of the worker
    todo,    \* entries, or copies, that the phase has yet to look at
    at,      \* file that is moved
    copies,  \* of each file: those that were ever in inbox/sftp
    torn,    \* files that the worker was killed in the middle of moving
    faults   \* how many there were

clientVars == <<place, whole>>
workerVars == <<seen, due, phase, todo, at>>
vars == <<clientVars, age, workerVars, copies, torn, faults>>

Unseen == Interval + 1

Numbers == 1..MaxFaults + 1

\* The file has all that the client wrote, is still there, became so many films.
Copies == [whole : BOOLEAN, there : BOOLEAN, films : Nat]

TypeOK ==
    /\ place \in [Files -> {"absent", "part", "incoming", "moved", "withdrawn"}]
    /\ whole \in [Files -> BOOLEAN]
    /\ age \in [Files -> 0..Rest]
    /\ seen \in [Files -> 0..Unseen]
    /\ due \in 0..Interval
    /\ phase \in Phases
    /\ todo \subseteq IF phase = "registering" THEN Files \X Numbers ELSE Files
    /\ phase \in {"down", "idle"} => todo = {}
    /\ at \in IF phase \in {"copying", "unlinking"} THEN Files ELSE {None}
    /\ copies \in [Files -> Seq(Copies)]
    /\ \A f \in Files : Len(copies[f]) \in 0..MaxFaults + 1
    /\ torn \subseteq Files
    /\ faults \in 0..MaxFaults

Init ==
    /\ place = [f \in Files |-> "absent"] /\ whole = [f \in Files |-> FALSE]
    /\ age = [f \in Files |-> 0]
    /\ seen = [f \in Files |-> Unseen] /\ due = 0
    /\ phase = "idle" /\ todo = {} /\ at = None
    /\ copies = [f \in Files |-> <<>>] /\ torn = {}
    /\ faults = 0

Fault == faults < MaxFaults /\ faults' = faults + 1

-----------------------------------------------------------------------------
(* The client *)

Present(f) == place[f] \in {"part", "incoming"}

Touch(f) ==
    /\ age' = [age EXCEPT ![f] = 0]
    /\ seen' = [seen EXCEPT ![f] = Unseen]

Create(f) ==
    /\ place[f] = "absent"
    /\ place' = [place EXCEPT ![f] = IF f \in Direct THEN "incoming" ELSE "part"]
    /\ Touch(f)
    /\ UNCHANGED <<whole, due, phase, todo, at, copies, torn, faults>>

\* The last write makes the file whole.
Write(f) ==
    /\ Present(f) /\ ~whole[f]
    /\ whole' \in {whole, [whole EXCEPT ![f] = TRUE]}
    /\ Touch(f)
    /\ UNCHANGED <<place, due, phase, todo, at, copies, torn, faults>>

\* A rename keeps the time of the file.
Rename(f) ==
    /\ place[f] = "part" /\ whole[f]
    /\ place' = [place EXCEPT ![f] = "incoming"]
    /\ UNCHANGED <<whole, age, workerVars, copies, torn, faults>>

\* The client removes the file again.
Withdraw(f) ==
    /\ place[f] = "incoming"
    /\ place' = [place EXCEPT ![f] = "withdrawn"]
    /\ UNCHANGED <<whole, age, workerVars, copies, torn, faults>>

-----------------------------------------------------------------------------
(* SftpScanner.scan *)

ScanBegin ==
    /\ phase = "idle" /\ due = 0
    /\ phase' = "scanning" /\ due' = Interval
    /\ todo' = {f \in Files : place[f] = "incoming"}
    /\ UNCHANGED <<clientVars, age, seen, at, copies, torn, faults>>

\* Mutant: two observations that agree are enough.
StableWithoutRest(f) == seen[f] = Interval

Stable(f) == seen[f] = Interval /\ age[f] = Rest

\* The first of two observations that agree, or too early for the second.
Observe(f) ==
    /\ phase = "scanning" /\ f \in todo /\ place[f] = "incoming" /\ ~Stable(f)
    /\ todo' = todo \ {f}
    /\ seen' = IF seen[f] = Unseen THEN [seen EXCEPT ![f] = 0] ELSE seen
    /\ UNCHANGED <<clientVars, age, due, phase, at, copies, torn, faults>>

Copy(isWhole) == [whole |-> isWhole, there |-> TRUE, films |-> 0]

WithCopy(f, isWhole) == [copies EXCEPT ![f] = Append(@, Copy(isWhole))]

\* moveFile where rename(2) works.
MoveByRename(f) ==
    /\ phase = "scanning" /\ f \in todo /\ place[f] = "incoming" /\ Stable(f)
    /\ place' = [place EXCEPT ![f] = "moved"]
    /\ copies' = WithCopy(f, whole[f])
    /\ seen' = [seen EXCEPT ![f] = Unseen]
    /\ todo' = todo \ {f}
    /\ UNCHANGED <<whole, age, due, phase, at, torn, faults>>

\* EXDEV: moveFile copies to a temporary name in inbox/sftp, ...
CopyBegins(f) ==
    /\ phase = "scanning" /\ f \in todo /\ place[f] = "incoming" /\ Stable(f)
    /\ phase' = "copying" /\ at' = f
    /\ UNCHANGED <<clientVars, age, seen, due, todo, copies, torn, faults>>

\* ... renames the copy, ...
CopyEnds ==
    /\ phase = "copying"
    /\ phase' = "unlinking"
    /\ copies' = WithCopy(at, whole[at])
    /\ UNCHANGED <<clientVars, age, seen, due, todo, at, torn, faults>>

\* ... and removes the source.  Nothing catches the error when it is gone.
Unlink ==
    /\ phase = "unlinking"
    /\ place' = [place EXCEPT ![at] = IF @ = "incoming" THEN "moved" ELSE @]
    /\ phase' = IF place[at] = "incoming" THEN "scanning" ELSE "down"
    /\ seen' = [seen EXCEPT ![at] = Unseen]
    /\ todo' = IF place[at] = "incoming" THEN todo \ {at} ELSE {}
    /\ at' = None
    /\ UNCHANGED <<whole, age, due, copies, torn, faults>>

\* The temporary copy is removed; the error ends the worker.
CopyFails ==
    /\ phase = "copying" /\ Fault
    /\ phase' = "down" /\ todo' = {} /\ at' = None
    /\ UNCHANGED <<clientVars, age, seen, due, copies, torn>>

\* lstat of an entry that was read and is gone: the error ends the worker.
EntryIsGone(f) ==
    /\ phase = "scanning" /\ f \in todo /\ place[f] = "withdrawn"
    /\ phase' = "down" /\ todo' = {}
    /\ UNCHANGED <<clientVars, age, seen, due, at, copies, torn, faults>>

\* Mutant: the observations of the files that are there are dropped.
ForgottenTheWrongOnes == [f \in Files |-> IF place[f] = "incoming" THEN Unseen ELSE seen[f]]

\* Observations of paths that are no longer there are deleted.
Forgotten == [f \in Files |-> IF place[f] = "incoming" THEN seen[f] ELSE Unseen]

PendingImports ==
    UNION {{<<f, i>> : i \in {j \in DOMAIN copies[f] : copies[f][j].there}} : f \in Files}

ScanEnd ==
    /\ phase = "scanning" /\ todo = {}
    /\ seen' = Forgotten
    /\ phase' = "registering" /\ todo' = PendingImports
    /\ UNCHANGED <<clientVars, age, due, at, copies, torn, faults>>

-----------------------------------------------------------------------------
(* The registration *)

\* Mutant: no look for a row with this source_path.
ImportSftpFileAlways(c) == [c EXCEPT !.films = @ + 1]

\* importSftpFile: the row with this source_path, or a new one.
ImportSftpFile(c) == [c EXCEPT !.films = IF @ = 0 THEN 1 ELSE @]

Register(f, i) ==
    /\ phase = "registering" /\ <<f, i>> \in todo
    /\ copies' = [copies EXCEPT ![f][i] = ImportSftpFile(@)]
    /\ todo' = todo \ {<<f, i>>}
    /\ UNCHANGED <<clientVars, age, seen, due, phase, at, torn, faults>>

\* The API cannot be reached or answers with an error.
RegisterFails(f, i) ==
    /\ phase = "registering" /\ <<f, i>> \in todo
    /\ todo' = todo \ {<<f, i>>}
    /\ UNCHANGED <<clientVars, age, seen, due, phase, at, copies, torn, faults>>

RegisterEnd ==
    /\ phase = "registering" /\ todo = {}
    /\ phase' = "idle"
    /\ UNCHANGED <<clientVars, age, seen, due, todo, at, copies, torn, faults>>

\* The probe job of the film, later in the same loop, moves the file away.
Probed(f, i) ==
    /\ phase = "idle" /\ i \in DOMAIN copies[f]
    /\ copies[f][i].there /\ copies[f][i].films > 0
    /\ copies' = [copies EXCEPT ![f][i].there = FALSE]
    /\ UNCHANGED <<clientVars, age, workerVars, torn, faults>>

\* The worker is killed.  What a copy had got to stays under its temporary name.
Crash ==
    /\ phase # "down" /\ Fault
    /\ phase' = "down" /\ todo' = {} /\ at' = None
    /\ copies' \in {copies} \cup
        (IF phase = "copying" THEN {WithCopy(at, b) : b \in {FALSE, whole[at]}} ELSE {})
    /\ torn' = IF phase \in {"copying", "unlinking"} THEN torn \cup {at} ELSE torn
    /\ UNCHANGED <<clientVars, age, seen, due>>

Restart ==
    /\ phase = "down"
    /\ phase' = "idle" /\ due' = 0 /\ seen' = [f \in Files |-> Unseen]
    /\ UNCHANGED <<clientVars, age, todo, at, copies, torn, faults>>

-----------------------------------------------------------------------------
Older(n, oldest) == IF n < oldest THEN n + 1 ELSE n

TimePasses ==
    /\ \A f \in Direct :
        place[f] = "incoming" /\ ~whole[f] => age[f] < MaxPause
    /\ age' = [f \in Files |-> IF Present(f) THEN Older(age[f], Rest) ELSE age[f]]
    /\ seen' = [f \in Files |-> IF seen[f] = Unseen THEN Unseen ELSE Older(seen[f], Interval)]
    /\ due' = IF due = 0 THEN 0 ELSE due - 1
    /\ UNCHANGED <<clientVars, phase, todo, at, copies, torn, faults>>

ClientStep(f) == Create(f) \/ Write(f) \/ Rename(f) \/ Withdraw(f)

ScanStep(f) == Observe(f) \/ MoveByRename(f) \/ CopyBegins(f) \/ EntryIsGone(f)

MoveStep == CopyEnds \/ Unlink

RegisterStep(f, i) == Register(f, i) \/ RegisterFails(f, i)

WorkerStep ==
    \/ ScanBegin \/ MoveStep \/ ScanEnd \/ RegisterEnd \/ Restart
    \/ \E f \in Files : ScanStep(f) \/ (\E i \in Numbers : RegisterStep(f, i))

Next ==
    \/ WorkerStep \/ CopyFails \/ Crash \/ TimePasses
    \/ \E f \in Files : ClientStep(f) \/ (\E i \in Numbers : Probed(f, i))

Spec == Init /\ [][Next]_vars

\* A client that writes a final name goes on writing; the API answers again and
\* again.
Fairness ==
    /\ WF_vars(WorkerStep)
    /\ SF_vars(TimePasses)
    /\ \A f \in Files :
        /\ WF_vars(Write(f))
        /\ SF_vars(\E i \in Numbers : Register(f, i))

FairSpec == Spec /\ Fairness

-----------------------------------------------------------------------------
(* Properties *)

\* What is registered as a film is the whole file of the client, whether the
\* client writes the final name slowly or renames, whatever the scanner saw
\* before and whatever fails (the two observations and the rest of scan, and the
\* temporary name of moveFile) -- unless the worker is killed while it moves the
\* file: pendingImports takes what is left under the temporary name for a film.
NoHalfFilm ==
    \A f \in Files \ torn : \A i \in DOMAIN copies[f] :
        copies[f][i].films > 0 => copies[f][i].whole

\* A file becomes at most one film, through registrations that fail or are
\* repeated, restarts of the worker, copies that fail and a client that removes
\* its file (source_path in importSftpFile; moveFile removes the source) -- again
\* unless the worker is killed between the copy and the removal of the source.
OneFilmPerFile ==
    \A f \in Files \ torn : \A i, j \in DOMAIN copies[f] :
        copies[f][i].films > 0 /\ copies[f][j].films > 0 => i = j /\ copies[f][i].films = 1

\* A file that is whole under its final name becomes a film, unless the client
\* removes it, wherever the worker is killed: pendingImports finds it again after
\* a registration that failed, and the next scans do after a restart.
EveryFileIsImported ==
    \A f \in Files :
        (place[f] = "incoming" /\ whole[f])
            ~> (place[f] = "withdrawn" \/ \E i \in DOMAIN copies[f] : copies[f][i].films > 0)
=============================================================================
