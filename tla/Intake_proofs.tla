---------------------------- MODULE Intake_proofs ----------------------------
(***************************************************************************)
(* Proofs about the two ways by which a film gets to the server:           *)
(* SftpImport, for all files, pauses shorter than the rest that the        *)
(* scanner waits for, and numbers of faults; and Uploads, for all uploads, *)
(* sizes, disks, reserves and chunks.                                      *)
(***************************************************************************)
EXTENDS SftpImport, Uploads, SequenceTheorems, FiniteSetTheorems, TLAPS

-----------------------------------------------------------------------------
(* Imports over SFTP *)

Rows == copies \in [Files -> Seq(Copies)]

Moving == phase \in {"copying", "unlinking"}

\* What is reported is in inbox/sftp.
Listed ==
    phase = "registering" => \A f \in Files, i \in Nat :
        <<f, i>> \in todo => i \in 1..Len(copies[f])

AtPlace == Moving => place[at] \in {"incoming", "withdrawn"}

\* Nothing of the present move of the file is in inbox/sftp so far.
Unmoved(f) ==
    \/ place[f] \in {"absent", "part", "incoming"} /\ ~ (phase = "unlinking" /\ at = f)
    \/ phase = "copying" /\ at = f

\* A second copy of a file needs a fault.
Counts ==
    \A f \in Files :
        /\ Len(copies[f]) <= faults + 1
        /\ Unmoved(f) => Len(copies[f]) <= faults

\* A file that is not torn has one copy, which is one film at most.
Single ==
    \A f \in Files \ torn :
        /\ Len(copies[f]) <= 1
        /\ Unmoved(f) => Len(copies[f]) = 0
        /\ \A i \in 1..Len(copies[f]) : copies[f][i].films <= 1

\* A file that is not whole has not rested, so that what is copied is whole.
Rested ==
    /\ \A f \in Files : place[f] = "incoming" /\ ~ whole[f] => f \in Direct /\ age[f] <= MaxPause
    /\ Moving => whole[at]

WholeCopies ==
    \A f \in Files \ torn : \A i \in 1..Len(copies[f]) : copies[f][i].whole

-----------------------------------------------------------------------------
LEMMA Grow ==
    ASSUME Rows, NEW f \in Files, NEW b \in BOOLEAN, copies' = WithCopy(f, b)
    PROVE  /\ Rows'
           /\ \A g \in Files :
                /\ Len(copies'[g]) = IF g = f THEN Len(copies[g]) + 1 ELSE Len(copies[g])
                /\ \A i \in 1..Len(copies[g]) : copies'[g][i] = copies[g][i]
           /\ copies'[f][Len(copies[f]) + 1] = Copy(b)
<1>1. Copy(b) \in Copies
  BY DEF Copy, Copies
<1>2. copies[f] \in Seq(Copies)
  BY DEF Rows
<1>3. copies' = [copies EXCEPT ![f] = Append(copies[f], Copy(b))]
  BY DEF WithCopy
<1>4. /\ Append(copies[f], Copy(b)) \in Seq(Copies)
      /\ Len(Append(copies[f], Copy(b))) = Len(copies[f]) + 1
      /\ \A i \in 1..Len(copies[f]) : Append(copies[f], Copy(b))[i] = copies[f][i]
      /\ Append(copies[f], Copy(b))[Len(copies[f]) + 1] = Copy(b)
  BY <1>1, <1>2, AppendProperties
<1>5. \A g \in Files : copies'[g] = IF g = f THEN Append(copies[f], Copy(b)) ELSE copies[g]
  BY <1>3 DEF Rows
<1>6. Rows'
  BY <1>3, <1>4 DEF Rows
<1>. QED
  BY <1>4, <1>5, <1>6

LEMMA Change ==
    ASSUME Rows, NEW f \in Files, NEW i \in 1..Len(copies[f]), NEW row \in Copies,
           copies' = [copies EXCEPT ![f] = [copies[f] EXCEPT ![i] = row]]
    PROVE  /\ Rows'
           /\ \A g \in Files :
                /\ Len(copies'[g]) = Len(copies[g])
                /\ \A j \in 1..Len(copies[g]) :
                    copies'[g][j] = IF g = f /\ j = i THEN row ELSE copies[g][j]
<1>1. copies[f] \in Seq(Copies)
  BY DEF Rows
<1>2. /\ [copies[f] EXCEPT ![i] = row] \in Seq(Copies)
      /\ Len([copies[f] EXCEPT ![i] = row]) = Len(copies[f])
      /\ \A j \in 1..Len(copies[f]) :
            [copies[f] EXCEPT ![i] = row][j] = IF j = i THEN row ELSE copies[f][j]
  BY <1>1, ExceptSeq
<1>3. \A g \in Files : copies'[g] = IF g = f THEN [copies[f] EXCEPT ![i] = row] ELSE copies[g]
  BY DEF Rows
<1>4. Rows'
  BY <1>2 DEF Rows
<1>. QED
  BY <1>2, <1>3, <1>4

\* What registering and inspecting do to a copy.
LEMMA RowChange ==
    ASSUME TypeOK, Listed, NEW f \in Files, NEW i \in Numbers, Register(f, i) \/ Probed(f, i)
    PROVE  /\ Rows' /\ i \in 1..Len(copies[f])
           /\ \A g \in Files :
                /\ Len(copies'[g]) = Len(copies[g])
                /\ \A j \in 1..Len(copies[g]) :
                    /\ copies'[g][j].whole = copies[g][j].whole
                    /\ copies'[g][j].films \in {copies[g][j].films, 1}
<1>1. Rows /\ copies[f] \in Seq(Copies) /\ Numbers \subseteq Nat
  BY FaultAssumption DEF TypeOK, Rows, Numbers
<1>2. i \in 1..Len(copies[f])
  BY <1>1 DEF Register, Probed, Listed
<1>3. copies[f][i] \in Copies
  BY <1>1, <1>2, ElementOfSeq
<1>4. CASE Register(f, i)
  <2>. DEFINE row == ImportSftpFile(copies[f][i])
  <2>1. copies' = [copies EXCEPT ![f] = [copies[f] EXCEPT ![i] = row]]
    BY <1>4 DEF Register
  <2>2. /\ row \in Copies /\ row.whole = copies[f][i].whole
        /\ row.films \in {copies[f][i].films, 1}
    BY <1>3 DEF Copies, ImportSftpFile
  <2>. HIDE DEF row
  <2>3. /\ Rows'
        /\ \A g \in Files :
            /\ Len(copies'[g]) = Len(copies[g])
            /\ \A j \in 1..Len(copies[g]) :
                copies'[g][j] = IF g = f /\ j = i THEN row ELSE copies[g][j]
    BY <1>1, <1>2, <2>1, <2>2, Change
  <2>. QED
    BY <1>2, <2>2, <2>3
<1>5. CASE Probed(f, i)
  <2>. DEFINE row == [copies[f][i] EXCEPT !.there = FALSE]
  <2>1. copies' = [copies EXCEPT ![f] = [copies[f] EXCEPT ![i] = row]]
    BY <1>5 DEF Probed
  <2>2. /\ row \in Copies /\ row.whole = copies[f][i].whole
        /\ row.films = copies[f][i].films
    BY <1>3 DEF Copies
  <2>. HIDE DEF row
  <2>3. /\ Rows'
        /\ \A g \in Files :
            /\ Len(copies'[g]) = Len(copies[g])
            /\ \A j \in 1..Len(copies[g]) :
                copies'[g][j] = IF g = f /\ j = i THEN row ELSE copies[g][j]
    BY <1>1, <1>2, <2>1, <2>2, Change
  <2>. QED
    BY <1>2, <2>2, <2>3
<1>. QED
  BY <1>4, <1>5

\* What a file becomes in inbox/sftp: a copy of it, perhaps one that is cut off.
LEMMA Growth ==
    ASSUME TypeOK, Counts, NEW f \in Files, NEW b \in BOOLEAN,
           copies' = WithCopy(f, b), Unmoved(f)
    PROVE  /\ Rows'
           /\ \A g \in Files : Len(copies'[g]) \in 0..faults + 1
           /\ \A g \in Files \ {f} : Len(copies'[g]) = Len(copies[g])
<1>1. Rows /\ faults \in Nat /\ \A g \in Files : Len(copies[g]) \in Nat
  BY FaultAssumption DEF TypeOK, Rows
<1>2. /\ Rows'
      /\ \A g \in Files : Len(copies'[g]) = IF g = f THEN Len(copies[g]) + 1 ELSE Len(copies[g])
  BY <1>1, Grow
<1>. QED
  BY <1>1, <1>2 DEF Counts

FileTypes ==
    /\ place \in [Files -> {"absent", "part", "incoming", "moved", "withdrawn"}]
    /\ whole \in [Files -> BOOLEAN]
    /\ age \in [Files -> 0..Rest]
    /\ seen \in [Files -> 0..Unseen]

WorkTypes ==
    /\ due \in 0..Interval
    /\ phase \in Phases
    /\ todo \subseteq IF phase = "registering" THEN Files \X Numbers ELSE Files
    /\ phase \in {"down", "idle"} => todo = {}
    /\ at \in IF phase \in {"copying", "unlinking"} THEN Files ELSE {None}
    /\ torn \subseteq Files
    /\ faults \in 0..MaxFaults

LEMMA FaultType ==
    ASSUME faults \in 0..MaxFaults, Fault
    PROVE  faults' \in 0..MaxFaults /\ faults' = faults + 1
  BY FaultAssumption DEF Fault

LEMMA FileTypesKept ==
    ASSUME TypeOK, [Next]_vars
    PROVE  FileTypes'
<1>. FileTypes
  BY DEF TypeOK, FileTypes
<1>. USE DEF FileTypes, Unseen, Interval, Rest
<1>1. ASSUME NEW f \in Files, ClientStep(f)
      PROVE  FileTypes'
  <2>1. CASE Create(f)
    BY <2>1 DEF Create, Touch
  <2>2. CASE Write(f)
    <3>1. whole' \in [Files -> BOOLEAN]
      BY <2>2 DEF Write
    <3>2. place' = place /\ age' = [age EXCEPT ![f] = 0] /\ seen' = [seen EXCEPT ![f] = Unseen]
      BY <2>2 DEF Write, Touch
    <3>. QED
      BY <3>1, <3>2
  <2>3. CASE Rename(f) \/ Withdraw(f)
    BY <2>3 DEF Rename, Withdraw, workerVars
  <2>. QED
    BY <1>1, <2>1, <2>2, <2>3 DEF ClientStep
<1>2. ASSUME NEW f \in Files, ScanStep(f)
      PROVE  FileTypes'
  <2>1. place' \in {place, [place EXCEPT ![f] = "moved"]} /\ UNCHANGED <<whole, age>>
    BY <1>2 DEF ScanStep, Observe, MoveByRename, CopyBegins, EntryIsGone, clientVars
  <2>2. seen' \in {seen, [seen EXCEPT ![f] = 0], [seen EXCEPT ![f] = Unseen]}
    BY <1>2 DEF ScanStep, Observe, MoveByRename, CopyBegins, EntryIsGone
  <2>. QED
    BY <2>1, <2>2
<1>3. CASE MoveStep
  BY <1>3 DEF MoveStep, CopyEnds, Unlink, clientVars
<1>4. CASE TimePasses
  BY <1>4 DEF TimePasses, Older, clientVars
<1>5. ASSUME NEW f \in Files, NEW i \in Numbers, RegisterStep(f, i) \/ Probed(f, i)
      PROVE  FileTypes'
  BY <1>5 DEF RegisterStep, Register, RegisterFails, Probed, clientVars, workerVars
<1>6. CASE ScanBegin \/ ScanEnd \/ RegisterEnd \/ Restart
  BY <1>6 DEF ScanBegin, ScanEnd, Forgotten, RegisterEnd, Restart, clientVars
<1>7. CASE CopyFails \/ Crash \/ UNCHANGED vars
  BY <1>7 DEF CopyFails, Crash, clientVars, workerVars, vars
<1>. QED
  BY <1>1, <1>2, <1>3, <1>4, <1>5, <1>6, <1>7 DEF Next, WorkerStep

LEMMA PendingType ==
    ASSUME TypeOK
    PROVE  /\ PendingImports \subseteq Files \X Numbers
           /\ \A f \in Files, i \in Nat : <<f, i>> \in PendingImports => i \in 1..Len(copies[f])
<1>1. \A f \in Files : DOMAIN copies[f] = 1..Len(copies[f])
  BY LenProperties DEF TypeOK
<1>2. \A f \in Files : Len(copies[f]) \in 0..MaxFaults + 1
  BY Zenon DEF TypeOK
<1>3. \A n \in 0..MaxFaults + 1 : 1..n \subseteq Numbers
  BY FaultAssumption DEF Numbers
<1>4. \A f \in Files : \A i \in DOMAIN copies[f] : i \in 1..Len(copies[f]) /\ i \in Numbers
  BY <1>1, <1>2, <1>3
<1>5. \A f, i : <<f, i>> \in PendingImports => f \in Files /\ i \in DOMAIN copies[f]
  BY DEF PendingImports
<1>6. PendingImports \subseteq {<<f, i>> : f \in Files, i \in Numbers}
  BY <1>4 DEF PendingImports
<1>. QED
  BY <1>4, <1>5, <1>6

LEMMA WorkTypesKept ==
    ASSUME TypeOK, [Next]_vars
    PROVE  WorkTypes'
<1>. WorkTypes
  BY DEF TypeOK, WorkTypes
<1>. USE DEF WorkTypes, Phases
<1>1. ASSUME NEW f \in Files, ClientStep(f)
      PROVE  WorkTypes'
  BY <1>1 DEF ClientStep, Create, Write, Rename, Withdraw, workerVars
<1>2. ASSUME NEW f \in Files, ScanStep(f)
      PROVE  WorkTypes'
  BY <1>2 DEF ScanStep, Observe, MoveByRename, CopyBegins, EntryIsGone
<1>3. CASE MoveStep
  BY <1>3 DEF MoveStep, CopyEnds, Unlink
<1>4. CASE TimePasses
  BY <1>4 DEF TimePasses, Interval
<1>5. ASSUME NEW f \in Files, NEW i \in Numbers, RegisterStep(f, i) \/ Probed(f, i)
      PROVE  WorkTypes'
  BY <1>5 DEF RegisterStep, Register, RegisterFails, Probed, workerVars
<1>6. CASE ScanBegin \/ RegisterEnd \/ Restart
  BY <1>6 DEF ScanBegin, RegisterEnd, Restart, Interval
<1>7. CASE ScanEnd
  BY <1>7, PendingType DEF ScanEnd
<1>8. CASE CopyFails \/ Crash
  <2>1. faults' \in 0..MaxFaults
    BY <1>8, FaultType DEF CopyFails, Crash
  <2>2. due' = due /\ phase' = "down" /\ todo' = {} /\ at' = None
    BY <1>8 DEF CopyFails, Crash
  <2>3. torn' \subseteq Files
    <3>1. phase \in {"copying", "unlinking"} => at \in Files
      OBVIOUS
    <3>. QED
      BY <1>8, <3>1 DEF CopyFails, Crash
  <2>. QED
    BY <2>1, <2>2, <2>3
<1>9. CASE UNCHANGED vars
  BY <1>9 DEF workerVars, vars
<1>. QED
  BY <1>1, <1>2, <1>3, <1>4, <1>5, <1>6, <1>7, <1>8, <1>9 DEF Next, WorkerStep

-----------------------------------------------------------------------------
(* How many copies there are *)

\* Steps that leave inbox/sftp alone and do not undo a move.
Calm ==
    /\ UNCHANGED <<copies, torn, faults>>
    /\ \A f \in Files : Unmoved(f)' => Unmoved(f)

LEMMA CalmCounts ==
    ASSUME Rows, Counts, Single, Calm
    PROVE  Rows' /\ Counts' /\ Single'
<1>1. Rows'
  BY DEF Rows, Calm
<1>2. Counts'
  BY DEF Counts, Calm
<1>3. Single'
  BY DEF Single, Calm
<1>. QED
  BY <1>1, <1>2, <1>3

LEMMA ClientIsCalm ==
    ASSUME TypeOK, NEW f \in Files, ClientStep(f)
    PROVE  Calm
<1>1. UNCHANGED <<copies, torn, faults, phase, at>>
  BY DEF ClientStep, Create, Write, Rename, Withdraw, workerVars
<1>2. \A g \in Files : place'[g] # place[g] => place[g] \in {"absent", "part", "incoming"}
  BY DEF ClientStep, Create, Write, Rename, Withdraw, TypeOK
<1>3. \A g \in Files : place[g] \in {"moved", "withdrawn"} => place'[g] = place[g]
  BY <1>2
<1>4. \A g \in Files : Unmoved(g)' => Unmoved(g)
  <2>. SUFFICES ASSUME NEW g \in Files, Unmoved(g)'
                PROVE  Unmoved(g)
    OBVIOUS
  <2>1. place[g] \in {"absent", "part", "incoming", "moved", "withdrawn"}
    BY DEF TypeOK
  <2>. QED
    BY <1>1, <1>3, <2>1 DEF Unmoved
<1>. QED
  BY <1>1, <1>4 DEF Calm

LEMMA UnlinkIsCalm ==
    ASSUME TypeOK, AtPlace, Unlink
    PROVE  Calm
<1>1. at \in Files /\ place[at] \in {"incoming", "withdrawn"}
  BY DEF Unlink, TypeOK, AtPlace, Moving
<1>2. UNCHANGED <<copies, torn, faults>> /\ phase' \in {"scanning", "down"}
  BY DEF Unlink
<1>3. \A g \in Files : IF g = at THEN place'[g] \in {"moved", "withdrawn"} ELSE place'[g] = place[g]
  BY <1>1 DEF Unlink, TypeOK
<1>. QED
  BY <1>1, <1>2, <1>3 DEF Calm, Unmoved, Unlink

LEMMA WorkerIsCalm ==
    ASSUME TypeOK,
           \/ ScanBegin \/ ScanEnd \/ RegisterEnd \/ Restart \/ TimePasses \/ UNCHANGED vars
           \/ \E f \in Files : \/ Observe(f) \/ EntryIsGone(f)
                               \/ \E i \in Numbers : RegisterFails(f, i)
    PROVE  Calm
<1>1. UNCHANGED <<copies, torn, faults, place>>
  BY DEF ScanBegin, ScanEnd, RegisterEnd, Restart, TimePasses, Observe, EntryIsGone,
         RegisterFails, vars, clientVars
<1>2. \/ phase' = phase /\ at' = at
      \/ phase # "unlinking" /\ phase' \notin {"copying", "unlinking"}
  BY DEF ScanBegin, ScanEnd, RegisterEnd, Restart, TimePasses, Observe, EntryIsGone,
         RegisterFails, vars, workerVars
<1>. QED
  BY <1>1, <1>2 DEF Calm, Unmoved

LEMMA CopyBeginsIsCalm ==
    ASSUME TypeOK, NEW f \in Files, CopyBegins(f)
    PROVE  Calm
<1>1. UNCHANGED <<copies, torn, faults, place>> /\ phase = "scanning" /\ phase' = "copying"
  BY DEF CopyBegins, clientVars
<1>2. at' = f /\ place[f] = "incoming"
  BY DEF CopyBegins
<1>. QED
  BY <1>1, <1>2 DEF Calm, Unmoved

\* A move that ends without a fault.
LEMMA MoveCounts ==
    ASSUME TypeOK, AtPlace, Counts, Single,
           NEW f \in Files, MoveByRename(f) \/ (CopyEnds /\ f = at)
    PROVE  Rows' /\ Counts' /\ Single'
<1>1. /\ copies' = WithCopy(f, whole[f]) /\ whole[f] \in BOOLEAN
      /\ UNCHANGED <<torn, faults>>
  BY DEF MoveByRename, CopyEnds, TypeOK
<1>2. Unmoved(f)
  BY DEF MoveByRename, CopyEnds, Unmoved
<1>3. Rows /\ faults \in Nat /\ \A g \in Files : Len(copies[g]) \in Nat
  <2>1. Rows
    BY DEF TypeOK, Rows
  <2>2. faults \in Nat
    BY FaultAssumption DEF TypeOK
  <2>. QED
    BY <2>1, <2>2, LenProperties DEF Rows
<1>4. /\ Rows'
      /\ \A g \in Files :
            /\ Len(copies'[g]) = IF g = f THEN Len(copies[g]) + 1 ELSE Len(copies[g])
            /\ \A i \in 1..Len(copies[g]) : copies'[g][i] = copies[g][i]
      /\ copies'[f][Len(copies[f]) + 1].films = 0
  <2>1. Copy(whole[f]).films = 0
    BY DEF Copy
  <2>. QED
    BY <1>1, <1>3, <2>1, Grow
<1>5. ~ Unmoved(f)' /\ \A g \in Files \ {f} : Unmoved(g)' => Unmoved(g)
  <2>1. CASE MoveByRename(f)
    <3>1. place'[f] = "moved" /\ phase = "scanning" /\ UNCHANGED <<phase, at>>
      BY <2>1 DEF MoveByRename, TypeOK
    <3>2. \A g \in Files \ {f} : place'[g] = place[g]
      BY <2>1 DEF MoveByRename, TypeOK
    <3>. QED
      BY <3>1, <3>2 DEF Unmoved
  <2>2. CASE CopyEnds /\ f = at
    <3>1. UNCHANGED <<place, at>> /\ phase = "copying" /\ phase' = "unlinking"
      BY <2>2 DEF CopyEnds, clientVars
    <3>. QED
      BY <2>2, <3>1 DEF Unmoved
  <2>. QED
    BY <2>1, <2>2
<1>6. Counts'
  BY <1>1, <1>2, <1>3, <1>4, <1>5 DEF Counts
<1>7. Single'
  <2>. SUFFICES ASSUME NEW g \in Files \ torn
                PROVE  /\ Len(copies'[g]) <= 1
                       /\ Unmoved(g)' => Len(copies'[g]) = 0
                       /\ \A i \in 1..Len(copies'[g]) : copies'[g][i].films <= 1
    BY <1>1 DEF Single
  <2>1. CASE g = f
    <3>1. Len(copies[f]) = 0
      BY <1>2, <2>1 DEF Single
    <3>2. Len(copies'[f]) = 0 + 1
      BY <1>4, <3>1, Zenon
    <3>. QED
      BY <1>4, <1>5, <2>1, <3>1, <3>2
  <2>2. CASE g # f
    BY <1>4, <1>5, <2>2 DEF Single
  <2>. QED
    BY <2>1, <2>2
<1>. QED
  BY <1>4, <1>6, <1>7

LEMMA FaultCounts ==
    ASSUME TypeOK, AtPlace, Counts, Single, CopyFails \/ Crash
    PROVE  Rows' /\ Counts' /\ Single'
<1>1. faults' = faults + 1 /\ phase' = "down" /\ UNCHANGED place /\ torn \subseteq torn'
  BY FaultType DEF CopyFails, Crash, Fault, clientVars
<1>2. Rows /\ faults \in Nat /\ \A g \in Files : Len(copies[g]) \in Nat
  <2>1. Rows
    BY DEF TypeOK, Rows
  <2>2. faults \in Nat
    BY FaultAssumption DEF TypeOK
  <2>. QED
    BY <2>1, <2>2, LenProperties DEF Rows
<1>3. \A g \in Files : Unmoved(g)' => place[g] \in {"absent", "part", "incoming"}
  BY <1>1 DEF Unmoved
<1>4. CASE UNCHANGED copies
  <2>1. Rows' /\ Counts'
    BY <1>1, <1>2, <1>4 DEF Rows, Counts
  <2>2. \A g \in Files \ torn' : Unmoved(g)' => Unmoved(g)
    <3>1. phase # "unlinking" \/ torn' = torn \cup {at}
      <4>1. CASE CopyFails
        BY <4>1 DEF CopyFails
      <4>2. CASE Crash
        BY <4>2, Zenon DEF Crash
      <4>. QED
        BY <4>1, <4>2
    <3>. QED
      BY <1>3, <3>1 DEF Unmoved
  <2>3. Single'
    BY <1>1, <1>4, <2>2 DEF Single
  <2>. QED
    BY <2>1, <2>3
<1>5. CASE \E b \in BOOLEAN : copies' = WithCopy(at, b) /\ phase = "copying" /\ Crash
  <2>1. PICK b \in BOOLEAN : copies' = WithCopy(at, b) /\ phase = "copying" /\ Crash
    BY <1>5
  <2>2. at \in Files /\ at \in torn' /\ Unmoved(at)
    BY <2>1 DEF Crash, TypeOK, Unmoved
  <2>3. /\ Rows'
        /\ \A g \in Files :
            /\ Len(copies'[g]) = IF g = at THEN Len(copies[g]) + 1 ELSE Len(copies[g])
            /\ \A i \in 1..Len(copies[g]) : copies'[g][i] = copies[g][i]
    BY <1>2, <2>1, <2>2, Grow
  <2>4. Counts'
    BY <1>1, <1>2, <2>2, <2>3 DEF Counts
  <2>5. \A g \in Files \ torn' : Unmoved(g)' => Unmoved(g)
    BY <1>3, <2>1 DEF Unmoved
  <2>6. Single'
    BY <1>1, <2>2, <2>3, <2>5 DEF Single
  <2>. QED
    BY <2>3, <2>4, <2>6
<1>6. UNCHANGED copies \/ \E b \in BOOLEAN : copies' = WithCopy(at, b) /\ phase = "copying" /\ Crash
  <2>1. phase = "copying" => whole[at] \in BOOLEAN
    BY DEF TypeOK
  <2>. QED
    BY <2>1 DEF CopyFails, Crash
<1>. QED
  BY <1>4, <1>5, <1>6

LEMMA RowCounts ==
    ASSUME TypeOK, Listed, Counts, Single,
           NEW f \in Files, NEW i \in Numbers, Register(f, i) \/ Probed(f, i)
    PROVE  Rows' /\ Counts' /\ Single'
<1>1. UNCHANGED <<place, phase, at, torn, faults>>
  BY DEF Register, Probed, clientVars, workerVars
<1>2. \A g : Unmoved(g)' <=> Unmoved(g)
  BY <1>1 DEF Unmoved
<1>3. Counts'
  BY <1>1, <1>2, RowChange DEF Counts
<1>4. Single'
  BY <1>1, <1>2, RowChange DEF Single
<1>. QED
  BY <1>3, <1>4, RowChange

\* Every step that is not calm.
LEMMA CountsKept ==
    ASSUME TypeOK, Listed, AtPlace, Counts, Single, [Next]_vars
    PROVE  Rows' /\ Counts' /\ Single'
<1>1. Rows
  BY DEF TypeOK, Rows
<1>2. CASE Calm
  BY <1>1, <1>2, CalmCounts
<1>3. ASSUME NEW f \in Files, ClientStep(f)
      PROVE  Calm
  BY <1>3, ClientIsCalm
<1>4. ASSUME NEW f \in Files, ScanStep(f)
      PROVE  Calm \/ MoveByRename(f)
  BY <1>4, WorkerIsCalm, CopyBeginsIsCalm DEF ScanStep
<1>5. ASSUME NEW f \in Files, NEW i \in Numbers, RegisterStep(f, i) \/ Probed(f, i)
      PROVE  Calm \/ Register(f, i) \/ Probed(f, i)
  BY <1>5, WorkerIsCalm DEF RegisterStep
<1>6. CASE ScanBegin \/ ScanEnd \/ RegisterEnd \/ Restart \/ TimePasses \/ UNCHANGED vars
  BY <1>1, <1>6, CalmCounts, WorkerIsCalm
<1>7. CASE CopyEnds
  <2>1. at \in Files
    BY <1>7 DEF CopyEnds, TypeOK
  <2>. QED
    BY <1>7, <2>1, MoveCounts
<1>8. CASE Unlink
  BY <1>1, <1>8, CalmCounts, UnlinkIsCalm
<1>9. CASE CopyFails \/ Crash
  BY <1>9, FaultCounts
<1>10. ASSUME NEW f \in Files, ClientStep(f) \/ ScanStep(f)
       PROVE  Rows' /\ Counts' /\ Single'
  BY <1>1, <1>3, <1>4, <1>10, CalmCounts, MoveCounts
<1>11. ASSUME NEW f \in Files, NEW i \in Numbers, RegisterStep(f, i) \/ Probed(f, i)
       PROVE  Rows' /\ Counts' /\ Single'
  BY <1>1, <1>5, <1>11, CalmCounts, RowCounts
<1>. QED
  BY <1>6, <1>7, <1>8, <1>9, <1>10, <1>11 DEF Next, WorkerStep, MoveStep

LEMMA ListedKept ==
    ASSUME TypeOK, Listed, AtPlace, Counts, [Next]_vars
    PROVE  Listed' /\ AtPlace'
<1>1. CASE phase' = "registering"
  <2>1. AtPlace'
    BY <1>1 DEF AtPlace, Moving
  <2>2. CASE ScanEnd
    <3>1. todo' = PendingImports /\ copies' = copies
      BY <2>2 DEF ScanEnd
    <3>. QED
      BY <2>1, <3>1, PendingType DEF Listed
  <2>3. ASSUME NEW f \in Files, NEW i \in Numbers, RegisterStep(f, i) \/ Probed(f, i)
        PROVE  Listed'
    <3>1. todo' \subseteq todo /\ phase = "registering"
      BY <1>1, <2>3 DEF RegisterStep, Register, RegisterFails, Probed, workerVars
    <3>2. \A g \in Files : Len(copies'[g]) = Len(copies[g])
      BY <2>3, RowChange DEF RegisterStep, RegisterFails
    <3>. QED
      BY <3>1, <3>2 DEF Listed
  <2>4. CASE TimePasses \/ UNCHANGED vars \/ \E f \in Files : ClientStep(f)
    <3>1. UNCHANGED <<phase, todo, copies>>
      BY <2>4 DEF TimePasses, vars, workerVars, ClientStep, Create, Write, Rename, Withdraw
    <3>. QED
      BY <1>1, <2>1, <3>1, Zenon DEF Listed
  <2>5. ~ (ScanBegin \/ MoveStep \/ RegisterEnd \/ Restart \/ CopyFails \/ Crash)
    BY <1>1 DEF ScanBegin, MoveStep, CopyEnds, Unlink, RegisterEnd, Restart, CopyFails, Crash
  <2>6. \A f \in Files : ~ ScanStep(f)
    BY <1>1 DEF ScanStep, Observe, MoveByRename, CopyBegins, EntryIsGone
  <2>. QED
    BY <2>1, <2>2, <2>3, <2>4, <2>5, <2>6 DEF Next, WorkerStep
<1>2. CASE Moving'
  <2>1. Listed'
    BY <1>2 DEF Listed, Moving
  <2>2. CASE \E f \in Files : CopyBegins(f)
    <3>1. UNCHANGED place /\ place[at'] = "incoming"
      BY <2>2 DEF CopyBegins, clientVars
    <3>. QED
      BY <2>1, <3>1 DEF AtPlace
  <2>3. CASE CopyEnds \/ TimePasses \/ UNCHANGED vars
    <3>1. UNCHANGED <<place, at>> /\ Moving
      BY <1>2, <2>3 DEF CopyEnds, TimePasses, vars, clientVars, workerVars, Moving
    <3>. QED
      BY <2>1, <3>1 DEF AtPlace
  <2>4. ASSUME NEW f \in Files, ClientStep(f)
        PROVE  AtPlace'
    <3>1. UNCHANGED <<phase, at>> /\ at \in Files /\ place[at] \in {"incoming", "withdrawn"}
      BY <1>2, <2>4 DEF ClientStep, Create, Write, Rename, Withdraw, workerVars, AtPlace, Moving, TypeOK
    <3>2. place'[at] \in {"incoming", "withdrawn"}
      BY <2>4, <3>1 DEF ClientStep, Create, Write, Rename, Withdraw, TypeOK
    <3>. QED
      BY <3>1, <3>2 DEF AtPlace
  <2>5. ~ (ScanBegin \/ ScanEnd \/ Unlink \/ RegisterEnd \/ Restart \/ CopyFails \/ Crash)
    BY <1>2 DEF ScanBegin, ScanEnd, Unlink, RegisterEnd, Restart, CopyFails, Crash, Moving
  <2>6. \A f \in Files : ~ (Observe(f) \/ MoveByRename(f) \/ EntryIsGone(f))
    BY <1>2 DEF Observe, MoveByRename, EntryIsGone, Moving
  <2>7. \A f \in Files, i \in Numbers : ~ (RegisterStep(f, i) \/ Probed(f, i))
    BY <1>2 DEF RegisterStep, Register, RegisterFails, Probed, Moving, workerVars
  <2>. QED
    BY <2>1, <2>2, <2>3, <2>4, <2>5, <2>6, <2>7 DEF Next, WorkerStep, MoveStep, ScanStep
<1>3. CASE phase' # "registering" /\ ~ Moving'
  BY <1>3 DEF Listed, AtPlace
<1>. QED
  BY <1>1, <1>2, <1>3

CountInv == TypeOK /\ Listed /\ AtPlace /\ Counts /\ Single

LEMMA CountInvKept ==
    ASSUME CountInv, [Next]_vars
    PROVE  CountInv'
<1>. TypeOK /\ Listed /\ AtPlace /\ Counts /\ Single
  BY DEF CountInv
<1>1. FileTypes' /\ WorkTypes' /\ Rows' /\ Counts' /\ Single'
  BY FileTypesKept, WorkTypesKept, CountsKept
<1>2. \A f \in Files : Len(copies'[f]) \in 0..MaxFaults + 1
  <2>1. \A f \in Files : Len(copies'[f]) \in Nat /\ Len(copies'[f]) <= faults' + 1
    BY <1>1, LenProperties DEF Rows, Counts
  <2>2. faults' \in 0..MaxFaults
    BY <1>1 DEF WorkTypes
  <2>. QED
    BY <2>1, <2>2, FaultAssumption
<1>3. TypeOK'
  BY <1>1, <1>2, Zenon DEF TypeOK, FileTypes, WorkTypes, Rows
<1>. QED
  BY <1>1, <1>3, ListedKept DEF CountInv

LEMMA CountInvInit == Init => CountInv
<1>. SUFFICES ASSUME Init
              PROVE  CountInv
  OBVIOUS
<1>1. Rows /\ \A f \in Files : Len(copies[f]) = 0
  BY DEF Init, Rows
<1>2. FileTypes
  BY DEF Init, FileTypes, Unseen, Interval, Rest
<1>3. WorkTypes
  BY FaultAssumption DEF Init, WorkTypes, Phases, Interval
<1>4. TypeOK
  <2>1. 0 \in 0..MaxFaults + 1
    BY FaultAssumption
  <2>. QED
    BY <1>1, <1>2, <1>3, <2>1, Zenon DEF TypeOK, FileTypes, WorkTypes, Rows
<1>5. Listed /\ AtPlace
  BY DEF Init, Listed, AtPlace, Moving
<1>6. Counts /\ Single
  <2>1. faults = 0
    BY DEF Init
  <2>. QED
    BY <1>1, <2>1 DEF Counts, Single
<1>. QED
  BY <1>4, <1>5, <1>6 DEF CountInv

LEMMA Inductive == Spec => []CountInv
<1>1. Init => CountInv
  BY CountInvInit
<1>2. CountInv /\ [Next]_vars => CountInv'
  BY CountInvKept
<1>. QED
  BY <1>1, <1>2, PTL DEF Spec

\* The types, and with them the number of copies that faults can make of a file.
THEOREM TypeCorrect == Spec => []TypeOK
<1>1. CountInv => TypeOK
  BY DEF CountInv
<1>. QED
  BY <1>1, Inductive, PTL

\* A file whose move was not cut off has one copy in inbox/sftp and is one film,
\* however often the worker is restarted and registers what it finds.
THEOREM FilmsAreSingle == Spec => []OneFilmPerFile
<1>1. CountInv => OneFilmPerFile
  <2>. SUFFICES ASSUME CountInv, NEW f \in Files \ torn,
                       NEW i \in DOMAIN copies[f], NEW j \in DOMAIN copies[f],
                       copies[f][i].films > 0, copies[f][j].films > 0
                PROVE  i = j /\ copies[f][i].films = 1
    BY DEF OneFilmPerFile
  <2>1. copies[f] \in Seq(Copies)
    BY DEF CountInv, TypeOK
  <2>2. DOMAIN copies[f] = 1..Len(copies[f]) /\ Len(copies[f]) \in Nat
    BY <2>1, LenProperties
  <2>3. copies[f][i] \in Copies
    BY <2>1, <2>2, ElementOfSeq
  <2>4. copies[f][i].films \in Nat
    BY <2>3 DEF Copies
  <2>5. Len(copies[f]) <= 1 /\ copies[f][i].films <= 1
    BY <2>2 DEF CountInv, Single
  <2>. QED
    BY <2>2, <2>4, <2>5
<1>. QED
  BY <1>1, Inductive, PTL

-----------------------------------------------------------------------------
(* What a copy holds *)

LEMMA RestedKept ==
    ASSUME CountInv, Rested, [Next]_vars
    PROVE  Rested'
<1>1. FileTypes /\ WorkTypes
  BY Zenon DEF CountInv, TypeOK, FileTypes, WorkTypes
<1>2. MaxPause \in Nat /\ MaxPause < Rest
  BY PauseAssumption DEF Rest
<1>3. ASSUME UNCHANGED <<place, whole, age>>,
             \/ UNCHANGED <<phase, at>> \/ phase' \notin {"copying", "unlinking"}
             \/ phase = "copying" /\ at' = at
      PROVE  Rested'
  BY <1>3 DEF Rested, Moving
<1>4. ASSUME NEW f \in Files, ClientStep(f)
      PROVE  Rested'
  <2>1. UNCHANGED <<phase, at>>
    BY <1>4 DEF ClientStep, Create, Write, Rename, Withdraw, workerVars
  <2>2. \A g \in Files : whole[g] => whole'[g]
    BY <1>1, <1>4 DEF ClientStep, Create, Write, Rename, Withdraw, FileTypes
  <2>3. Moving' => whole'[at']
    BY <1>1, <2>1, <2>2 DEF Rested, Moving, WorkTypes
  <2>4. \A g \in Files \ {f} : place'[g] = place[g] /\ whole'[g] = whole[g] /\ age'[g] = age[g]
    BY <1>1, <1>4 DEF ClientStep, Create, Write, Rename, Withdraw, Touch, FileTypes
  <2>5. place'[f] = "incoming" /\ ~ whole'[f] => f \in Direct /\ age'[f] <= MaxPause
    <3>1. CASE Create(f)
      <4>1. place'[f] = (IF f \in Direct THEN "incoming" ELSE "part") /\ age'[f] = 0
        BY <1>1, <3>1 DEF Create, Touch, FileTypes
      <4>. QED
        BY <1>2, <4>1
    <3>2. CASE Write(f)
      <4>1. place' = place /\ ~ whole[f] /\ age' = [age EXCEPT ![f] = 0]
        BY <3>2 DEF Write, Touch
      <4>2. age'[f] = 0
        BY <1>1, <4>1 DEF FileTypes
      <4>. QED
        BY <1>2, <4>1, <4>2 DEF Rested
    <3>3. CASE Rename(f) \/ Withdraw(f)
      BY <1>1, <3>3 DEF Rename, Withdraw, FileTypes
    <3>. QED
      BY <1>4, <3>1, <3>2, <3>3 DEF ClientStep
  <2>6. \A g \in Files : place'[g] = "incoming" /\ ~ whole'[g] => g \in Direct /\ age'[g] <= MaxPause
    BY <2>4, <2>5 DEF Rested
  <2>. QED
    BY <2>3, <2>6 DEF Rested
<1>5. ASSUME NEW f \in Files, ScanStep(f)
      PROVE  Rested'
  <2>1. CASE CopyBegins(f)
    <3>1. /\ UNCHANGED <<place, whole, age>> /\ at' = f
          /\ place[f] = "incoming" /\ age[f] = Rest
      BY <2>1 DEF CopyBegins, Stable, clientVars
    <3>2. whole[f]
      BY <1>2, <3>1 DEF Rested, Rest
    <3>. QED
      BY <3>1, <3>2 DEF Rested
  <2>2. CASE MoveByRename(f)
    <3>1. UNCHANGED <<whole, age, phase, at>> /\ place' = [place EXCEPT ![f] = "moved"]
      BY <2>2 DEF MoveByRename
    <3>. QED
      BY <1>1, <3>1 DEF Rested, Moving, FileTypes
  <2>3. CASE Observe(f) \/ EntryIsGone(f)
    BY <1>3, <2>3 DEF Observe, EntryIsGone, clientVars
  <2>. QED
    BY <1>5, <2>1, <2>2, <2>3 DEF ScanStep
<1>6. CASE MoveStep
  <2>1. CASE CopyEnds
    BY <1>3, <2>1 DEF CopyEnds, clientVars
  <2>2. CASE Unlink
    <3>1. /\ UNCHANGED <<whole, age>> /\ phase' \in {"scanning", "down"}
          /\ \A g \in Files : place'[g] = "incoming" => place[g] = "incoming"
      BY <1>1, <2>2 DEF Unlink, FileTypes
    <3>. QED
      BY <3>1 DEF Rested, Moving
  <2>. QED
    BY <1>6, <2>1, <2>2 DEF MoveStep
<1>7. CASE TimePasses
  <2>1. UNCHANGED <<place, whole, phase, at>>
    BY <1>7 DEF TimePasses, clientVars
  <2>2. ASSUME NEW g \in Files, place[g] = "incoming", ~ whole[g]
        PROVE  g \in Direct /\ age'[g] <= MaxPause
    <3>1. g \in Direct /\ age[g] < MaxPause
      BY <1>7, <2>2 DEF TimePasses, Rested
    <3>2. age[g] \in Nat /\ age'[g] \in {age[g], age[g] + 1}
      BY <1>1, <1>7 DEF TimePasses, Older, FileTypes, Rest
    <3>. QED
      BY <1>2, <3>1, <3>2
  <2>. QED
    BY <2>1, <2>2 DEF Rested, Moving
<1>8. ASSUME NEW f \in Files, NEW i \in Numbers, RegisterStep(f, i) \/ Probed(f, i)
      PROVE  Rested'
  BY <1>3, <1>8 DEF RegisterStep, Register, RegisterFails, Probed, clientVars, workerVars
<1>9. CASE ScanBegin \/ ScanEnd \/ RegisterEnd \/ Restart
  BY <1>3, <1>9 DEF ScanBegin, ScanEnd, RegisterEnd, Restart, clientVars
<1>10. CASE CopyFails \/ Crash \/ UNCHANGED vars
  BY <1>3, <1>10 DEF CopyFails, Crash, vars, clientVars, workerVars
<1>. QED
  BY <1>4, <1>5, <1>6, <1>7, <1>8, <1>9, <1>10 DEF Next, WorkerStep

LEMMA WholeCopiesKept ==
    ASSUME CountInv, Rested, WholeCopies, [Next]_vars
    PROVE  WholeCopies'
<1>1. TypeOK /\ Listed /\ Rows /\ \A f \in Files : Len(copies[f]) \in Nat
  BY LenProperties DEF CountInv, TypeOK, Rows
<1>2. ASSUME UNCHANGED copies, torn \subseteq torn'
      PROVE  WholeCopies'
  BY <1>2 DEF WholeCopies
<1>3. ASSUME NEW f \in Files, NEW b \in BOOLEAN, copies' = WithCopy(f, b),
             torn \subseteq torn', b \/ f \in torn'
      PROVE  WholeCopies'
  <2>1. /\ \A g \in Files :
            /\ Len(copies'[g]) = IF g = f THEN Len(copies[g]) + 1 ELSE Len(copies[g])
            /\ \A i \in 1..Len(copies[g]) : copies'[g][i] = copies[g][i]
        /\ copies'[f][Len(copies[f]) + 1].whole = b
    <3>1. Copy(b).whole = b
      BY DEF Copy
    <3>. QED
      BY <1>1, <1>3, <3>1, Grow
  <2>. SUFFICES ASSUME NEW g \in Files \ torn', NEW i \in 1..Len(copies'[g])
                PROVE  copies'[g][i].whole
    BY DEF WholeCopies
  <2>2. CASE i \in 1..Len(copies[g])
    BY <1>3, <2>1, <2>2 DEF WholeCopies
  <2>3. CASE i \notin 1..Len(copies[g])
    <3>1. g = f /\ i = Len(copies[f]) + 1
      BY <1>1, <2>1, <2>3
    <3>. QED
      BY <1>3, <2>1, <3>1
  <2>. QED
    BY <2>2, <2>3
<1>4. ASSUME NEW f \in Files, ScanStep(f)
      PROVE  WholeCopies'
  <2>1. CASE MoveByRename(f)
    <3>1. copies' = WithCopy(f, whole[f]) /\ torn' = torn /\ whole[f] \in BOOLEAN
      BY <1>1, <2>1 DEF MoveByRename, TypeOK
    <3>2. whole[f]
      BY <2>1, PauseAssumption DEF MoveByRename, Stable, Rested, Rest
    <3>. QED
      BY <1>3, <3>1, <3>2
  <2>2. CASE ~ MoveByRename(f)
    BY <1>2, <1>4, <2>2 DEF ScanStep, Observe, CopyBegins, EntryIsGone
  <2>. QED
    BY <2>1, <2>2
<1>5. CASE CopyEnds
  <2>1. at \in Files /\ copies' = WithCopy(at, whole[at]) /\ torn' = torn
    BY <1>1, <1>5 DEF CopyEnds, TypeOK
  <2>2. whole[at] /\ whole[at] \in BOOLEAN
    BY <1>1, <1>5, <2>1 DEF CopyEnds, TypeOK, Rested, Moving
  <2>. QED
    BY <1>3, <2>1, <2>2
<1>6. CASE Crash
  <2>1. torn \subseteq torn'
    BY <1>6 DEF Crash
  <2>2. CASE UNCHANGED copies
    BY <1>2, <2>1, <2>2
  <2>3. CASE copies' # copies
    <3>1. PICK b \in {FALSE, whole[at]} : copies' = WithCopy(at, b) /\ phase = "copying"
      BY <1>6, <2>3 DEF Crash
    <3>2. at \in Files /\ b \in BOOLEAN
      BY <1>1, <3>1 DEF TypeOK
    <3>3. torn' = torn \cup {at}
      BY <1>6, <3>1, Zenon DEF Crash
    <3>. QED
      BY <1>3, <2>1, <3>1, <3>2, <3>3
  <2>. QED
    BY <2>2, <2>3
<1>7. ASSUME NEW f \in Files, NEW i \in Numbers, RegisterStep(f, i) \/ Probed(f, i)
      PROVE  WholeCopies'
  <2>1. torn' = torn
    BY <1>7 DEF RegisterStep, Register, RegisterFails, Probed
  <2>2. CASE RegisterFails(f, i)
    BY <1>2, <2>1, <2>2 DEF RegisterFails
  <2>3. CASE Register(f, i) \/ Probed(f, i)
    <3>1. \A g \in Files :
            /\ Len(copies'[g]) = Len(copies[g])
            /\ \A j \in 1..Len(copies[g]) : copies'[g][j].whole = copies[g][j].whole
      BY <1>1, <2>3, RowChange
    <3>. QED
      BY <2>1, <3>1 DEF WholeCopies
  <2>. QED
    BY <1>7, <2>2, <2>3 DEF RegisterStep
<1>8. ASSUME NEW f \in Files, ClientStep(f)
      PROVE  WholeCopies'
  BY <1>2, <1>8 DEF ClientStep, Create, Write, Rename, Withdraw
<1>9. CASE ScanBegin \/ Unlink \/ ScanEnd \/ RegisterEnd \/ Restart \/ CopyFails \/ TimePasses \/ UNCHANGED vars
  BY <1>2, <1>9
  DEF ScanBegin, Unlink, ScanEnd, RegisterEnd, Restart, CopyFails, TimePasses, vars
<1>. QED
  BY <1>4, <1>5, <1>6, <1>7, <1>8, <1>9 DEF Next, WorkerStep, MoveStep

\* What is registered of a file whose move was not cut off is all of it, as long
\* as its client's pauses are shorter than the rest that the scanner waits for.
THEOREM FilmsAreWhole == Spec => []NoHalfFilm
<1>1. Init => CountInv /\ Rested /\ WholeCopies
  <2>1. Init => Rested
    BY DEF Init, Rested, Moving
  <2>2. Init => WholeCopies
    BY DEF Init, WholeCopies
  <2>. QED
    BY <2>1, <2>2, CountInvInit
<1>2. CountInv /\ Rested /\ WholeCopies /\ [Next]_vars => (CountInv /\ Rested /\ WholeCopies)'
  BY CountInvKept, RestedKept, WholeCopiesKept
<1>3. CountInv /\ WholeCopies => NoHalfFilm
  <2>1. CountInv => \A f \in Files : DOMAIN copies[f] = 1..Len(copies[f])
    BY LenProperties DEF CountInv, TypeOK
  <2>. QED
    BY <2>1 DEF WholeCopies, NoHalfFilm
<1>. QED
  BY <1>1, <1>2, <1>3, PTL DEF Spec
-----------------------------------------------------------------------------
(* Uploads over tus *)

Message == [type : Types, of : Ids, offset : Nat]

\* What a row says of the file: an upload that was never authorized has neither,
\* an open one reserves its whole size, a received one is complete.
RowOK(u) ==
    /\ state[u] = "none" =>
          declared[u] = 0 /\ file[u] = "none" /\ ~ expired[u] /\ films[u] = 0
    /\ state[u] \in Open => reserved[u] = declared[u] /\ films[u] = 0
    /\ state[u] = "received" => received[u] = declared[u] /\ offset[u] = declared[u]
    /\ films[u] <= 1 /\ (films[u] = 1 => offset[u] = declared[u])
    /\ file[u] = "none" => offset[u] = 0 /\ patch[u] = 0
    /\ patch[u] <= Chunk

RowInv == \A u \in Ids : RowOK(u)

\* No hook reports more than was written, so the last one speaks the truth.
HookInv == IsFiniteSet(hooks) /\ \A h \in hooks : h.offset <= offset[h.of]

UploadInv == UploadTypeOK /\ RowInv /\ HookInv

LEMMA SizesAreNumbers == UploadTypeOK => declared \in [Ids -> Nat]
<1>1. Lengths \subseteq Nat
  BY SpaceAssumption DEF Lengths
<1> QED
  BY <1>1 DEF UploadTypeOK

\* A hook that is sent or lost.
LEMMA SentHooks ==
    ASSUME UploadTypeOK, HookInv, NEW some \in SUBSET Message, IsFiniteSet(some), Sent(some)
    PROVE  /\ hooks' \subseteq Message /\ Cardinality(hooks') <= MaxHooks
           /\ IsFiniteSet(hooks') /\ hooks' \subseteq hooks \cup some
<1>1. IsFiniteSet(hooks \cup some)
  BY FS_Union DEF HookInv
<1> QED
  BY <1>1 DEF UploadTypeOK, HookInv, Sent, Message

LEMMA OneHook ==
    ASSUME NEW type \in Types, NEW u \in Ids, NEW n \in Nat
    PROVE  {Hook(type, u, n)} \subseteq Message /\ IsFiniteSet({Hook(type, u, n)})
<1>1. Hook(type, u, n) \in Message
  BY DEF Hook, Message
<1> QED
  BY <1>1, FS_Singleton

\* tusd sends hooks with the offset that the file has then.
LEMMA TusStepInv ==
    ASSUME UploadInv, NEW u \in Ids, TusStep(u)
    PROVE  UploadInv'
<1> USE SpaceAssumption, HookAssumption, SizesAreNumbers DEF UploadInv, UploadTypeOK, Message
<1>1. CASE CreateUpload(u)
  <2>1. /\ hooks' \subseteq Message /\ Cardinality(hooks') <= MaxHooks /\ IsFiniteSet(hooks')
        /\ hooks' \subseteq hooks \cup {Hook("post-create", u, 0)}
    BY <1>1, SentHooks, OneHook DEF CreateUpload, Types
  <2>2. RowInv' /\ HookInv'
    <3>1. RowInv'
      BY <1>1 DEF CreateUpload, TusRequestIsAuthorized, RowInv, RowOK, rows, Open
    <3>2. HookInv'
      BY <1>1, <2>1 DEF CreateUpload, HookInv, Hook, rows
    <3> QED BY <3>1, <3>2
  <2>3. UploadTypeOK'
    BY <1>1, <2>1 DEF CreateUpload, rows
  <2> QED BY <2>2, <2>3
<1>2. ASSUME NEW n \in 1..Chunk, PatchBegins(u, n) PROVE UploadInv'
  <2>1. UploadTypeOK'
    BY <1>2 DEF PatchBegins, rows
  <2>2. RowInv'
    BY <1>2 DEF PatchBegins, RowInv, RowOK, rows, Open
  <2>3. HookInv'
    BY <1>2 DEF PatchBegins, HookInv
  <2> QED BY <2>1, <2>2, <2>3
<1>3. CASE PatchWrites(u)
  <2> DEFINE n == offset[u] + 1
             last == IF n = declared[u] THEN {Hook("post-finish", u, n)} ELSE {}
  <2>0. n \in Nat /\ patch[u] > 0 /\ n <= declared[u]
    BY <1>3, SizesAreNumbers DEF PatchWrites
  <2>1. last \subseteq Message /\ IsFiniteSet(last)
    BY <2>0, OneHook, FS_EmptySet DEF Types
  <2>2. /\ last \cup {Hook("post-receive", u, n)} \subseteq Message
        /\ IsFiniteSet(last \cup {Hook("post-receive", u, n)})
    <3>1. {Hook("post-receive", u, n)} \subseteq Message
      BY <2>0, OneHook DEF Types
    <3> HIDE DEF last, n
    <3> QED BY <2>1, <3>1, FS_AddElement
  <2>3. /\ hooks' \subseteq Message /\ Cardinality(hooks') <= MaxHooks /\ IsFiniteSet(hooks')
        /\ hooks' \subseteq hooks \cup {Hook("post-finish", u, n), Hook("post-receive", u, n)}
    BY <1>3, <2>1, <2>2, SentHooks DEF PatchWrites
  <2>4. /\ offset' = [offset EXCEPT ![u] = n] /\ patch' = [patch EXCEPT ![u] = @ - 1]
        /\ UNCHANGED <<rows, expired, file>>
    BY <1>3 DEF PatchWrites
  <2> HIDE DEF n, last
  <2>5. UploadTypeOK'
    <3>1. n = offset[u] + 1
      BY DEF n
    <3> QED BY <2>0, <2>3, <2>4, <3>1 DEF rows
  <2>6. RowInv'
    BY <2>0, <2>4 DEF n, RowInv, RowOK, rows
  <2>7. HookInv'
    BY <2>0, <2>3, <2>4 DEF n, HookInv, Hook
  <2> QED BY <2>5, <2>6, <2>7
<1>4. CASE PatchBreaks(u)
  <2>1. UploadTypeOK'
    BY <1>4 DEF PatchBreaks, rows
  <2>2. RowInv'
    BY <1>4 DEF PatchBreaks, RowInv, RowOK, rows
  <2>3. HookInv'
    BY <1>4 DEF PatchBreaks, HookInv
  <2> QED BY <2>1, <2>2, <2>3
<1>5. CASE TerminateBegins(u)
  <2>1. UploadTypeOK'
    BY <1>5 DEF TerminateBegins, rows
  <2>2. RowInv'
    BY <1>5 DEF TerminateBegins, TusRequestIsAuthorized, RowInv, RowOK, rows, Open
  <2>3. HookInv'
    BY <1>5 DEF TerminateBegins, HookInv
  <2> QED BY <2>1, <2>2, <2>3
<1>6. CASE TerminateEnds(u)
  <2>1. /\ hooks' \subseteq Message /\ Cardinality(hooks') <= MaxHooks /\ IsFiniteSet(hooks')
        /\ hooks' \subseteq hooks \cup {Hook("post-terminate", u, 0)}
    BY <1>6, SentHooks, OneHook DEF TerminateEnds, Types
  <2>2. UploadTypeOK'
    BY <1>6, <2>1 DEF TerminateEnds, rows
  <2>3. RowInv'
    BY <1>6 DEF TerminateEnds, RowInv, RowOK, rows
  <2>4. HookInv'
    BY <1>6, <2>1 DEF TerminateEnds, HookInv, Hook
  <2> QED BY <2>2, <2>3, <2>4
<1> QED
  BY <1>1, <1>2, <1>3, <1>4, <1>5, <1>6 DEF TusStep
\* The routes, the clock and the hooks that fail.
LEMMA RouteInv ==
    ASSUME UploadInv, NEW u \in Ids,
           (\E n \in Sizes : AuthorizeUpload(u, n)) \/ Expire(u) \/ CancelUpload(u)
    PROVE  UploadInv'
<1> USE SpaceAssumption, SizesAreNumbers DEF UploadInv, UploadTypeOK, rows
<1>1. ASSUME NEW n \in Sizes, AuthorizeUpload(u, n) PROVE UploadInv'
  <2>1. UploadTypeOK'
    BY <1>1 DEF AuthorizeUpload, tusd, Open, Lengths, RowInv, RowOK
  <2>2. RowInv'
    BY <1>1 DEF AuthorizeUpload, tusd, Open, RowInv, RowOK
  <2>3. HookInv'
    BY <1>1 DEF AuthorizeUpload, tusd, HookInv
  <2> QED BY <2>1, <2>2, <2>3
<1>2. CASE Expire(u)
  <2>1. UploadTypeOK'
    BY <1>2 DEF Expire, tusd
  <2>2. RowInv'
    BY <1>2 DEF Expire, tusd, RowInv, RowOK
  <2>3. HookInv'
    BY <1>2 DEF Expire, tusd, HookInv
  <2> QED BY <2>1, <2>2, <2>3
<1>3. CASE CancelUpload(u)
  <2>1. /\ state[u] # "none" /\ UNCHANGED <<declared, received, films, offset, patch, expired, hooks>>
        /\ file' = [file EXCEPT ![u] = IF @ \in {"there", "doomed"} THEN "removed" ELSE @]
    BY <1>3 DEF CancelUpload, Cancelled, Removed, Open
  <2>2. \/ state' = [state EXCEPT ![u] = "cancelled"] /\ reserved' = [reserved EXCEPT ![u] = 0]
        \/ UNCHANGED <<state, reserved>>
    BY <1>3 DEF CancelUpload, Cancelled
  <2>3. UploadTypeOK'
    BY <2>1, <2>2 DEF Open, Lengths
  <2>4. RowInv'
    BY <2>1, <2>2 DEF Open, RowInv, RowOK
  <2>5. HookInv'
    BY <2>1 DEF HookInv
  <2> QED BY <2>3, <2>4, <2>5
<1> QED
  BY <1>1, <1>2, <1>3

\* What a hook does to the row of its upload.
RowOpened(u) ==
    /\ state' = [state EXCEPT ![u] = "uploading"]
    /\ UNCHANGED received \/ \E n \in 0..offset[u] : received' = [received EXCEPT ![u] = n]
    /\ UNCHANGED <<declared, reserved, films>>

RowCancelled(u) ==
    /\ state' = [state EXCEPT ![u] = "cancelled"]
    /\ reserved' = [reserved EXCEPT ![u] = 0]
    /\ UNCHANGED <<declared, received, films>>

RowReceived(u) ==
    /\ state' = [state EXCEPT ![u] = "received"]
    /\ reserved' = [reserved EXCEPT ![u] = 0]
    /\ received' = [received EXCEPT ![u] = declared[u]]
    /\ films' = [films EXCEPT ![u] = @ + 1]
    /\ UNCHANGED declared /\ offset[u] = declared[u]

\* It opens, cancels or completes an upload that is open; only when all of the
\* file was written does it complete it.
LEMMA HookEffect ==
    ASSUME UploadInv, NEW h \in hooks, HandleTusHook(h), NEW u, u = h.of
    PROVE  /\ u \in Ids /\ state[u] \in Open /\ ~ expired[u]
           /\ RowOpened(u) \/ RowCancelled(u) \/ RowReceived(u)
<1>1. /\ u \in Ids /\ h.offset \in Nat /\ h.offset <= offset[u]
      /\ offset[u] \in Nat /\ patch[u] \in Nat /\ declared[u] \in Nat
      /\ offset[u] + patch[u] <= declared[u]
  BY SizesAreNumbers DEF UploadInv, UploadTypeOK, HookInv
<1>2. Found(u)
  BY DEF HandleTusHook
<1>3. CASE /\ state[u] = "authorized" /\ state' = [state EXCEPT ![u] = "uploading"]
           /\ UNCHANGED <<declared, reserved, received, films>>
  BY <1>1, <1>2, <1>3 DEF Found, Open, RowOpened
<1>4. CASE Receive(u, h.offset)
  <2>1. h.offset \in 0..offset[u]
    BY <1>1
  <2> QED BY <1>1, <1>2, <1>4, <2>1 DEF Found, Receive, RowOpened
<1>5. CASE CompleteUpload(u, h.offset)
  BY <1>1, <1>2, <1>5 DEF Found, CompleteUpload, RowReceived
<1>6. CASE state[u] \in Open /\ Cancelled(u)
  BY <1>1, <1>2, <1>6 DEF Found, Cancelled, RowCancelled
<1> QED
  BY <1>3, <1>4, <1>5, <1>6 DEF HandleTusHook

LEMMA HookStepInv ==
    ASSUME UploadInv, NEW h \in hooks, HookArrives(h) \/ HookEnds(h)
    PROVE  UploadInv'
<1> USE SpaceAssumption, HookAssumption, SizesAreNumbers DEF UploadInv, UploadTypeOK
<1>1. hooks' \in {hooks, hooks \ {h}} /\ UNCHANGED <<expired, file, offset, patch>>
  BY DEF HookArrives, HookEnds, tusd
<1>2. HookInv' /\ hooks' \subseteq hooks /\ Cardinality(hooks') <= MaxHooks
  <2>1. IsFiniteSet(hooks \ {h}) /\ Cardinality(hooks \ {h}) <= MaxHooks
    <3>1. IsFiniteSet(hooks \ {h}) /\ Cardinality(hooks \ {h}) <= Cardinality(hooks)
      BY FS_Subset DEF HookInv
    <3>2. Cardinality(hooks \ {h}) \in Nat /\ Cardinality(hooks) \in Nat
      BY <3>1, FS_CardinalityType DEF HookInv
    <3> QED BY <3>1, <3>2
  <2> QED
    BY <1>1, <2>1 DEF HookInv
<1>3. CASE HandleTusHook(h)
  <2>1. PICK u \in Ids : /\ state[u] \in Open
                         /\ RowOpened(u) \/ RowCancelled(u) \/ RowReceived(u)
    BY <1>3, HookEffect
  <2>2. declared \in [Ids -> Nat]
    OBVIOUS
  <2>3. CASE RowOpened(u)
    <3>1. UploadTypeOK'
      BY <1>1, <1>2, <2>1, <2>2, <2>3 DEF RowOpened, Open, Lengths
    <3>2. RowInv'
      <4>1. ASSUME NEW v \in Ids, v # u PROVE RowOK(v)'
        BY <1>1, <2>3, <4>1 DEF RowOpened, RowInv, RowOK
      <4>2. RowOK(u)'
        <5>1. RowOK(u) /\ state'[u] = "uploading" /\ UNCHANGED <<declared, reserved, films>>
          BY <2>3 DEF RowOpened, RowInv
        <5> QED BY <1>1, <2>1, <5>1 DEF RowOK, Open
      <4> QED BY <4>1, <4>2 DEF RowInv
    <3> QED BY <1>2, <3>1, <3>2
  <2>4. CASE RowCancelled(u)
    <3>1. UploadTypeOK'
      BY <1>1, <1>2, <2>1, <2>2, <2>4 DEF RowCancelled, Open, Lengths
    <3>2. RowInv'
      <4>1. ASSUME NEW v \in Ids, v # u PROVE RowOK(v)'
        BY <1>1, <2>4, <4>1 DEF RowCancelled, RowInv, RowOK
      <4>2. RowOK(u)'
        BY <1>1, <2>1, <2>2, <2>4 DEF RowCancelled, Open, RowInv, RowOK
      <4> QED BY <4>1, <4>2 DEF RowInv
    <3> QED BY <1>2, <3>1, <3>2
  <2>5. CASE RowReceived(u)
    <3>1. UploadTypeOK'
      BY <1>1, <1>2, <2>1, <2>2, <2>5 DEF RowReceived, Open, Lengths
    <3>2. RowInv'
      <4>1. ASSUME NEW v \in Ids, v # u PROVE RowOK(v)'
        BY <1>1, <2>5, <4>1 DEF RowReceived, RowInv, RowOK
      <4>2. RowOK(u)'
        <5>1. /\ RowOK(u) /\ state'[u] = "received" /\ UNCHANGED declared
              /\ offset[u] = declared[u] /\ received'[u] = declared[u] /\ films'[u] = films[u] + 1
          BY <2>5 DEF RowReceived, RowInv
        <5> QED BY <1>1, <2>1, <5>1 DEF RowOK, Open
      <4> QED BY <4>1, <4>2 DEF RowInv
    <3> QED BY <1>2, <3>1, <3>2
  <2> QED BY <2>1, <2>3, <2>4, <2>5
<1>4. CASE UNCHANGED rows
  <2>1. UploadTypeOK'
    BY <1>1, <1>2, <1>4 DEF rows
  <2>2. RowInv'
    BY <1>1, <1>4 DEF rows, RowInv, RowOK
  <2> QED BY <1>2, <2>1, <2>2
<1> QED
  BY <1>3, <1>4 DEF HookArrives, HookEnds
LEMMA UploadInitInv == UploadInit => UploadInv
<1> SUFFICES ASSUME UploadInit PROVE UploadInv
  OBVIOUS
<1>1. IsFiniteSet(hooks) /\ Cardinality(hooks) = 0
  BY FS_EmptySet DEF UploadInit
<1> QED
  BY <1>1, SpaceAssumption, HookAssumption
  DEF UploadInit, UploadInv, UploadTypeOK, RowInv, RowOK, HookInv, Open, Lengths

LEMMA UploadNextInv == UploadInv /\ [UploadNext]_uploadVars => UploadInv'
<1> SUFFICES ASSUME UploadInv, [UploadNext]_uploadVars PROVE UploadInv'
  OBVIOUS
<1>1. CASE UploadNext
  BY <1>1, RouteInv, TusStepInv, HookStepInv DEF UploadNext
<1>2. CASE UNCHANGED uploadVars
  BY <1>2 DEF uploadVars, rows, tusd, UploadInv, UploadTypeOK, RowInv, RowOK, HookInv
<1> QED
  BY <1>1, <1>2

LEMMA UploadInvariance == UploadSpec => []UploadInv
  BY UploadInitInv, UploadNextInv, PTL DEF UploadSpec

\* The rows of uploads, the files of tusd and the hooks under way keep their
\* types, and a PATCH never writes more than was declared.
THEOREM UploadTypes == UploadSpec => []UploadTypeOK
<1>1. UploadInv => UploadTypeOK
  BY DEF UploadInv
<1> QED BY <1>1, UploadInvariance, PTL

\* An upload becomes one film at most, and only when all of it was written,
\* whatever order the hooks come in, however often, and whoever cancels it
\* meanwhile (handleTusHook, completeUpload).
THEOREM UploadsBecomeOneFilm == UploadSpec => []OneFilmPerUpload
<1>1. UploadInv => OneFilmPerUpload
  BY DEF UploadInv, RowInv, RowOK, OneFilmPerUpload
<1> QED BY <1>1, UploadInvariance, PTL

\* What was received stays received with all its bytes unless it is cancelled,
\* and what was cancelled stays so, however late a hook arrives.
THEOREM LateHooksReviveNothing == UploadSpec => NoRevival
<1> DEFINE Stays(u) ==
      /\ state[u] = "received" => \/ state'[u] = "received" /\ received'[u] = declared[u]
                                  \/ state'[u] = "cancelled"
      /\ state[u] = "cancelled" => state'[u] = "cancelled"
<1>1. UploadInv /\ [UploadNext]_uploadVars => \A u \in Ids : Stays(u)
  <2> SUFFICES ASSUME UploadInv, [UploadNext]_uploadVars, NEW u \in Ids PROVE Stays(u)
    OBVIOUS
  <2>0. /\ state \in [Ids -> {"none", "received", "cancelled"} \cup Open]
        /\ received \in [Ids -> Nat]
        /\ state[u] = "received" => received[u] = declared[u]
    BY DEF UploadInv, UploadTypeOK, RowInv, RowOK
  <2>1. CASE UNCHANGED <<state, received>>
    BY <2>0, <2>1
  <2>2. ASSUME NEW v \in Ids, NEW n \in Sizes, AuthorizeUpload(v, n) PROVE Stays(u)
    BY <2>0, <2>2 DEF AuthorizeUpload
  <2>3. ASSUME NEW v \in Ids, CancelUpload(v) PROVE Stays(u)
    BY <2>0, <2>3 DEF CancelUpload, Cancelled, rows
  <2>4. ASSUME NEW h \in hooks, HandleTusHook(h) PROVE Stays(u)
    <3>1. PICK v \in Ids : /\ state[v] \in Open
                           /\ RowOpened(v) \/ RowCancelled(v) \/ RowReceived(v)
      BY <2>4, HookEffect
    <3> QED
      BY <2>0, <3>1 DEF RowOpened, RowCancelled, RowReceived, Open
  <2>5. ASSUME NEW v \in Ids, TusStep(v) \/ Expire(v) PROVE UNCHANGED <<state, received>>
    BY <2>5 DEF TusStep, Expire, CreateUpload, PatchBegins, PatchWrites, PatchBreaks,
                TerminateBegins, TerminateEnds, rows
  <2>6. ASSUME NEW h \in hooks, HookEnds(h) PROVE UNCHANGED <<state, received>>
    BY <2>6 DEF HookEnds, rows
  <2> HIDE DEF Stays
  <2> QED
    BY <2>1, <2>2, <2>3, <2>4, <2>5, <2>6 DEF UploadNext, HookArrives, uploadVars, rows
<1> QED
  BY <1>1, UploadInvariance, PTL DEF UploadSpec, NoRevival

\* The row of an upload, as FilmLife sees it until the film is inspected: the
\* same life that MediaJobs continues.
UploadStage == [u \in Ids |-> IF films[u] = 0 THEN "absent" ELSE "scanning"]

Over == {u \in Ids : state[u] \in {"received", "cancelled"}}

UploadLife == INSTANCE FilmLife WITH
    Films <- Ids, Once <- Ids, stage <- UploadStage, spent <- Over, screen <- None

\* Uploads come to the library as FilmLife promises: once, and never after they
\* were cancelled, however tusd's hooks are repeated, delayed and lost beside the
\* requests of the pages (handleTusHook, completeUpload, cancelUpload).
THEOREM UploadsComeOnce == UploadSpec => UploadLife!Spec
<1>1. UploadInit => UploadLife!Init
  BY DEF UploadInit, UploadLife!Init, UploadStage, Over
<1>2. UploadInv /\ [UploadNext]_uploadVars => [UploadLife!Next]_UploadLife!lifeVars
  <2> SUFFICES ASSUME UploadInv, [UploadNext]_uploadVars
               PROVE  [UploadLife!Next]_UploadLife!lifeVars
    OBVIOUS
  <2>0. /\ state \in [Ids -> {"none", "received", "cancelled"} \cup Open]
        /\ films \in [Ids -> Nat]
        /\ \A u \in Ids : state[u] \in Open => films[u] = 0
    BY DEF UploadInv, UploadTypeOK, RowInv, RowOK
  <2>1. CASE UNCHANGED <<state, films>>
    BY <2>1 DEF UploadLife!lifeVars, UploadStage, Over
  <2>2. ASSUME NEW u \in Ids, NEW next \in Open, state[u] \in Open \cup {"none"},
               state' = [state EXCEPT ![u] = next], UNCHANGED films
        PROVE  UNCHANGED UploadLife!lifeVars
    BY <2>0, <2>2 DEF UploadLife!lifeVars, UploadStage, Over, Open
  <2>3. ASSUME NEW u \in Ids, Cancelled(u) PROVE UploadLife!Withdraw(u)
    BY <2>0, <2>3 DEF Cancelled, UploadLife!Withdraw, UploadStage, Over
  <2>4. ASSUME NEW u \in Ids, state[u] \in Open, RowReceived(u) PROVE UploadLife!Register(u)
    <3>1. UploadStage[u] = "absent" /\ u \notin Over
      BY <2>0, <2>4 DEF UploadStage, Over, Open
    <3>2. UploadStage' = [UploadStage EXCEPT ![u] = "scanning"]
      <4>1. films'[u] # 0 /\ \A v \in Ids : v # u => films'[v] = films[v]
        BY <2>0, <2>4 DEF RowReceived
      <4> QED BY <4>1 DEF UploadStage
    <3>3. Over' = Over \cup (Ids \cap {u})
      BY <2>0, <2>4 DEF RowReceived, Over
    <3> QED
      BY <3>1, <3>2, <3>3 DEF UploadLife!Register, UploadLife!Become
  <2>5. ASSUME NEW h \in hooks, HandleTusHook(h) PROVE [UploadLife!Next]_UploadLife!lifeVars
    <3>1. PICK u \in Ids : /\ state[u] \in Open
                           /\ RowOpened(u) \/ RowCancelled(u) \/ RowReceived(u)
      BY <2>5, HookEffect
    <3>2. CASE RowOpened(u)
      BY <2>2, <3>1, <3>2 DEF RowOpened, Open
    <3>3. CASE RowCancelled(u)
      BY <2>3, <3>3 DEF RowCancelled, Cancelled, UploadLife!Next
    <3>4. CASE RowReceived(u)
      BY <2>4, <3>1, <3>4 DEF UploadLife!Next
    <3> QED
      BY <3>1, <3>2, <3>3, <3>4
  <2>6. ASSUME NEW u \in Ids, NEW n \in Sizes, AuthorizeUpload(u, n)
        PROVE  UNCHANGED UploadLife!lifeVars
    BY <2>2, <2>6 DEF AuthorizeUpload, Open
  <2>7. ASSUME NEW u \in Ids, CancelUpload(u) PROVE [UploadLife!Next]_UploadLife!lifeVars
    BY <2>1, <2>3, <2>7 DEF CancelUpload, rows, UploadLife!Next
  <2>8. ASSUME NEW u \in Ids, TusStep(u) \/ Expire(u) PROVE UNCHANGED <<state, films>>
    BY <2>8 DEF TusStep, Expire, CreateUpload, PatchBegins, PatchWrites, PatchBreaks,
                TerminateBegins, TerminateEnds, rows
  <2>9. ASSUME NEW h \in hooks, HookEnds(h) PROVE UNCHANGED <<state, films>>
    BY <2>9 DEF HookEnds, rows
  <2> QED
    BY <2>1, <2>5, <2>6, <2>7, <2>8, <2>9 DEF UploadNext, HookArrives, uploadVars, rows
<1> QED
  BY <1>1, <1>2, UploadInvariance, PTL DEF UploadSpec, UploadLife!Spec
-----------------------------------------------------------------------------
(* The space of the disk: block k of the file of upload u is the pair       *)
(* <<u, k>>, so that sums over uploads are cardinalities of sets of blocks. *)

\* There are finitely many blocks if every share is finite.
LEMMA BlocksAreFinite ==
    ASSUME NEW U, IsFiniteSet(U), NEW share, \A u \in U : IsFiniteSet(share[u])
    PROVE  IsFiniteSet(Blocks(share, U))
<1> DEFINE Shares == {{u} \X share[u] : u \in U}
           f == [u \in U |-> {u} \X share[u]]
<1>1. f \in Surjection(U, Shares)
  BY DEF Surjection
<1>2. IsFiniteSet(Shares)
  BY <1>1, FS_Surjection
<1>3. ASSUME NEW u \in U PROVE IsFiniteSet({u} \X share[u])
  BY FS_Singleton, FS_Product
<1> QED
  BY <1>2, <1>3, FS_UNION DEF Blocks

LEMMA BlockOf ==
    ASSUME NEW U, NEW share, NEW b
    PROVE  b \in Blocks(share, U) <=> \E u \in U : \E k \in share[u] : b = <<u, k>>
  BY DEF Blocks

LEMMA IntervalIsFinite == \A m, n \in Nat : IsFiniteSet(m..n)
  BY FS_Interval

\* Shares of at most c blocks have c blocks an upload, wherever they begin.
LEMMA SharesAreBounded ==
    ASSUME NEW U, IsFiniteSet(U), NEW c \in Nat,
           NEW first, NEW last,
           \A u \in U : first[u] \in Nat /\ last[u] \in Nat /\ last[u] <= first[u] + c
    PROVE  LET share == [u \in U |-> first[u] + 1..last[u]]
           IN  /\ IsFiniteSet(Blocks(share, U))
               /\ Cardinality(Blocks(share, U)) <= c * Cardinality(U)
<1> DEFINE share == [u \in U |-> first[u] + 1..last[u]]
           B == Blocks(share, U)
           f == [b \in B |-> <<b[1], b[2] - first[b[1]]>>]
<1>1. ASSUME NEW b \in B
      PROVE  /\ b[1] \in U /\ b[2] \in first[b[1]] + 1..last[b[1]] /\ b = <<b[1], b[2]>>
             /\ b[2] \in Int /\ first[b[1]] \in Nat
  BY <1>1, BlockOf
<1>2. f \in Injection(B, U \X (1..c))
  <2>1. ASSUME NEW b \in B PROVE f[b] \in U \X (1..c)
    BY <1>1, <2>1
  <2>2. ASSUME NEW a \in B, NEW b \in B, f[a] = f[b] PROVE a = b
    <3>1. a[1] = b[1] /\ a[2] - first[a[1]] = b[2] - first[b[1]]
      BY <2>2
    <3>2. a[2] = b[2]
      BY <1>1, <3>1
    <3> QED BY <1>1, <3>1, <3>2
  <2> QED BY <2>1, <2>2 DEF Injection, IsInjective
<1>3. IsFiniteSet(U \X (1..c)) /\ Cardinality(U \X (1..c)) = Cardinality(U) * c
  <2>1. IsFiniteSet(1..c) /\ Cardinality(1..c) = c
    BY FS_Interval
  <2> QED BY <2>1, FS_Product
<1>4. IsFiniteSet(B) /\ Cardinality(B) <= Cardinality(U) * c
  <2> HIDE DEF f, B
  <2> QED BY <1>2, <1>3, FS_Injection
<1>5. Cardinality(U) \in Nat
  BY FS_CardinalityType
<1> HIDE DEF B
<1>6. Cardinality(B) <= c * Cardinality(U)
  BY <1>4, <1>5
<1> QED
  BY <1>4, <1>6 DEF B
\* The blocks that the file of an upload may come to have on the disk.
Extent(u) ==
    IF u \in Live THEN declared[u]
    ELSE IF file[u] = "removed" /\ patch[u] = 0 THEN 0
    ELSE offset[u] + patch[u]

Claimed == Blocks([u \in Ids |-> 1..Extent(u)], Ids)

\* Inductive, unlike SpaceIsKept: a PATCH that goes on in an upload that ended is
\* counted from the beginning.
SpaceInv == Cardinality(Claimed) + Reserve <= Disk + Chunk * Cardinality(Ended)

\* No upload comes to have more, and none that ended comes back.
Shrinks == /\ \A u \in Ids : Extent(u)' \in 0..Extent(u)
           /\ Ended \subseteq Ended'

LEMMA LiveIsOpen ==
    ASSUME UploadTypeOK, NEW u \in Ids
    PROVE  u \in Live <=> state[u] \in Open /\ ~ expired[u]
  BY DEF Live, Ended, Open

LEMMA ExtentType ==
    ASSUME UploadInv, NEW u \in Ids
    PROVE  /\ Extent(u) \in Nat /\ offset[u] \in Nat /\ patch[u] \in Nat /\ declared[u] \in Nat
           /\ offset[u] + patch[u] <= declared[u] /\ Extent(u) <= declared[u]
  BY SizesAreNumbers DEF UploadInv, UploadTypeOK, Extent

LEMMA ClaimedIsFinite ==
    ASSUME UploadInv
    PROVE  /\ IsFiniteSet(Claimed) /\ Cardinality(Claimed) \in Nat
           /\ IsFiniteSet(Ended) /\ Cardinality(Ended) \in Nat
<1>1. \A u \in Ids : IsFiniteSet(1..Extent(u))
  BY ExtentType, IntervalIsFinite
<1>2. IsFiniteSet(Claimed)
  <2> DEFINE share == [u \in Ids |-> 1..Extent(u)]
  <2>1. \A u \in Ids : IsFiniteSet(share[u])
    BY <1>1
  <2> HIDE DEF share
  <2>2. IsFiniteSet(Blocks(share, Ids))
    BY <2>1, SpaceAssumption, BlocksAreFinite
  <2> QED BY <2>2 DEF share, Claimed
<1>3. IsFiniteSet(Ended)
  BY SpaceAssumption, FS_Subset DEF Ended
<1> QED BY <1>2, <1>3, FS_CardinalityType

LEMMA TimesMonotone ==
    ASSUME NEW c \in Nat, NEW m \in Nat, NEW n \in Nat, m <= n
    PROVE  c * m <= c * n
  BY SMT

\* A step that shrinks keeps the invariant.
LEMMA ShrinkingKeepsSpace ==
    ASSUME UploadInv, SpaceInv, Shrinks
    PROVE  SpaceInv'
<1>1. Claimed' \subseteq Claimed
  <2> SUFFICES ASSUME NEW b \in Claimed' PROVE b \in Claimed
    OBVIOUS
  <2>1. PICK u \in Ids : \E k \in 1..Extent(u)' : b = <<u, k>>
    BY DEF Claimed, Blocks
  <2>2. PICK k \in 1..Extent(u)' : b = <<u, k>>
    BY <2>1
  <2>3. Extent(u) \in Nat /\ Extent(u)' \in 0..Extent(u)
    BY ExtentType DEF Shrinks
  <2>4. k \in 1..Extent(u)
    BY <2>2, <2>3
  <2> QED BY <2>2, <2>4 DEF Claimed, Blocks
<1>2. /\ IsFiniteSet(Claimed) /\ Cardinality(Claimed) \in Nat
      /\ Cardinality(Ended) \in Nat
  BY ClaimedIsFinite
<1>3. IsFiniteSet(Ended') /\ Cardinality(Ended') \in Nat
  <2>1. Ended' \subseteq Ids
    BY DEF Ended
  <2> QED BY <2>1, SpaceAssumption, FS_Subset, FS_CardinalityType
<1>4. Cardinality(Claimed') <= Cardinality(Claimed) /\ Cardinality(Claimed') \in Nat
  BY <1>1, <1>2, FS_Subset, FS_CardinalityType
<1>5. Cardinality(Ended) <= Cardinality(Ended')
  BY <1>3, FS_Subset DEF Shrinks
<1>6. Chunk * Cardinality(Ended) <= Chunk * Cardinality(Ended')
  BY <1>2, <1>3, <1>5, TimesMonotone, SpaceAssumption
<1>7. /\ Chunk * Cardinality(Ended) \in Nat /\ Chunk * Cardinality(Ended') \in Nat
      /\ Disk \in Nat /\ Reserve \in Nat
  BY <1>2, <1>3, SpaceAssumption
<1> QED BY <1>2, <1>4, <1>6, <1>7 DEF SpaceInv
\* Nothing happened to v.
Same(v) ==
    /\ state'[v] = state[v] /\ expired'[v] = expired[v] /\ declared'[v] = declared[v]
    /\ file'[v] = file[v] /\ offset'[v] = offset[v] /\ patch'[v] = patch[v]

\* What a step does to u alone.
ShrinksAt(u) == Extent(u)' \in 0..Extent(u) /\ (u \in Ended => u \in Ended')

LEMMA OneShrinks ==
    ASSUME UploadInv, NEW u \in Ids, \A v \in Ids \ {u} : Same(v), ShrinksAt(u)
    PROVE  Shrinks
<1>1. ASSUME NEW v \in Ids, Same(v) PROVE ShrinksAt(v)
  <2>1. /\ v \in Live <=> v \in Live'
        /\ v \in Ended <=> v \in Ended'
    BY <1>1 DEF Same, Live, Ended
  <2>2. Extent(v)' = Extent(v)
    BY <1>1, <2>1 DEF Same, Extent
  <2> QED BY <2>1, <2>2, ExtentType DEF ShrinksAt
<1>2. \A v \in Ids : ShrinksAt(v)
  BY <1>1
<1>3. Ended \subseteq Ended'
  BY <1>2 DEF ShrinksAt, Ended
<1> QED BY <1>2, <1>3 DEF ShrinksAt, Shrinks

\* An upload that may go on has no less than it may come to have if it ends.
LEMMA EndShrinks ==
    ASSUME UploadInv, NEW u \in Ids,
           declared'[u] = declared[u], offset'[u] = offset[u], patch'[u] \in {0, patch[u]},
           file'[u] \in {file[u], "removed"},
           expired'[u] = expired[u] \/ expired'[u] = TRUE,
           \/ state'[u] = state[u]
           \/ state[u] \in Open /\ state'[u] = "uploading"
           \/ state[u] \in Open /\ state'[u] = "received" /\ ~ expired[u]
           \/ state[u] # "none" /\ state'[u] = "cancelled"
    PROVE  ShrinksAt(u)
<1> DEFINE e == offset[u] + patch[u]
<1>0. /\ offset[u] \in Nat /\ patch[u] \in Nat /\ declared[u] \in Nat /\ e <= declared[u]
      /\ expired[u] \in BOOLEAN
  BY ExtentType DEF UploadInv, UploadTypeOK
<1>1. u \in Live' => u \in Live
  BY <1>0 DEF Live, Ended, Open
<1>2. u \in Ended => u \in Ended'
  BY <1>0 DEF Ended, Open
<1>3. CASE u \in Live'
  BY <1>0, <1>1, <1>2, <1>3 DEF Extent, ShrinksAt
<1>4. CASE u \notin Live'
  <2>1. Extent(u)' \in {0, offset[u], e}
    BY <1>0, <1>4 DEF Extent
  <2>2. CASE u \in Live
    BY <1>0, <1>2, <2>1, <2>2 DEF Extent, ShrinksAt
  <2>3. CASE u \notin Live /\ file[u] = "removed" /\ patch[u] = 0
    <3>1. Extent(u)' = 0 /\ Extent(u) = 0
      BY <1>0, <1>4, <2>3 DEF Extent
    <3> QED BY <1>2, <3>1 DEF ShrinksAt
  <2>4. CASE u \notin Live /\ ~ (file[u] = "removed" /\ patch[u] = 0)
    <3>1. Extent(u) = e
      BY <2>4 DEF Extent
    <3> QED BY <1>0, <1>2, <2>1, <3>1 DEF ShrinksAt
  <2> QED BY <2>2, <2>3, <2>4
<1> QED BY <1>3, <1>4
\* Every step but a new upload leaves the disk no fuller than it may become.
LEMMA StepShrinks ==
    ASSUME UploadInv, [UploadNext]_uploadVars,
           ~ \E u \in Ids, n \in Sizes : AuthorizeUpload(u, n)
    PROVE  Shrinks
<1>0. /\ state \in [Ids -> {"none", "received", "cancelled"} \cup Open]
      /\ declared \in [Ids -> Lengths] /\ expired \in [Ids -> BOOLEAN]
      /\ file \in [Ids -> {"none", "there", "doomed", "removed"}]
      /\ offset \in [Ids -> Nat] /\ patch \in [Ids -> Nat]
  BY DEF UploadInv, UploadTypeOK
<1>1. ASSUME NEW u \in Ids, Expire(u) PROVE Shrinks
  <2>1. \A v \in Ids \ {u} : Same(v)
    BY <1>0, <1>1 DEF Expire, rows, tusd, Same
  <2>2. ShrinksAt(u)
    BY <1>0, <1>1, EndShrinks DEF Expire, rows, tusd
  <2> QED BY <2>1, <2>2, OneShrinks
<1>2. ASSUME NEW u \in Ids, CancelUpload(u) PROVE Shrinks
  <2>1. \A v \in Ids \ {u} : Same(v)
    BY <1>0, <1>2 DEF CancelUpload, Cancelled, Removed, rows, Same
  <2>2. ShrinksAt(u)
    <3>1. /\ UNCHANGED <<declared, offset, patch, expired>>
          /\ file'[u] \in {file[u], "removed"}
          /\ state[u] # "none" /\ state'[u] = "cancelled"
      BY <1>0, <1>2 DEF CancelUpload, Cancelled, Removed, rows, Open
    <3> QED BY <3>1, EndShrinks
  <2> QED BY <2>1, <2>2, OneShrinks
<1>3. ASSUME NEW u \in Ids, u \in Live, UNCHANGED <<state, expired, declared>>,
             \A v \in Ids \ {u} : Same(v)
      PROVE  Shrinks
  <2>1. u \in Live' /\ (u \in Ended => u \in Ended')
    BY <1>3 DEF Live, Ended
  <2>2. ShrinksAt(u)
    BY <1>3, <2>1, ExtentType DEF Extent, ShrinksAt
  <2> QED BY <1>3, <2>2, OneShrinks
<1>4. ASSUME NEW u \in Ids, TusStep(u) PROVE Shrinks
  <2>0. UNCHANGED <<state, expired, declared>>
    BY <1>4 DEF TusStep, CreateUpload, PatchBegins, PatchWrites, PatchBreaks, TerminateBegins,
                TerminateEnds, rows
  <2>1. \A v \in Ids \ {u} : Same(v)
    BY <1>0, <1>4, <2>0 DEF TusStep, CreateUpload, PatchBegins, PatchWrites, PatchBreaks,
                            TerminateBegins, TerminateEnds, Same
  <2>2. CASE TusRequestIsAuthorized(u)
    BY <1>3, <2>0, <2>1, <2>2, LiveIsOpen DEF TusRequestIsAuthorized, UploadInv
  <2>3. CASE PatchWrites(u)
    <3>1. /\ offset'[u] = offset[u] + 1 /\ patch'[u] = patch[u] - 1 /\ patch[u] > 0
          /\ file'[u] = file[u] /\ declared'[u] = declared[u]
      BY <1>0, <2>0, <2>3 DEF PatchWrites
    <3>2. u \in Live <=> u \in Live'
      BY <2>0 DEF Live, Ended
    <3>3. u \in Ended => u \in Ended'
      BY <2>0 DEF Ended
    <3>4. ASSUME u \in Live PROVE ShrinksAt(u)
      <4>1. Extent(u)' = Extent(u)
        BY <3>1, <3>2, <3>4 DEF Extent
      <4> QED BY <3>3, <4>1, ExtentType DEF ShrinksAt
    <3>5. ASSUME u \notin Live PROVE ShrinksAt(u)
      <4>1. Extent(u) = offset[u] + patch[u]
        BY <3>1, <3>5, ExtentType DEF Extent
      <4>2. Extent(u)' \in {0, offset[u] + 1 + (patch[u] - 1)}
        BY <3>1, <3>2, <3>5 DEF Extent
      <4>3. offset[u] + 1 + (patch[u] - 1) = offset[u] + patch[u] /\ Extent(u) \in Nat
        BY ExtentType
      <4> QED BY <3>3, <4>1, <4>2, <4>3 DEF ShrinksAt
    <3> QED BY <2>1, <3>4, <3>5, OneShrinks
  <2>4. CASE PatchBreaks(u) \/ TerminateEnds(u)
    <3>1. /\ offset'[u] = offset[u] /\ patch'[u] = 0 /\ file'[u] \in {file[u], "removed"}
      BY <1>0, <2>4 DEF PatchBreaks, TerminateEnds
    <3>2. ShrinksAt(u)
      BY <2>0, <3>1, EndShrinks
    <3> QED BY <2>1, <3>2, OneShrinks
  <2> QED
    BY <1>4, <2>2, <2>3, <2>4 DEF TusStep, CreateUpload, PatchBegins, TerminateBegins
<1>5. ASSUME NEW h \in hooks, HandleTusHook(h), UNCHANGED <<expired, tusd>> PROVE Shrinks
  <2>1. PICK u \in Ids : /\ state[u] \in Open /\ ~ expired[u]
                         /\ RowOpened(u) \/ RowCancelled(u) \/ RowReceived(u)
    BY <1>5, HookEffect
  <2>2. /\ UNCHANGED <<expired, file, offset, patch, declared>>
        /\ \E x \in {"uploading", "cancelled", "received"} : state' = [state EXCEPT ![u] = x]
    BY <1>5, <2>1 DEF tusd, RowOpened, RowCancelled, RowReceived
  <2>3. \A v \in Ids \ {u} : Same(v)
    BY <1>0, <2>2 DEF Same
  <2>4. ShrinksAt(u)
    <3>1. state'[u] \in {"uploading", "cancelled", "received"}
      BY <1>0, <2>2
    <3> QED BY <2>1, <2>2, <3>1, EndShrinks DEF Open
  <2> QED BY <2>3, <2>4, OneShrinks
<1>6. CASE UNCHANGED <<rows, expired, tusd>>
  <2>1. \A v \in Ids : Extent(v)' = Extent(v) /\ Ended' = Ended
    BY <1>6 DEF rows, tusd, Extent, Live, Ended
  <2>2. Ended' = Ended
    BY <1>6 DEF rows, Ended
  <2> QED BY <2>1, <2>2, ExtentType DEF Shrinks
<1> QED
  BY <1>1, <1>2, <1>4, <1>5, <1>6 DEF UploadNext, HookArrives, HookEnds, uploadVars
LEMMA UnionBound ==
    ASSUME NEW S, NEW T, IsFiniteSet(S), IsFiniteSet(T)
    PROVE  /\ IsFiniteSet(S \cup T) /\ Cardinality(S) \in Nat /\ Cardinality(T) \in Nat
           /\ Cardinality(S \cup T) \in Nat
           /\ Cardinality(S \cup T) <= Cardinality(S) + Cardinality(T)
           /\ S \cap T = {} => Cardinality(S \cup T) = Cardinality(S) + Cardinality(T)
<1>1. IsFiniteSet(S \cap T) /\ IsFiniteSet(S \cup T)
  BY FS_Intersection, FS_Union
<1>2. /\ Cardinality(S) \in Nat /\ Cardinality(T) \in Nat
      /\ Cardinality(S \cap T) \in Nat /\ Cardinality(S \cup T) \in Nat
  BY <1>1, FS_CardinalityType
<1>3. Cardinality(S \cup T) = Cardinality(S) + Cardinality(T) - Cardinality(S \cap T)
  BY FS_Union
<1>4. S \cap T = {} => Cardinality(S \cap T) = 0
  BY FS_EmptySet
<1> QED BY <1>1, <1>2, <1>3, <1>4

\* The blocks of which authorizeUpload has the counts.
ReservedBlocks ==
    Blocks([u \in Ids |-> 1..reserved[u]],
           {u \in Ids : state[u] \in Open \cup {"received"} /\ ~ expired[u]})

DiskBlocks == Blocks(OnDisk, Ids)

\* Those it does not count: what uploads that ended are still writing.
EndingBlocks == Blocks([u \in Ended |-> offset[u] + 1..offset[u] + patch[u]], Ended)

LEMMA CountsAreFinite ==
    ASSUME UploadInv
    PROVE  /\ IsFiniteSet(ReservedBlocks) /\ IsFiniteSet(DiskBlocks) /\ IsFiniteSet(EndingBlocks)
           /\ Cardinality(EndingBlocks) <= Chunk * Cardinality(Ended)
<1>1. reserved \in [Ids -> Nat]
  <2>1. Lengths \subseteq Nat
    BY SpaceAssumption DEF Lengths
  <2> QED BY <2>1 DEF UploadInv, UploadTypeOK
<1>2. IsFiniteSet(ReservedBlocks)
  <2> DEFINE share == [u \in Ids |-> 1..reserved[u]]
             Valid == {u \in Ids : state[u] \in Open \cup {"received"} /\ ~ expired[u]}
  <2>1. \A u \in Valid : IsFiniteSet(share[u])
    BY <1>1, IntervalIsFinite
  <2>2. IsFiniteSet(Valid)
    BY SpaceAssumption, FS_Subset
  <2> HIDE DEF share, Valid
  <2>3. IsFiniteSet(Blocks(share, Valid))
    BY <2>1, <2>2, BlocksAreFinite
  <2> QED BY <2>3 DEF share, Valid, ReservedBlocks
<1>3. IsFiniteSet(DiskBlocks)
  <2>1. \A u \in Ids : IsFiniteSet(OnDisk[u])
    BY ExtentType, IntervalIsFinite, FS_EmptySet DEF OnDisk
  <2> QED BY <2>1, SpaceAssumption, BlocksAreFinite DEF DiskBlocks
<1>4. IsFiniteSet(EndingBlocks) /\ Cardinality(EndingBlocks) <= Chunk * Cardinality(Ended)
  <2> DEFINE last == [u \in Ended |-> offset[u] + patch[u]]
             share == [u \in Ended |-> offset[u] + 1..last[u]]
  <2>1. \A u \in Ended : offset[u] \in Nat /\ last[u] \in Nat /\ last[u] <= offset[u] + Chunk
    BY ExtentType, SpaceAssumption DEF Ended, UploadInv, RowInv, RowOK
  <2>2. IsFiniteSet(Ended) /\ Chunk \in Nat
    BY ClaimedIsFinite, SpaceAssumption
  <2>3. share = [u \in Ended |-> offset[u] + 1..offset[u] + patch[u]]
    OBVIOUS
  <2> HIDE DEF last
  <2>4. IsFiniteSet(Blocks(share, Ended)) /\ Cardinality(Blocks(share, Ended)) <= Chunk * Cardinality(Ended)
    BY <2>1, <2>2, SharesAreBounded
  <2> QED BY <2>3, <2>4 DEF EndingBlocks
<1> QED BY <1>2, <1>3, <1>4

\* The comparison of authorizeUpload leaves room for what it lets in: the blocks
\* that are claimed then are new, reserved, on the disk, or those of the end.
LEMMA AuthorizeKeepsSpace ==
    ASSUME UploadInv, NEW u \in Ids, NEW n \in Sizes, AuthorizeUpload(u, n)
    PROVE  SpaceInv'
<1> DEFINE New == {u} \X (1..n)
<1>0. /\ n \in Nat /\ Disk \in Nat /\ Reserve \in Nat /\ Chunk \in Nat
      /\ state[u] = "none" /\ ~ expired[u]
      /\ state' = [state EXCEPT ![u] = "authorized"]
      /\ declared' = [declared EXCEPT ![u] = n]
      /\ UNCHANGED <<expired, file, offset, patch>>
      /\ state \in [Ids -> {"none", "received", "cancelled"} \cup Open]
      /\ declared \in [Ids -> Lengths]
  BY SpaceAssumption DEF AuthorizeUpload, tusd, UploadInv, UploadTypeOK, RowInv, RowOK
<1>1. Ended' = Ended
  BY <1>0 DEF Ended
<1>2. Claimed' \subseteq New \cup ReservedBlocks \cup DiskBlocks \cup EndingBlocks
  <2> SUFFICES ASSUME NEW b \in Claimed'
               PROVE  b \in New \cup ReservedBlocks \cup DiskBlocks \cup EndingBlocks
    OBVIOUS
  <2>1. PICK v \in Ids : \E k \in 1..Extent(v)' : b = <<v, k>>
    BY DEF Claimed, Blocks
  <2>2. PICK k \in 1..Extent(v)' : b = <<v, k>>
    BY <2>1
  <2>3. CASE v = u
    <3>1. Extent(v)' = n
      BY <1>0, <2>3 DEF Extent, Live, Ended, Open
    <3> QED BY <2>2, <2>3, <3>1
  <2>4. CASE v # u /\ v \in Live
    <3>1. /\ Extent(v)' = reserved[v]
          /\ state[v] \in Open /\ ~ expired[v]
      <4>1. v \in Live' /\ declared'[v] = declared[v]
        BY <1>0, <1>1, <2>4 DEF Live
      <4>2. state[v] \in Open /\ ~ expired[v]
        BY <2>4, LiveIsOpen DEF UploadInv
      <4>3. reserved[v] = declared[v]
        BY <4>2 DEF UploadInv, RowInv, RowOK
      <4> QED BY <4>1, <4>2, <4>3 DEF Extent
    <3> QED BY <2>2, <3>1 DEF ReservedBlocks, Blocks
  <2>5. CASE v # u /\ v \notin Live
    <3>1. /\ offset[v] \in Nat /\ patch[v] \in Nat /\ declared[v] \in Nat
          /\ offset[v] + patch[v] <= declared[v]
      BY ExtentType
    <3>2. v \notin Live'
      BY <1>0, <1>1, <2>5 DEF Live
    <3>3. ~ (file[v] = "removed" /\ patch[v] = 0) /\ k \in 1..offset[v] + patch[v]
      BY <1>0, <2>2, <3>2 DEF Extent
    <3>4. CASE k <= offset[v]
      <4>1. k \in OnDisk[v]
        BY <3>1, <3>3, <3>4 DEF OnDisk
      <4> QED BY <2>2, <4>1 DEF DiskBlocks, Blocks
    <3>5. CASE k > offset[v]
      <4>1. patch[v] > 0 /\ k \in offset[v] + 1..offset[v] + patch[v]
        BY <3>1, <3>3, <3>5
      <4>2. v \in Ended
        <5>1. state[v] # "received"
          BY <3>1, <4>1 DEF UploadInv, RowInv, RowOK
        <5>2. state[v] # "none"
          BY <4>1 DEF UploadInv, RowInv, RowOK
        <5> QED BY <1>0, <2>5, <5>1, <5>2 DEF Live, Ended
      <4> QED BY <2>2, <4>1, <4>2 DEF EndingBlocks, Blocks
    <3> QED BY <3>1, <3>3, <3>4, <3>5
  <2> QED BY <2>3, <2>4, <2>5
<1>3. IsFiniteSet(New) /\ Cardinality(New) = n
  <2>1. IsFiniteSet(1..n) /\ Cardinality(1..n) = n
    BY <1>0, FS_Interval
  <2>2. IsFiniteSet({u}) /\ Cardinality({u}) = 1
    BY FS_Singleton
  <2>3. IsFiniteSet(New) /\ Cardinality(New) = Cardinality({u}) * Cardinality(1..n)
    BY <2>1, <2>2, FS_Product
  <2> QED BY <1>0, <2>1, <2>2, <2>3
<1> HIDE DEF New
<1>4. /\ IsFiniteSet(New \cup ReservedBlocks \cup DiskBlocks \cup EndingBlocks)
      /\ Cardinality(New \cup ReservedBlocks \cup DiskBlocks \cup EndingBlocks) <=
            n + Cardinality(ReservedBlocks) + Cardinality(DiskBlocks) + Cardinality(EndingBlocks)
      /\ Cardinality(ReservedBlocks) \in Nat /\ Cardinality(DiskBlocks) \in Nat
      /\ Cardinality(EndingBlocks) \in Nat
  <2>1. /\ IsFiniteSet(New \cup ReservedBlocks)
        /\ Cardinality(New \cup ReservedBlocks) <= n + Cardinality(ReservedBlocks)
    BY <1>3, CountsAreFinite, UnionBound
  <2>2. /\ IsFiniteSet(New \cup ReservedBlocks \cup DiskBlocks)
        /\ Cardinality(New \cup ReservedBlocks \cup DiskBlocks) <=
              Cardinality(New \cup ReservedBlocks) + Cardinality(DiskBlocks)
    BY <2>1, CountsAreFinite, UnionBound
  <2>3. /\ IsFiniteSet(New \cup ReservedBlocks \cup DiskBlocks \cup EndingBlocks)
        /\ Cardinality(New \cup ReservedBlocks \cup DiskBlocks \cup EndingBlocks) <=
              Cardinality(New \cup ReservedBlocks \cup DiskBlocks) + Cardinality(EndingBlocks)
    BY <2>2, CountsAreFinite, UnionBound
  <2>4. /\ Cardinality(ReservedBlocks) \in Nat /\ Cardinality(DiskBlocks) \in Nat
        /\ Cardinality(EndingBlocks) \in Nat /\ Cardinality(New \cup ReservedBlocks) \in Nat
        /\ Cardinality(New \cup ReservedBlocks \cup DiskBlocks) \in Nat
        /\ Cardinality(New \cup ReservedBlocks \cup DiskBlocks \cup EndingBlocks) \in Nat
    BY <2>1, <2>2, <2>3, CountsAreFinite, FS_CardinalityType
  <2> QED BY <1>0, <2>1, <2>2, <2>3, <2>4
<1>5. n + Cardinality(ReservedBlocks) + Cardinality(DiskBlocks) + Reserve <= Disk
  <2>1. (Disk - Cardinality(DiskBlocks)) - Cardinality(ReservedBlocks) >= n + Reserve
    BY DEF AuthorizeUpload, Free, Reserved, ReservedBlocks, DiskBlocks
  <2> QED BY <1>0, <1>4, <2>1
<1>6. Cardinality(Claimed') \in Nat
      /\ Cardinality(Claimed') <= n + Cardinality(ReservedBlocks) + Cardinality(DiskBlocks)
                                    + Cardinality(EndingBlocks)
  <2>1. /\ Cardinality(Claimed') \in Nat
        /\ Cardinality(Claimed') <=
              Cardinality(New \cup ReservedBlocks \cup DiskBlocks \cup EndingBlocks)
        /\ Cardinality(New \cup ReservedBlocks \cup DiskBlocks \cup EndingBlocks) \in Nat
    BY <1>2, <1>4, FS_Subset, FS_CardinalityType
  <2> QED BY <1>0, <1>4, <2>1
<1>7. Cardinality(EndingBlocks) <= Chunk * Cardinality(Ended) /\ Chunk * Cardinality(Ended) \in Nat
  BY <1>0, CountsAreFinite, ClaimedIsFinite
<1>8. Cardinality(Claimed') + Reserve <= Disk + Chunk * Cardinality(Ended)
  BY <1>0, <1>4, <1>5, <1>6, <1>7
<1> QED BY <1>1, <1>8 DEF SpaceInv
\* What is on the disk and what was promised are different blocks, all claimed.
LEMMA ClaimsCoverPromises ==
    ASSUME UploadInv, SpaceInv
    PROVE  SpaceIsKept
<1> DEFINE rest == [u \in Ids |-> offset[u] + 1..declared[u]]
           PromisedBlocks == Blocks(rest, Live)
<1>1. DiskBlocks \cup PromisedBlocks \subseteq Claimed
  <2>1. ASSUME NEW u \in Ids, NEW k \in OnDisk[u] PROVE k \in 1..Extent(u)
    BY <2>1, ExtentType DEF OnDisk, Extent
  <2>2. ASSUME NEW u \in Live, NEW k \in rest[u] PROVE u \in Ids /\ k \in 1..Extent(u)
    BY <2>2, ExtentType DEF Extent, Live
  <2> HIDE DEF rest
  <2> QED BY <2>1, <2>2 DEF DiskBlocks, Blocks, Claimed
<1>2. DiskBlocks \cap PromisedBlocks = {}
  <2>1. ASSUME NEW u \in Ids PROVE OnDisk[u] \cap rest[u] = {}
    BY <2>1, ExtentType DEF OnDisk
  <2>2. Live \subseteq Ids
    BY DEF Live
  <2> HIDE DEF rest
  <2> QED BY <2>1, <2>2 DEF DiskBlocks, Blocks
<1> HIDE DEF PromisedBlocks
<1>3. /\ IsFiniteSet(DiskBlocks) /\ IsFiniteSet(PromisedBlocks)
      /\ Cardinality(DiskBlocks \cup PromisedBlocks) <= Cardinality(Claimed)
      /\ Cardinality(Claimed) \in Nat
  BY <1>1, ClaimedIsFinite, FS_Subset
<1>4. /\ Cardinality(DiskBlocks \cup PromisedBlocks)
            = Cardinality(DiskBlocks) + Cardinality(PromisedBlocks)
      /\ Cardinality(DiskBlocks) \in Nat /\ Cardinality(PromisedBlocks) \in Nat
  BY <1>2, <1>3, UnionBound
<1>5. /\ Free = Disk - Cardinality(DiskBlocks) /\ Promised = Cardinality(PromisedBlocks)
      /\ Chunk * Cardinality(Ended) \in Nat /\ Disk \in Nat /\ Reserve \in Nat
  BY ClaimedIsFinite, SpaceAssumption DEF Free, DiskBlocks, Promised, PromisedBlocks
<1> QED
  BY <1>3, <1>4, <1>5 DEF SpaceInv, SpaceIsKept

\* However uploads are authorized, written, cancelled and let expire side by side,
\* the disk has room for the rest of every upload that may go on and the reserve
\* beyond that, but for one chunk of each upload that ended while a PATCH was
\* writing (authorizeUpload, authorizeTusRequest).
THEOREM DiskIsNotOvercommitted == UploadSpec => []SpaceIsKept
<1>1. UploadInit => SpaceInv
  <2> SUFFICES ASSUME UploadInit PROVE SpaceInv
    OBVIOUS
  <2>1. Claimed = {} /\ Ended = {}
    BY DEF UploadInit, Claimed, Blocks, Extent, Live, Ended
  <2>2. Cardinality({}) = 0
    BY FS_EmptySet
  <2> QED BY <2>1, <2>2, SpaceAssumption DEF SpaceInv
<1>2. UploadInv /\ SpaceInv /\ [UploadNext]_uploadVars => SpaceInv'
  BY StepShrinks, ShrinkingKeepsSpace, AuthorizeKeepsSpace
<1>3. UploadInv /\ SpaceInv => SpaceIsKept
  BY ClaimsCoverPromises
<1> QED
  BY <1>1, <1>2, <1>3, UploadInvariance, PTL DEF UploadSpec
=============================================================================
