------------------------------- MODULE Uploads -------------------------------
(***************************************************************************)
(* Uploads over tus: the rows of the table uploads in the API, the files   *)
(* that tusd writes, the hooks with which tusd tells the API what happened *)
(* and the space of the disk that both share.                              *)
(*                                                                         *)
(* A block of space stands for a share of a chunk.  tusd lets one PATCH    *)
(* write at a time; the post-* hooks are sent without waiting for them, so *)
(* they arrive in any order, not at all or, when the answer is lost,       *)
(* twice.                                                                  *)
(*                                                                         *)
(* Abstractions.                                                           *)
(*  - names and types agree with the authorization; a token is that of its *)
(*    upload.                                                              *)
(*  - nothing else writes to the disk, and what the jobs do with the file  *)
(*    of a received upload is in MediaJobs.                                *)
(***************************************************************************)
EXTENDS Integers, FiniteSets

CONSTANTS
    Ids,      \* uploads
    Sizes,    \* of files, in blocks
    Disk,     \* blocks that are free before the first upload
    Reserve,  \* blocks that stay free: the 12 GiB of authorizeUpload
    Chunk,    \* most blocks of a PATCH: chunkSize of the page
    MaxHooks  \* bound: calls of the API under way, beyond which they are lost

ASSUME SpaceAssumption ==
    /\ IsFiniteSet(Ids)
    /\ Sizes \subseteq Nat \ {0} /\ Disk \in Nat
    /\ Reserve \in 0..Disk /\ Chunk \in Nat \ {0}

ASSUME HookAssumption == MaxHooks \in Nat

VARIABLES
    state, declared, reserved, received,  \* the row of an upload
    expired,   \* expires_at is past
    films,     \* rows of media that were made of it
    file,      \* what tusd has
    offset,    \* blocks that were written
    patch,     \* blocks that the PATCH in progress has yet to write
    hooks      \* calls of the API that are under way

rows == <<state, declared, reserved, received, films>>
tusd == <<file, offset, patch>>
uploadVars == <<rows, expired, tusd, hooks>>

Types == {"post-create", "post-receive", "post-finish", "post-terminate"}
Open == {"authorized", "uploading"}
Lengths == {0} \cup Sizes

UploadTypeOK ==
    /\ state \in [Ids -> {"none", "received", "cancelled"} \cup Open]
    /\ declared \in [Ids -> Lengths] /\ reserved \in [Ids -> Lengths]
    /\ \A u \in Ids : state[u] \notin Open => reserved[u] = 0
    /\ films \in [Ids -> Nat] /\ received \in [Ids -> Nat]
    /\ offset \in [Ids -> Nat] /\ patch \in [Ids -> Nat]
    /\ expired \in [Ids -> BOOLEAN]
    /\ file \in [Ids -> {"none", "there", "doomed", "removed"}]
    /\ \A u \in Ids : received[u] <= declared[u] /\ offset[u] + patch[u] <= declared[u]
    /\ hooks \subseteq [type : Types, of : Ids, offset : Nat] /\ Cardinality(hooks) <= MaxHooks

UploadInit ==
    /\ state = [u \in Ids |-> "none"]
    /\ declared = [u \in Ids |-> 0] /\ reserved = [u \in Ids |-> 0]
    /\ received = [u \in Ids |-> 0]
    /\ expired = [u \in Ids |-> FALSE] /\ films = [u \in Ids |-> 0]
    /\ file = [u \in Ids |-> "none"]
    /\ offset = [u \in Ids |-> 0] /\ patch = [u \in Ids |-> 0]
    /\ hooks = {}

-----------------------------------------------------------------------------
(* The disk *)

\* The k-th block of the file of u is <<u, k>>.  Of each upload of U, its share.
Blocks(share, U) == UNION {{u} \X share[u] : u \in U}

\* A file that was removed takes its space until it is closed.
OnDisk ==
    [u \in Ids |-> IF file[u] = "removed" /\ patch[u] = 0 THEN {} ELSE 1..offset[u]]

Free == Disk - Cardinality(Blocks(OnDisk, Ids))

\* Mutant: each upload is compared with the space alone.
ReservedIgnored == 0

Reserved ==
    LET Valid == {u \in Ids : state[u] \in Open \cup {"received"} /\ ~expired[u]}
    IN  Cardinality(Blocks([u \in Ids |-> 1..reserved[u]], Valid))

AuthorizeUpload(u, n) ==
    /\ state[u] = "none"
    /\ Free - Reserved >= n + Reserve
    /\ state' = [state EXCEPT ![u] = "authorized"]
    /\ declared' = [declared EXCEPT ![u] = n]
    /\ reserved' = [reserved EXCEPT ![u] = n]
    /\ UNCHANGED <<received, films, expired, tusd, hooks>>

\* expires_at is an hour after createdAt.
Expire(u) ==
    /\ state[u] # "none" /\ ~expired[u]
    /\ expired' = [expired EXCEPT ![u] = TRUE]
    /\ UNCHANGED <<rows, tusd, hooks>>

-----------------------------------------------------------------------------
(* tusd, and the browser that calls it *)

\* authorizeTusRequest, which the proxy asks before every request to tusd.
TusRequestIsAuthorized(u) == state[u] \in Open /\ ~expired[u]

\* A hook arrives at the API or it does not.
Sent(some) ==
    hooks' \in {s \in {hooks \cup some, hooks} : Cardinality(s) <= MaxHooks}

Hook(type, u, n) == [type |-> type, of |-> u, offset |-> n]

\* POST: pre-create, for which tusd waits, accepts the declared size.
CreateUpload(u) ==
    /\ TusRequestIsAuthorized(u) /\ file[u] = "none"
    /\ file' = [file EXCEPT ![u] = "there"]
    /\ Sent({Hook("post-create", u, 0)})
    /\ UNCHANGED <<rows, expired, offset, patch>>

PatchBegins(u, n) ==
    /\ TusRequestIsAuthorized(u) /\ file[u] = "there" /\ patch[u] = 0
    /\ n <= declared[u] - offset[u]
    /\ patch' = [patch EXCEPT ![u] = n]
    /\ UNCHANGED <<rows, expired, file, offset, hooks>>

\* A progress report is due from time to time, the last hook at the end.
PatchWrites(u) ==
    LET n == offset[u] + 1
        last == IF n = declared[u] THEN {Hook("post-finish", u, n)} ELSE {}
    IN  /\ patch[u] > 0
        /\ offset' = [offset EXCEPT ![u] = n]
        /\ patch' = [patch EXCEPT ![u] = @ - 1]
        /\ Sent(last) \/ Sent(last \cup {Hook("post-receive", u, n)})
        /\ UNCHANGED <<rows, expired, file>>

\* The connection breaks; the page goes on from the offset with another PATCH.
PatchBreaks(u) ==
    /\ patch[u] > 0
    /\ patch' = [patch EXCEPT ![u] = 0]
    /\ UNCHANGED <<rows, expired, file, offset, hooks>>

\* DELETE, from abort(true) of the page: it is let through, ...
TerminateBegins(u) ==
    /\ TusRequestIsAuthorized(u) /\ file[u] = "there"
    /\ file' = [file EXCEPT ![u] = "doomed"]
    /\ UNCHANGED <<rows, expired, offset, patch, hooks>>

\* ... and ends a PATCH that is in progress.
TerminateEnds(u) ==
    /\ file[u] = "doomed"
    /\ file' = [file EXCEPT ![u] = "removed"]
    /\ patch' = [patch EXCEPT ![u] = 0]
    /\ Sent({Hook("post-terminate", u, 0)})
    /\ UNCHANGED <<rows, expired, offset>>

-----------------------------------------------------------------------------
(* The API *)

\* Mutant: as long as the upload was not cancelled.
ReceiveWhenNotCancelled(u, n) ==
    /\ state' = [state EXCEPT ![u] = "uploading"]
    /\ received' = [received EXCEPT ![u] = n]
    /\ UNCHANGED <<declared, reserved, films>>

Receive(u, n) ==
    /\ state[u] \in Open
    /\ state' = [state EXCEPT ![u] = "uploading"]
    /\ received' = [received EXCEPT ![u] = n]
    /\ UNCHANGED <<declared, reserved, films>>

\* Mutant: whatever became of the upload.
CompleteUploadAgain(u, n) ==
    /\ file[u] \in {"there", "doomed"}
    /\ state' = [state EXCEPT ![u] = "received"]
    /\ received' = [received EXCEPT ![u] = n]
    /\ reserved' = [reserved EXCEPT ![u] = 0]
    /\ films' = [films EXCEPT ![u] = @ + 1]
    /\ UNCHANGED declared

\* completeUpload: requirePathWithin needs the file.
CompleteUpload(u, n) ==
    /\ state[u] \in Open /\ n = declared[u]
    /\ file[u] \in {"there", "doomed"}
    /\ state' = [state EXCEPT ![u] = "received"]
    /\ received' = [received EXCEPT ![u] = n]
    /\ reserved' = [reserved EXCEPT ![u] = 0]
    /\ films' = [films EXCEPT ![u] = @ + 1]
    /\ UNCHANGED declared

\* Mutant: the reservation stays.
CancelledKeepingReservation(u) ==
    /\ state' = [state EXCEPT ![u] = "cancelled"]
    /\ UNCHANGED <<declared, reserved, received, films>>

Cancelled(u) ==
    /\ state' = [state EXCEPT ![u] = "cancelled"]
    /\ reserved' = [reserved EXCEPT ![u] = 0]
    /\ UNCHANGED <<declared, received, films>>

\* findUploadByToken.
Found(u) == ~expired[u] /\ state[u] # "cancelled"

HandleTusHook(h) ==
    LET u == h.of
    IN  /\ Found(u)
        /\ \/ /\ h.type = "post-create" /\ state[u] = "authorized"
              /\ state' = [state EXCEPT ![u] = "uploading"]
              /\ UNCHANGED <<declared, reserved, received, films>>
           \/ h.type = "post-receive" /\ Receive(u, h.offset)
           \/ h.type = "post-finish" /\ CompleteUpload(u, h.offset)
           \/ h.type = "post-terminate" /\ state[u] \in Open /\ Cancelled(u)

\* The answer may be lost; then tusd calls again.
HookArrives(h) ==
    /\ HandleTusHook(h)
    /\ hooks' \in {hooks, hooks \ {h}}
    /\ UNCHANGED <<expired, tusd>>

\* The call is lost, refused or without effect.
HookEnds(h) ==
    /\ hooks' = hooks \ {h}
    /\ UNCHANGED <<rows, expired, tusd>>

\* rmSync of the file and its .info; a PATCH writes on to what has no name.
Removed(u) ==
    /\ file' = [file EXCEPT ![u] = IF @ \in {"there", "doomed"} THEN "removed" ELSE @]
    /\ UNCHANGED <<offset, patch>>

\* DELETE /uploads/:uploadId.  Until the film is inspected.
CancelUpload(u) ==
    /\ \/ state[u] \in Open \cup {"received"} /\ Cancelled(u)
       \/ state[u] = "cancelled" /\ UNCHANGED rows
    /\ Removed(u)
    /\ UNCHANGED <<expired, hooks>>

-----------------------------------------------------------------------------
TusStep(u) ==
    \/ CreateUpload(u) \/ PatchWrites(u) \/ PatchBreaks(u)
    \/ \E n \in 1..Chunk : PatchBegins(u, n)
    \/ TerminateBegins(u) \/ TerminateEnds(u)

UploadNext ==
    \/ \E u \in Ids :
        \/ \E n \in Sizes : AuthorizeUpload(u, n)
        \/ Expire(u) \/ CancelUpload(u) \/ TusStep(u)
    \/ \E h \in hooks : HookArrives(h) \/ HookEnds(h)

UploadSpec == UploadInit /\ [][UploadNext]_uploadVars

-----------------------------------------------------------------------------
(* Properties *)

\* An upload that ended without having been received, and what others were
\* promised: the rest of the files of the uploads that may go on.
Ended == {u \in Ids : state[u] = "cancelled" \/ (expired[u] /\ state[u] # "received")}

Live == {u \in Ids : state[u] \in Open} \ Ended

Promised == Cardinality(Blocks([u \in Ids |-> offset[u] + 1..declared[u]], Live))

\* However uploads are authorized, written, cancelled and let expire side by
\* side, the disk has room for the rest of every upload that may go on, and the
\* reserve beyond that -- but for one chunk of each upload that ended while a
\* PATCH was writing (reserved_bytes in authorizeUpload; authorizeTusRequest).
SpaceIsKept == Free + Chunk * Cardinality(Ended) >= Promised + Reserve

\* An upload becomes one film at most, and only when all of it was written,
\* whatever order the hooks come in and however often (handleTusHook,
\* completeUpload).
OneFilmPerUpload ==
    \A u \in Ids : films[u] <= 1 /\ (films[u] = 1 => offset[u] = declared[u])

\* A late hook does not revive an upload: what was received stays received, with
\* all its bytes, unless it is cancelled, and what was cancelled stays so.
NoRevival ==
    [][\A u \in Ids :
        /\ state[u] = "received" =>
            \/ state'[u] = "received" /\ received'[u] = declared[u]
            \/ state'[u] = "cancelled"
        /\ state[u] = "cancelled" => state'[u] = "cancelled"]_uploadVars
=============================================================================
