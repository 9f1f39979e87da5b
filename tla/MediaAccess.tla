----------------------------- MODULE MediaAccess -----------------------------
(***************************************************************************)
(* What the members of a room can hear and see, and how it is taken away   *)
(* from them: media tokens and session rows (transport-service.ts), the    *)
(* revocations of room-service.ts and auth-service.ts, the service outbox  *)
(* (outbox-service.ts, outbox-routes.ts), and the worker that carries it   *)
(* out and reconciles the voice room (worker/src/main.ts,                  *)
(* process-outbox.ts).  MediaMTX and LiveKit are external: they admit who  *)
(* shows a good token and drop whom they are told to drop.                 *)
(*                                                                         *)
(* Abstractions.                                                           *)
(*  - one room, and its viewers: a member id is new for every time an      *)
(*    account enters, so it is active once.                                *)
(*  - a token that expired or was revoked is a token that is gone; the     *)
(*    voice tokens of LiveKit can only expire.                             *)
(*  - an outbox item that was completed is never read again and is gone.   *)
(*  - the API answers one request at a time; the worker is one process,    *)
(*    whose calls may fail, and may arrive when it has given them up.      *)
(***************************************************************************)
EXTENDS Naturals, FiniteSets, Sequences

CONSTANTS
    Members,     \* member ids
    Speakers,    \* the members who turn their microphone on
    Ids,         \* ids of MediaMTX sessions
    Leases,      \* lease tokens of the outbox
    MaxKick,     \* the most session ids that a kick item may have
    MaxItems,    \* bound: the items in the outbox
    All,         \* the member id of an item that closes a whole room
    None

ASSUME AccessAssumption ==
    /\ IsFiniteSet(Members)
    /\ Speakers \subseteq Members
    /\ All \notin Members
    /\ None \notin Members \cup Ids \cup Leases
    /\ MaxKick \in Nat /\ MaxItems \in Nat

VARIABLES
    open,        \* rooms.status = 'active'
    status,      \* room_members, and which handler ended the membership
    signing,     \* members whose token request awaits its signature
    tokens,      \* members with a good row in token_jti
    session,     \* MediaMTX sessions, and their rows in media_transport_sessions
    outbox,      \* service_outbox, oldest first
    worker,      \* what the worker is doing
    calls,       \* its completions and failures on their way to the API
    voice,       \* the participants of the LiveKit room
    voiceTokens, \* members with a good token for it
    hooks        \* participant_joined events on their way

vars == <<open, status, signing, tokens, session, outbox, worker, calls, voice,
          voiceTokens, hooks>>
memberVars == <<open, status, signing, tokens, session>>
voiceVars == <<voice, voiceTokens, hooks>>

MemberStatus == {"absent", "active", "left", "kicked", "closed", "dropped"}

\* connected: at MediaMTX; listed: the row has no closed_at.
Session == [member : Members, connected : BOOLEAN, listed : BOOLEAN]

ASSUME RowAssumption == None \notin Session

\* todo: the sessions to kick, or the participant to remove.  A lease that ran
\* out is overdue: it can be claimed again, but its token is still good.
Item ==
    [kind : {"kick", "remove"}, member : Members \cup {All}, todo : SUBSET (Ids \cup Members),
     state : {"due", "later", "leased", "overdue"}, lease : Leases \cup {None}]

Call == [lease : Leases, verdict : {"complete", "fail"}]

Idle == [task |-> "idle"]
Work ==
    {Idle} \cup
    [task : {"item"}, kind : {"kick", "remove"}, lease : Leases, todo : SUBSET (Ids \cup Members)] \cup
    [task : {"sent"}, lease : Leases, verdict : {"complete", "fail"}] \cup
    [task : {"list"}, active : SUBSET Members] \cup
    [task : {"clear"}, todo : SUBSET Members]

\* Every table, message and worker state keeps its type; in particular an item
\* is leased exactly when it has a token.
TypeOK ==
    /\ open \in BOOLEAN
    /\ status \in [Members -> MemberStatus]
    /\ signing \subseteq Members
    /\ tokens \subseteq Members
    /\ session \in [Ids -> Session \cup {None}]
    /\ outbox \in Seq(Item)
    /\ \A i \in DOMAIN outbox :
           outbox[i].lease # None <=> outbox[i].state \in {"leased", "overdue"}
    /\ worker \in Work
    /\ calls \subseteq Call
    /\ voice \subseteq Members
    /\ voiceTokens \subseteq Members
    /\ hooks \subseteq Members

Active == {m \in Members : status[m] = "active"}

(***************************************************************************)
(* Credentials and sessions                                                *)
(***************************************************************************)

Enter(m) ==
    /\ open /\ status[m] = "absent"
    /\ status' = [status EXCEPT ![m] = "active"]
    /\ UNCHANGED <<open, signing, tokens, session, outbox, worker, calls>>
    /\ UNCHANGED voiceVars

\* issueCredential("whep") checks the member, then awaits the signature ...
IssueTokenBegin(m) ==
    /\ m \in Active
    /\ signing' = signing \cup {m}
    /\ UNCHANGED <<open, status, tokens, session, outbox, worker, calls>>
    /\ UNCHANGED voiceVars

\* ... and records the token, whatever has happened to the member meanwhile.
IssueTokenFinish(m) ==
    /\ m \in signing
    /\ signing' = signing \ {m}
    /\ tokens' = tokens \cup {m}
    /\ UNCHANGED <<open, status, session, outbox, worker, calls>>
    /\ UNCHANGED voiceVars

ExpireToken(m) ==
    /\ m \in tokens
    /\ tokens' = tokens \ {m}
    /\ UNCHANGED <<open, status, signing, session, outbox, worker, calls>>
    /\ UNCHANGED voiceVars

\* authorizeMedia lets a session of MediaMTX begin and records it.
AuthorizeMedia(m, id) ==
    /\ m \in tokens /\ m \in Active
    /\ session[id] = None
    /\ session' = [session EXCEPT ![id] = [member |-> m, connected |-> TRUE, listed |-> TRUE]]
    /\ UNCHANGED <<open, status, signing, tokens, outbox, worker, calls>>
    /\ UNCHANGED voiceVars

\* The viewer disconnects: nobody tells the API, the row stays.
Hangup(id) ==
    /\ session[id] # None /\ session[id].connected
    /\ session' = [session EXCEPT ![id].connected = FALSE]
    /\ UNCHANGED <<open, status, signing, tokens, outbox, worker, calls>>
    /\ UNCHANGED voiceVars

IssueVoice(m) ==
    /\ m \in Active \cap Speakers
    /\ voiceTokens' = voiceTokens \cup {m}
    /\ UNCHANGED <<outbox, worker, calls, voice, hooks>>
    /\ UNCHANGED memberVars

ExpireVoice(m) ==
    /\ m \in voiceTokens
    /\ voiceTokens' = voiceTokens \ {m}
    /\ UNCHANGED <<outbox, worker, calls, voice, hooks>>
    /\ UNCHANGED memberVars

JoinVoice(m) ==
    /\ m \in voiceTokens \ voice
    /\ voice' = voice \cup {m}
    /\ hooks' = hooks \cup {m}
    /\ UNCHANGED <<outbox, worker, calls, voiceTokens>>
    /\ UNCHANGED memberVars

LeaveVoice(m) ==
    /\ m \in voice
    /\ voice' = voice \ {m}
    /\ UNCHANGED <<outbox, worker, calls, voiceTokens, hooks>>
    /\ UNCHANGED memberVars

(***************************************************************************)
(* Revocations                                                             *)
(***************************************************************************)

NewItem(kind, m, todo) ==
    [kind |-> kind, member |-> m, todo |-> todo, state |-> "due", lease |-> None]

\* Bound: a step that would overfill the outbox does not happen.
Enqueue(items) ==
    /\ Len(outbox) + Len(items) <= MaxItems
    /\ outbox' = outbox \o items

ListedOf(M) == {id \in Ids : session[id] # None /\ session[id].listed /\ session[id].member \in M}

KickIfAny(m, ids) == IF ids = {} THEN <<>> ELSE <<NewItem("kick", m, ids)>>

\* Another device takes the seat over: revokeMediaForTakeover.
TakeOver(m) ==
    /\ m \in Active
    /\ tokens' = tokens \ {m}
    /\ Enqueue(KickIfAny(m, ListedOf({m})))
    /\ UNCHANGED <<open, status, signing, session, worker, calls>>
    /\ UNCHANGED voiceVars

\* leave, logout and kickMember: revokeRealtimeAccess.
Remove(m, how) ==
    /\ m \in Active
    /\ status' = [status EXCEPT ![m] = how]
    /\ tokens' = tokens \ {m}
    /\ Enqueue(<<NewItem("kick", m, ListedOf({m})), NewItem("remove", m, {m})>>)
    /\ UNCHANGED <<open, signing, session, worker, calls>>
    /\ UNCHANGED voiceVars

\* manageAccount: the account CLI, for a viewer.
ManageAccount(m) ==
    /\ m \in Active
    /\ status' = [status EXCEPT ![m] = "left"]
    /\ tokens' = tokens \ {m}
    /\ Enqueue(KickIfAny(m, ListedOf({m})) \o <<NewItem("remove", m, {m})>>)
    /\ UNCHANGED <<open, signing, session, worker, calls>>
    /\ UNCHANGED voiceVars

\* closeRoomInternal
CloseRoom ==
    /\ open
    /\ open' = FALSE
    /\ status' = [m \in Members |-> IF m \in Active THEN "closed" ELSE status[m]]
    /\ tokens' = {}
    /\ \E q \in [1 .. Cardinality(Active) -> Active] :
           /\ \A m \in Active : \E i \in DOMAIN q : q[i] = m
           /\ Enqueue(KickIfAny(All, ListedOf(Members)) \o
                      [i \in DOMAIN q |-> NewItem("remove", q[i], {q[i]})])
    /\ UNCHANGED <<signing, session, worker, calls>>
    /\ UNCHANGED voiceVars

\* provisionAccounts only writes its tables; rows and tokens of the members of
\* the room that it closes are marked as gone.
ProvisionAccounts ==
    /\ open
    /\ open' = FALSE
    /\ status' = [m \in Members |-> IF m \in Active THEN "dropped" ELSE status[m]]
    /\ tokens' = {}
    /\ session' = [id \in Ids |-> IF session[id] = None THEN None
                                  ELSE [session[id] EXCEPT !.listed = FALSE]]
    /\ UNCHANGED <<signing, outbox, worker, calls>>
    /\ UNCHANGED voiceVars

(***************************************************************************)
(* The outbox, on the side of the API                                      *)
(***************************************************************************)

Claimable(e) == e.state \in {"due", "overdue"}

\* The oldest item that is due, or whose lease has run out.
Claim(l) ==
    /\ worker.task = "idle"
    /\ \A e \in {outbox[i] : i \in DOMAIN outbox} : e.lease # l
    /\ \A c \in calls : c.lease # l                    \* a fresh token
    /\ \E i \in DOMAIN outbox :
           /\ Claimable(outbox[i])
           /\ \A j \in 1 .. i - 1 : ~Claimable(outbox[j])
           /\ outbox' = [outbox EXCEPT ![i].state = "leased", ![i].lease = l]
           /\ worker' = [task |-> "item", kind |-> outbox[i].kind, lease |-> l,
                         todo |-> outbox[i].todo]
    /\ UNCHANGED <<calls, voice, voiceTokens, hooks>>
    /\ UNCHANGED memberVars

Without(i) == [j \in 1 .. Len(outbox) - 1 |-> IF j < i THEN outbox[j] ELSE outbox[j + 1]]

\* requireLease
Holds(l, i) == i \in DOMAIN outbox /\ outbox[i].lease = l

\* complete: the rows of the member's sessions are closed, whichever they are.
Complete(l) ==
    \E i \in DOMAIN outbox :
        /\ Holds(l, i)
        /\ outbox' = Without(i)
        /\ session' = [id \in Ids |->
               IF outbox[i].kind = "kick" /\ id \in ListedOf({outbox[i].member})
               THEN [session[id] EXCEPT !.listed = FALSE] ELSE session[id]]

\* Mutant: the lease token is not reset.
FailKeepingLease(l) ==
    \E i \in DOMAIN outbox :
        /\ Holds(l, i)
        /\ outbox' = [outbox EXCEPT ![i].state = "later"]
        /\ UNCHANGED session

\* fail: the item waits for a while.
Fail(l) ==
    \E i \in DOMAIN outbox :
        /\ Holds(l, i)
        /\ outbox' = [outbox EXCEPT ![i].state = "later", ![i].lease = None]
        /\ UNCHANGED session

\* A call of the worker arrives; without a good lease it is refused.
ReceiveCall(c) ==
    /\ c \in calls
    /\ calls' = calls \ {c}
    /\ \/ c.verdict = "complete" /\ Complete(c.lease)
       \/ c.verdict = "fail" /\ Fail(c.lease)
       \/ /\ \A i \in DOMAIN outbox : ~Holds(c.lease, i)
          /\ UNCHANGED <<outbox, session>>
    /\ UNCHANGED <<open, status, signing, tokens, worker>>
    /\ UNCHANGED voiceVars

LoseCall(c) ==
    /\ c \in calls
    /\ calls' = calls \ {c}
    /\ UNCHANGED <<outbox, worker, voice, voiceTokens, hooks>>
    /\ UNCHANGED memberVars

\* Time passes: a lease runs out, or the delay of a failed item is over.
ItemTime(i) ==
    /\ i \in DOMAIN outbox
    /\ outbox[i].state \in {"leased", "later"}
    /\ outbox' = [outbox EXCEPT ![i].state = IF @ = "leased" THEN "overdue" ELSE "due"]
    /\ UNCHANGED <<worker, calls, voice, voiceTokens, hooks>>
    /\ UNCHANGED memberVars

\* The webhook: a participant whose member is not active has to go again.
ReceiveHook(m) ==
    /\ m \in hooks
    /\ hooks' = hooks \ {m}
    /\ IF open /\ m \in Active THEN UNCHANGED outbox ELSE Enqueue(<<NewItem("remove", m, {m})>>)
    /\ UNCHANGED <<worker, calls, voice, voiceTokens>>
    /\ UNCHANGED memberVars

LoseHook(m) ==
    /\ m \in hooks
    /\ hooks' = hooks \ {m}
    /\ UNCHANGED <<outbox, worker, calls, voice, voiceTokens>>
    /\ UNCHANGED memberVars

(***************************************************************************)
(* The worker                                                              *)
(***************************************************************************)

TooLong == worker.kind = "kick" /\ Cardinality(worker.todo) > MaxKick

\* One call to MediaMTX or LiveKit; what is gone already counts as done.
CarryOut(x) ==
    /\ worker.task = "item" /\ ~TooLong
    /\ x \in worker.todo
    /\ worker' = [worker EXCEPT !.todo = @ \ {x}]
    /\ IF worker.kind = "kick"
       THEN /\ session' = [session EXCEPT ![x].connected = FALSE]
            /\ UNCHANGED voice
       ELSE /\ voice' = voice \ {x}
            /\ UNCHANGED session
    /\ UNCHANGED <<open, status, signing, tokens, outbox, calls, voiceTokens, hooks>>

Send(verdict) ==
    /\ calls' = calls \cup {[lease |-> worker.lease, verdict |-> verdict]}
    /\ worker' = [task |-> "sent", lease |-> worker.lease, verdict |-> verdict]

\* Mutant: the answer is sent without waiting for the calls.
ReportEarly ==
    /\ \/ worker.task = "item" /\ ~TooLong /\ Send("complete")
       \/ worker.task = "item" /\ (TooLong \/ worker.todo # {}) /\ Send("fail")
       \/ worker.task = "sent" /\ worker.verdict = "complete" /\ Send("fail")
    /\ UNCHANGED <<outbox, voice, voiceTokens, hooks>>
    /\ UNCHANGED memberVars

\* The payload does not parse, a call fails, or all are done; a completion
\* whose answer is an error is followed by a failure.
Report ==
    /\ \/ worker.task = "item" /\ ~TooLong /\ worker.todo = {} /\ Send("complete")
       \/ worker.task = "item" /\ (TooLong \/ worker.todo # {}) /\ Send("fail")
       \/ worker.task = "sent" /\ worker.verdict = "complete" /\ Send("fail")
    /\ UNCHANGED <<outbox, voice, voiceTokens, hooks>>
    /\ UNCHANGED memberVars

\* The call was answered, or has failed.
NextRound ==
    /\ worker.task = "sent"
    /\ worker' = Idle
    /\ UNCHANGED <<outbox, calls, voice, voiceTokens, hooks>>
    /\ UNCHANGED memberVars

\* The process is restarted, or a step of the reconciliation fails.
WorkerRestart ==
    /\ worker.task # "idle"
    /\ worker' = Idle
    /\ UNCHANGED <<outbox, calls, voice, voiceTokens, hooks>>
    /\ UNCHANGED memberVars

\* Mutant: only an active room is in the snapshot.
ReconcileActiveRoom ==
    /\ worker.task = "idle"
    /\ open
    /\ worker' = [task |-> "list", active |-> Active]
    /\ UNCHANGED <<outbox, calls, voice, voiceTokens, hooks>>
    /\ UNCHANGED memberVars

\* Every 15 seconds: the members that may be in the voice room; a closed room
\* has none ...
ReconcileBegin ==
    /\ worker.task = "idle"
    /\ worker' = [task |-> "list", active |-> Active]
    /\ UNCHANGED <<outbox, calls, voice, voiceTokens, hooks>>
    /\ UNCHANGED memberVars

\* ... then the participants that are in it ...
ReconcileList ==
    /\ worker.task = "list"
    /\ worker' = [task |-> "clear", todo |-> voice \ worker.active]
    /\ UNCHANGED <<outbox, calls, voice, voiceTokens, hooks>>
    /\ UNCHANGED memberVars

\* ... and one call for each that should not be; a participant who has gone
\* by himself is an error here, which ends the round.
ReconcileRemove(m) ==
    /\ worker.task = "clear" /\ m \in worker.todo
    /\ voice' = voice \ {m}
    /\ worker' = IF m \in voice THEN [worker EXCEPT !.todo = @ \ {m}] ELSE Idle
    /\ UNCHANGED <<outbox, calls, voiceTokens, hooks>>
    /\ UNCHANGED memberVars

ReconcileEnd ==
    /\ worker.task = "clear" /\ worker.todo = {}
    /\ worker' = Idle
    /\ UNCHANGED <<outbox, calls, voice, voiceTokens, hooks>>
    /\ UNCHANGED memberVars

(***************************************************************************)
(* The specification                                                       *)
(***************************************************************************)

Init ==
    /\ open = TRUE
    /\ status = [m \in Members |-> "absent"]
    /\ signing = {}
    /\ tokens = {}
    /\ session = [id \in Ids |-> None]
    /\ outbox = <<>>
    /\ worker = Idle
    /\ calls = {}
    /\ voice = {}
    /\ voiceTokens = {}
    /\ hooks = {}

MemberStep(m) ==
    \/ Enter(m) \/ IssueTokenBegin(m) \/ IssueTokenFinish(m) \/ ExpireToken(m)
    \/ \E id \in Ids : AuthorizeMedia(m, id)
    \/ IssueVoice(m) \/ ExpireVoice(m) \/ JoinVoice(m) \/ LeaveVoice(m)
    \/ TakeOver(m) \/ ManageAccount(m)
    \/ \E how \in {"left", "kicked"} : Remove(m, how)
    \/ ReceiveHook(m) \/ LoseHook(m)

WorkerStep == (\E x \in Ids \cup Members : CarryOut(x)) \/ Report \/ NextRound

Next ==
    \/ \E m \in Members : MemberStep(m)
    \/ \E id \in Ids : Hangup(id)
    \/ CloseRoom \/ ProvisionAccounts
    \/ \E l \in Leases : Claim(l)
    \/ \E c \in calls : ReceiveCall(c) \/ LoseCall(c)
    \/ \E i \in 1 .. MaxItems : ItemTime(i)
    \/ WorkerStep \/ WorkerRestart
    \/ ReconcileBegin \/ ReconcileList \/ ReconcileEnd
    \/ \E m \in Members : ReconcileRemove(m)

Spec == Init /\ [][Next]_vars

\* Voice tokens run out after two minutes.  The worker loops for ever, and asks
\* for the snapshot whenever 15 seconds have passed; it may be restarted, and
\* its calls may fail, but not at the same point each time.
Fairness ==
    /\ WF_vars(WorkerStep) /\ WF_vars(ReconcileEnd)
    /\ SF_vars(ReconcileBegin) /\ SF_vars(ReconcileList)
    /\ \A m \in Members : WF_vars(ExpireVoice(m)) /\ SF_vars(ReconcileRemove(m))

FairSpec == Spec /\ Fairness

(***************************************************************************)
(* What must hold                                                          *)
(***************************************************************************)

\* A kick is not forgotten half-way: however often the worker is restarted,
\* its lease runs out or an answer of an earlier attempt comes late, an item is
\* completed only when every session that it names has been disconnected.
KicksAreCarriedOut ==
    [][\A i \in DOMAIN outbox :
          outbox[i].kind = "kick" /\ Len(outbox') < Len(outbox) /\ outbox' = Without(i) =>
              \A id \in outbox[i].todo : ~session[id].connected]_vars

\* Who is no longer a member is heard no more: although tokens for the voice
\* room cannot be revoked, and whether or not items and webhooks get through,
\* a participant whose membership has ended is in the end out for good.
VoiceIsCleared ==
    \A m \in Members :
        status[m] \notin {"absent", "active"} ~> [](m \notin voice)

\* A kicked member is cut off: as long as one of its sessions is connected,
\* there is an item that will disconnect it.
KickedMemberIsCutOff ==
    \A id \in Ids :
        session[id] # None /\ session[id].connected /\ status[session[id].member] = "kicked" =>
            \E i \in DOMAIN outbox : outbox[i].kind = "kick" /\ id \in outbox[i].todo
=============================================================================
