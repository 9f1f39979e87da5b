-------------------------- MODULE MediaAccess_proofs --------------------------
(***************************************************************************)
(* Proofs about MediaAccess, for any members, sessions, lease tokens and   *)
(* any limit on the ids of a kick item.                                    *)
(*                                                                         *)
(* That a kick is completed only when it was carried out is spread over    *)
(* two processes.  The strengthening KickInv follows the lease token: an   *)
(* item has at most one, which no other item has; the worker that holds    *)
(* the token of a kick has disconnected whatever is not on its list any    *)
(* more; and so has the worker that sent a completion still on its way.    *)
(***************************************************************************)
EXTENDS MediaAccess, FiniteSetTheorems, SequenceTheorems, TLAPS

USE AccessAssumption, RowAssumption

Gone(id) == id \in Ids /\ session[id] # None /\ ~session[id].connected

LeasesAreUnique ==
    \A i, j \in DOMAIN outbox :
        outbox[i].lease # None /\ outbox[i].lease = outbox[j].lease => i = j

KicksNameSessions ==
    \A i \in DOMAIN outbox :
        outbox[i].kind = "kick" => \A id \in outbox[i].todo : id \in Ids /\ session[id] # None

WorkerKeepsCount ==
    worker.task = "item" =>
        /\ worker.kind = "kick" => \A id \in worker.todo : id \in Ids /\ session[id] # None
        /\ \A i \in DOMAIN outbox :
               outbox[i].lease = worker.lease =>
                   /\ outbox[i].kind = worker.kind
                   /\ worker.kind = "kick" => \A id \in outbox[i].todo \ worker.todo : Gone(id)

CompletionsAreTrue ==
    \A c \in calls : c.verdict = "complete" =>
        \A i \in DOMAIN outbox :
            outbox[i].lease = c.lease /\ outbox[i].kind = "kick" =>
                \A id \in outbox[i].todo : Gone(id)

KickInv == LeasesAreUnique /\ KicksNameSessions /\ WorkerKeepsCount /\ CompletionsAreTrue

(***************************************************************************)
(* What the steps do to the outbox and to the sessions                     *)
(***************************************************************************)

\* An item as a handler of the API inserts it.
Fresh(e) ==
    /\ e \in Item /\ e.lease = None /\ e.state = "due"
    /\ e.kind = "kick" => \A id \in e.todo : id \in Ids /\ session[id] # None

\* Items keep their place, their contents, and their lease or lose it.
OutboxGrows ==
    \A i \in DOMAIN outbox' :
        \/ /\ i \in DOMAIN outbox
           /\ outbox'[i].kind = outbox[i].kind /\ outbox'[i].todo = outbox[i].todo
           /\ outbox'[i].lease \in {outbox[i].lease, None}
        \/ Fresh(outbox'[i])

\* A session that was disconnected does not come back.
SessionsEnd ==
    \A id \in Ids : session[id] # None =>
        /\ session'[id] # None
        /\ ~session[id].connected => ~session'[id].connected

\* Inserting fresh items keeps the outbox well formed.
LEMMA EnqueueGrows ==
  ASSUME TypeOK, NEW items \in Seq(Item), \A k \in DOMAIN items : Fresh(items[k]),
         Enqueue(items)
  PROVE  /\ outbox' \in Seq(Item)
         /\ \A i \in DOMAIN outbox' :
                outbox'[i].lease # None <=> outbox'[i].state \in {"leased", "overdue"}
         /\ OutboxGrows
<1>1. outbox \in Seq(Item) /\ outbox' = outbox \o items
  BY DEF TypeOK, Enqueue
<1>2. outbox' \in Seq(Item) /\ Len(outbox') = Len(outbox) + Len(items)
  BY <1>1, ConcatProperties
<1>3. \A i \in DOMAIN outbox' :
          \/ i \in DOMAIN outbox /\ outbox'[i] = outbox[i]
          \/ Fresh(outbox'[i])
  <2> SUFFICES ASSUME NEW i \in DOMAIN outbox',
                      ~(i \in DOMAIN outbox /\ outbox'[i] = outbox[i])
               PROVE  Fresh(outbox'[i])
    OBVIOUS
  <2>1. i \in 1 .. Len(outbox) + Len(items) /\ i > Len(outbox)
    BY <1>1, <1>2
  <2>2. i - Len(outbox) \in DOMAIN items /\ outbox'[i] = items[i - Len(outbox)]
    BY <1>1, <1>2, <2>1
  <2> QED BY <2>2
<1>4. \A i \in DOMAIN outbox' :
          outbox'[i].lease # None <=> outbox'[i].state \in {"leased", "overdue"}
  BY <1>3 DEF TypeOK, Fresh
<1>5. OutboxGrows
  BY <1>3 DEF OutboxGrows
<1> QED BY <1>2, <1>4, <1>5

\* The items that revocations write.
LEMMA NewItemsAreFresh ==
  ASSUME NEW M, NEW m \in Members
  PROVE  /\ Fresh(NewItem("kick", m, ListedOf(M)))
         /\ Fresh(NewItem("kick", All, ListedOf(M)))
         /\ Fresh(NewItem("remove", m, {m}))
  BY DEF Fresh, NewItem, ListedOf, Item

\* A step that only lets the outbox grow and sessions end keeps KickInv.
LEMMA GrowingKeepsKickInv ==
  ASSUME TypeOK, KickInv, OutboxGrows, SessionsEnd,
         worker' = worker \/ worker'.task # "item", calls' \subseteq calls
  PROVE  KickInv'
<1> USE DEF OutboxGrows, Fresh
<1>1. LeasesAreUnique'
  BY DEF KickInv, LeasesAreUnique
<1>2. KicksNameSessions'
  BY DEF KickInv, KicksNameSessions, SessionsEnd
<1>3. \A id : Gone(id) => Gone(id)'
  BY DEF Gone, SessionsEnd
<1>4. WorkerKeepsCount'
  <2> SUFFICES ASSUME worker' = worker, worker.task = "item",
                      NEW i \in DOMAIN outbox', outbox'[i].lease = worker.lease
               PROVE  /\ outbox'[i].kind = worker.kind
                      /\ worker.kind = "kick" =>
                             \A id \in outbox'[i].todo \ worker.todo : Gone(id)'
    BY DEF KickInv, WorkerKeepsCount, SessionsEnd
  <2>1. worker.lease \in Leases
    BY DEF TypeOK, Work, Idle
  <2>2. i \in DOMAIN outbox /\ outbox[i].lease = worker.lease
        /\ outbox'[i].kind = outbox[i].kind /\ outbox'[i].todo = outbox[i].todo
    BY <2>1
  <2> QED BY <2>2, <1>3 DEF KickInv, WorkerKeepsCount
<1>5. CompletionsAreTrue'
  <2> SUFFICES ASSUME NEW c \in calls, c.verdict = "complete", NEW i \in DOMAIN outbox',
                      outbox'[i].lease = c.lease, outbox'[i].kind = "kick",
                      NEW id \in outbox'[i].todo
               PROVE  Gone(id)'
    BY DEF CompletionsAreTrue
  <2>1. c.lease \in Leases
    BY DEF TypeOK, Call
  <2>2. i \in DOMAIN outbox /\ outbox[i].lease = c.lease
        /\ outbox'[i].kind = outbox[i].kind /\ outbox'[i].todo = outbox[i].todo
    BY <2>1
  <2> QED BY <2>2, <1>3 DEF KickInv, CompletionsAreTrue
<1> QED BY <1>1, <1>2, <1>4, <1>5 DEF KickInv

(***************************************************************************)
(* Types and KickInv, one group of actions at a time                       *)
(***************************************************************************)

Inv == TypeOK /\ KickInv

\* Members come and go, tokens and participants with them; no revocation.
LEMMA MembersKeepInv ==
  ASSUME Inv, NEW m \in Members,
         \/ Enter(m) \/ IssueTokenBegin(m) \/ IssueTokenFinish(m) \/ ExpireToken(m)
         \/ \E id \in Ids : AuthorizeMedia(m, id)
         \/ IssueVoice(m) \/ ExpireVoice(m) \/ JoinVoice(m) \/ LeaveVoice(m) \/ LoseHook(m)
  PROVE  Inv'
<1> USE DEF memberVars, voiceVars
<1>1. /\ outbox' = outbox /\ worker' = worker /\ calls' = calls
      /\ SessionsEnd
  BY DEF Inv, TypeOK, SessionsEnd, Session, Enter, IssueTokenBegin, IssueTokenFinish, ExpireToken,
         AuthorizeMedia, IssueVoice, ExpireVoice, JoinVoice, LeaveVoice, LoseHook
<1>2. OutboxGrows
  BY <1>1 DEF OutboxGrows
<1>3. KickInv'
  BY <1>1, <1>2, GrowingKeepsKickInv DEF Inv
<1>4. TypeOK'
  <2>1. session' \in [Ids -> Session \cup {None}]
    <3>1. CASE \E id \in Ids : AuthorizeMedia(m, id)
      <4> PICK id \in Ids : AuthorizeMedia(m, id)
        BY <3>1
      <4>1. [member |-> m, connected |-> TRUE, listed |-> TRUE] \in Session
        BY DEF Session
      <4> HIDE DEF Session
      <4> QED BY <4>1 DEF Inv, TypeOK, AuthorizeMedia
    <3>2. CASE session' = session
      BY <3>2 DEF Inv, TypeOK
    <3> QED
      BY <3>1, <3>2 DEF Enter, IssueTokenBegin, IssueTokenFinish, ExpireToken,
           IssueVoice, ExpireVoice, JoinVoice, LeaveVoice, LoseHook
  <2>2. /\ open' \in BOOLEAN /\ status' \in [Members -> MemberStatus]
        /\ signing' \subseteq Members /\ tokens' \subseteq Members
        /\ voice' \subseteq Members /\ voiceTokens' \subseteq Members /\ hooks' \subseteq Members
    BY DEF Inv, TypeOK, MemberStatus, Enter, IssueTokenBegin, IssueTokenFinish, ExpireToken,
           AuthorizeMedia, IssueVoice, ExpireVoice, JoinVoice, LeaveVoice, LoseHook
  <2> QED BY <1>1, <2>1, <2>2 DEF Inv, TypeOK
<1> QED BY <1>3, <1>4 DEF Inv

\* An optional kick item is a sequence of fresh items.
LEMMA KickIfAnyIsFresh ==
  ASSUME NEW M, NEW m \in Members \cup {All}
  PROVE  /\ KickIfAny(m, ListedOf(M)) \in Seq(Item)
         /\ \A k \in DOMAIN KickIfAny(m, ListedOf(M)) : Fresh(KickIfAny(m, ListedOf(M))[k])
<1>1. Fresh(NewItem("kick", m, ListedOf(M)))
  BY DEF Fresh, NewItem, ListedOf, Item
<1>2. CASE ListedOf(M) = {}
  BY <1>2 DEF KickIfAny
<1>3. CASE ListedOf(M) # {}
  <2>1. KickIfAny(m, ListedOf(M)) = <<NewItem("kick", m, ListedOf(M))>>
    BY <1>3 DEF KickIfAny
  <2> QED BY <1>1, <2>1 DEF Fresh
<1> QED BY <1>2, <1>3

\* The items of two sequences are fresh if those of each are.
LEMMA FreshConcat ==
  ASSUME NEW s \in Seq(Item), NEW t \in Seq(Item),
         \A k \in DOMAIN s : Fresh(s[k]), \A k \in DOMAIN t : Fresh(t[k])
  PROVE  s \o t \in Seq(Item) /\ \A k \in DOMAIN (s \o t) : Fresh((s \o t)[k])
<1>1. /\ s \o t \in Seq(Item) /\ Len(s \o t) = Len(s) + Len(t)
      /\ \A i \in 1 .. Len(s) + Len(t) :
             (s \o t)[i] = IF i <= Len(s) THEN s[i] ELSE t[i - Len(s)]
  BY ConcatProperties
<1> SUFFICES ASSUME NEW k \in 1 .. Len(s) + Len(t) PROVE Fresh((s \o t)[k])
  BY <1>1
<1>2. CASE k <= Len(s)
  BY <1>1, <1>2
<1>3. CASE k > Len(s)
  <2>1. k - Len(s) \in DOMAIN t
    BY <1>3
  <2> QED BY <1>1, <1>3, <2>1
<1> QED BY <1>2, <1>3

\* The items that a revocation or a webhook writes, whichever it is, are fresh.
Revocation ==
    \/ \E m \in Members : TakeOver(m) \/ ManageAccount(m) \/ ReceiveHook(m)
    \/ \E m \in Members, how \in {"left", "kicked"} : Remove(m, how)
    \/ CloseRoom

LEMMA RevocationsAreFresh ==
  ASSUME Inv, Revocation
  PROVE  \E items \in Seq(Item) :
             /\ \A k \in DOMAIN items : Fresh(items[k])
             /\ outbox' = outbox \/ Enqueue(items)
<1>1. ASSUME NEW m \in Members, TakeOver(m) PROVE Enqueue(KickIfAny(m, ListedOf({m})))
  BY <1>1 DEF TakeOver
<1>2. ASSUME NEW m \in Members
      PROVE  /\ <<NewItem("remove", m, {m})>> \in Seq(Item)
             /\ \A k \in DOMAIN <<NewItem("remove", m, {m})>> :
                    Fresh(<<NewItem("remove", m, {m})>>[k])
  BY NewItemsAreFresh DEF Fresh
<1>3. CASE \E m \in Members : TakeOver(m)
  BY <1>1, <1>3, KickIfAnyIsFresh
<1>4. CASE \E m \in Members : ManageAccount(m)
  BY <1>2, <1>4, KickIfAnyIsFresh, FreshConcat DEF ManageAccount
<1>5. CASE \E m \in Members : ReceiveHook(m)
  BY <1>2, <1>5 DEF ReceiveHook
<1>6. CASE \E m \in Members, how \in {"left", "kicked"} : Remove(m, how)
  <2> PICK m \in Members, how \in {"left", "kicked"} : Remove(m, how)
    BY <1>6
  <2> DEFINE items == <<NewItem("kick", m, ListedOf({m})), NewItem("remove", m, {m})>>
  <2>1. items \in Seq(Item) /\ \A k \in DOMAIN items : Fresh(items[k])
    BY NewItemsAreFresh DEF Fresh
  <2>2. Enqueue(items)
    BY DEF Remove
  <2> QED BY <2>1, <2>2
<1>7. CASE CloseRoom
  <2>1. PICK q \in [1 .. Cardinality(Active) -> Active] :
             Enqueue(KickIfAny(All, ListedOf(Members)) \o
                     [i \in DOMAIN q |-> NewItem("remove", q[i], {q[i]})])
    BY <1>7 DEF CloseRoom
  <2> DEFINE r == [i \in DOMAIN q |-> NewItem("remove", q[i], {q[i]})]
  <2>2. Cardinality(Active) \in Nat
    BY FS_Subset, FS_CardinalityType DEF Active
  <2>3. r \in Seq(Item) /\ \A k \in DOMAIN r : Fresh(r[k])
    <3>1. \A k \in 1 .. Cardinality(Active) : q[k] \in Members
      BY DEF Active
    <3>2. \A k \in 1 .. Cardinality(Active) : Fresh(r[k])
      BY <3>1, NewItemsAreFresh
    <3>3. r \in [1 .. Cardinality(Active) -> Item]
      BY <3>2 DEF Fresh
    <3>4. r \in Seq(Item)
      BY ZenonT(30), <2>2, <3>3, SeqDef
    <3>5. DOMAIN r = 1 .. Cardinality(Active)
      BY <3>3
    <3> HIDE DEF r
    <3> QED BY <3>2, <3>4, <3>5
  <2>4. /\ KickIfAny(All, ListedOf(Members)) \in Seq(Item)
        /\ \A k \in DOMAIN KickIfAny(All, ListedOf(Members)) :
               Fresh(KickIfAny(All, ListedOf(Members))[k])
    BY KickIfAnyIsFresh
  <2> HIDE DEF r
  <2>5. /\ KickIfAny(All, ListedOf(Members)) \o r \in Seq(Item)
        /\ \A k \in DOMAIN (KickIfAny(All, ListedOf(Members)) \o r) :
               Fresh((KickIfAny(All, ListedOf(Members)) \o r)[k])
    BY <2>3, <2>4, FreshConcat
  <2> QED BY <2>1, <2>5 DEF r
<1> QED BY <1>3, <1>4, <1>5, <1>6, <1>7 DEF Revocation

LEMMA RevocationsKeepInv == Inv /\ Revocation => Inv'
<1> SUFFICES ASSUME Inv, Revocation PROVE Inv'
  OBVIOUS
<1> USE DEF memberVars, voiceVars
<1>1. session' = session /\ worker' = worker /\ calls' = calls
  BY DEF Revocation, TakeOver, ManageAccount, ReceiveHook, Remove, CloseRoom
<1>2. /\ outbox' \in Seq(Item)
      /\ \A i \in DOMAIN outbox' :
             outbox'[i].lease # None <=> outbox'[i].state \in {"leased", "overdue"}
      /\ OutboxGrows
  <2>1. CASE outbox' = outbox
    BY <2>1 DEF Inv, TypeOK, OutboxGrows
  <2>2. ASSUME NEW items \in Seq(Item), \A k \in DOMAIN items : Fresh(items[k]),
               Enqueue(items)
        PROVE  <1>2!:
    BY <2>2, EnqueueGrows DEF Inv
  <2> QED BY <2>1, <2>2, RevocationsAreFresh
<1>3. KickInv'
  BY <1>1, <1>2, GrowingKeepsKickInv DEF Inv, SessionsEnd
<1>4. /\ open' \in BOOLEAN /\ status' \in [Members -> MemberStatus]
      /\ signing' \subseteq Members /\ tokens' \subseteq Members
      /\ voice' \subseteq Members /\ voiceTokens' \subseteq Members /\ hooks' \subseteq Members
  <2> USE DEF Inv, TypeOK, MemberStatus
  <2>1. CASE \E m \in Members : TakeOver(m) \/ ManageAccount(m) \/ ReceiveHook(m)
    BY <2>1 DEF TakeOver, ManageAccount, ReceiveHook
  <2>2. CASE \E m \in Members, how \in {"left", "kicked"} : Remove(m, how)
    BY <2>2 DEF Remove
  <2>3. CASE CloseRoom
    BY <2>3 DEF CloseRoom
  <2> QED BY <2>1, <2>2, <2>3 DEF Revocation
<1> QED BY <1>1, <1>2, <1>3, <1>4 DEF Inv, TypeOK

\* Disconnecting a session and closing its row.
LEMMA RowUpdates ==
  ASSUME NEW e \in Session
  PROVE  /\ [e EXCEPT !.connected = FALSE] \in Session
         /\ [e EXCEPT !.connected = FALSE].connected = FALSE
         /\ [e EXCEPT !.listed = FALSE] \in Session
         /\ [e EXCEPT !.listed = FALSE].connected = e.connected
  BY DEF Session

\* A session that is disconnected ends, and its row keeps its type.
LEMMA DisconnectingEnds ==
  ASSUME TypeOK, NEW id \in Ids, session[id] # None,
         session' = [session EXCEPT ![id].connected = FALSE]
  PROVE  session' \in [Ids -> Session \cup {None}] /\ SessionsEnd
<1> DEFINE e == [session[id] EXCEPT !.connected = FALSE]
<1>1. session \in [Ids -> Session \cup {None}] /\ session[id] \in Session
  BY DEF TypeOK
<1>2. session' = [session EXCEPT ![id] = e]
  OBVIOUS
<1>3. e \in Session /\ e # None /\ e.connected = FALSE
  BY <1>1, RowUpdates
<1> HIDE DEF e
<1>4. session' \in [Ids -> Session \cup {None}]
  BY <1>1, <1>2, <1>3
<1>5. SessionsEnd
  BY <1>1, <1>2, <1>3 DEF SessionsEnd
<1> QED BY <1>4, <1>5

\* The steps that only touch sessions.
LEMMA SessionsKeepInv ==
  Inv /\ ((\E id \in Ids : Hangup(id)) \/ ProvisionAccounts) => Inv'
<1> SUFFICES ASSUME Inv, (\E id \in Ids : Hangup(id)) \/ ProvisionAccounts PROVE Inv'
  OBVIOUS
<1> USE DEF voiceVars
<1>1. outbox' = outbox /\ worker' = worker /\ calls' = calls
  BY DEF Hangup, ProvisionAccounts
<1>2. session' \in [Ids -> Session \cup {None}] /\ SessionsEnd
  <2>1. CASE \E id \in Ids : Hangup(id)
    BY <2>1, DisconnectingEnds DEF Inv, Hangup
  <2>2. CASE ProvisionAccounts
    <3>1. session \in [Ids -> Session \cup {None}]
      BY DEF Inv, TypeOK
    <3>2. session' = [id \in Ids |-> IF session[id] = None THEN None
                                     ELSE [session[id] EXCEPT !.listed = FALSE]]
      BY <2>2 DEF ProvisionAccounts
    <3>3. \A id \in Ids :
              /\ session'[id] \in Session \cup {None}
              /\ session[id] # None =>
                     session'[id] # None /\ session'[id].connected = session[id].connected
      BY ZenonT(30), <3>1, <3>2, RowUpdates
    <3> QED BY <3>2, <3>3 DEF SessionsEnd
  <2> QED BY <2>1, <2>2
<1>3. KickInv'
  BY <1>1, <1>2, GrowingKeepsKickInv DEF Inv, OutboxGrows
<1>4. /\ open' \in BOOLEAN /\ status' \in [Members -> MemberStatus]
      /\ signing' \subseteq Members /\ tokens' \subseteq Members
      /\ voice' \subseteq Members /\ voiceTokens' \subseteq Members /\ hooks' \subseteq Members
  BY DEF Inv, TypeOK, MemberStatus, Hangup, ProvisionAccounts
<1> QED BY <1>1, <1>2, <1>3, <1>4 DEF Inv, TypeOK

\* A lease that a claim hands out is on no other item and in no call.
LEMMA ClaimKeepsInv ==
  ASSUME Inv, NEW l \in Leases, Claim(l)
  PROVE  Inv'
<1> USE DEF memberVars
<1>1. PICK n \in DOMAIN outbox :
          /\ Claimable(outbox[n])
          /\ outbox' = [outbox EXCEPT ![n].state = "leased", ![n].lease = l]
          /\ worker' = [task |-> "item", kind |-> outbox[n].kind, lease |-> l,
                        todo |-> outbox[n].todo]
  BY DEF Claim
<1>2. /\ session' = session /\ calls' = calls
      /\ \A i \in DOMAIN outbox : outbox[i].lease # l
      /\ \A c \in calls : c.lease # l
  BY DEF Claim
<1>3. outbox \in Seq(Item) /\ outbox[n] \in Item
  BY DEF Inv, TypeOK
<1>4. /\ outbox' \in Seq(Item) /\ DOMAIN outbox' = DOMAIN outbox
      /\ \A i \in DOMAIN outbox : i # n => outbox'[i] = outbox[i]
      /\ outbox'[n].lease = l /\ outbox'[n].state = "leased"
      /\ outbox'[n].kind = outbox[n].kind /\ outbox'[n].todo = outbox[n].todo
  <2>1. [outbox[n] EXCEPT !.state = "leased", !.lease = l] \in Item
    BY <1>3 DEF Item
  <2>2. outbox' = [outbox EXCEPT ![n] = [outbox[n] EXCEPT !.state = "leased", !.lease = l]]
    BY <1>1
  <2>3. /\ outbox' \in Seq(Item) /\ DOMAIN outbox' = DOMAIN outbox
        /\ \A i \in DOMAIN outbox : i # n => outbox'[i] = outbox[i]
        /\ outbox'[n] = [outbox[n] EXCEPT !.state = "leased", !.lease = l]
    BY <1>3, <2>1, <2>2
  <2> QED BY <1>3, <2>3 DEF Item
<1>5. TypeOK'
  <2>1. worker' \in Work
    BY <1>1, <1>3 DEF Item, Work
  <2>2. l # None
    OBVIOUS
  <2> QED BY <1>4, <2>1, <2>2 DEF Inv, TypeOK, Claim, voiceVars
<1>6. KickInv'
  <2>1. LeasesAreUnique'
    BY <1>2, <1>4 DEF Inv, KickInv, LeasesAreUnique
  <2>2. KicksNameSessions'
    BY <1>2, <1>4 DEF Inv, KickInv, KicksNameSessions
  <2>3. WorkerKeepsCount'
    BY <1>1, <1>2, <1>4 DEF Inv, KickInv, KicksNameSessions, WorkerKeepsCount
  <2>4. CompletionsAreTrue'
    BY <1>2, <1>4 DEF Inv, KickInv, CompletionsAreTrue, Gone
  <2> QED BY <2>1, <2>2, <2>3, <2>4 DEF KickInv
<1> QED BY <1>5, <1>6 DEF Inv

(***************************************************************************)
(* The calls of the worker                                                 *)
(***************************************************************************)

\* Dropping one item keeps the others, in order.
LEMMA WithoutOne ==
  ASSUME TypeOK, NEW n \in DOMAIN outbox
  PROVE  /\ Without(n) \in Seq(Item)
         /\ Len(Without(n)) = Len(outbox) - 1
         /\ \A j \in DOMAIN Without(n) :
                IF j < n THEN j \in DOMAIN outbox /\ Without(n)[j] = outbox[j]
                ELSE j + 1 \in DOMAIN outbox /\ Without(n)[j] = outbox[j + 1]
<1>1. outbox \in Seq(Item) /\ Len(outbox) \in Nat /\ n \in 1 .. Len(outbox)
  BY DEF TypeOK
<1>2. DEFINE m == Len(outbox) - 1
<1>3. m \in Nat
  BY <1>1
<1>4. \A j \in 1 .. m : IF j < n THEN j \in DOMAIN outbox ELSE j + 1 \in DOMAIN outbox
  BY <1>1
<1>5. Without(n) \in [1 .. m -> Item]
  BY <1>1, <1>4 DEF Without
<1>6. Without(n) \in Seq(Item)
  BY <1>3, <1>5, SeqDef
<1>7. Len(Without(n)) = m /\ DOMAIN Without(n) = 1 .. m
  BY <1>3, <1>5, <1>6, LenProperties
<1> QED BY <1>4, <1>6, <1>7 DEF Without

\* A completed item leaves the outbox; the rows that are closed with it stay.
LEMMA CompleteKeepsInv ==
  ASSUME Inv, NEW c \in calls, calls' = calls \ {c}, Complete(c.lease),
         worker' = worker, UNCHANGED <<open, status, signing, tokens, voice, voiceTokens, hooks>>
  PROVE  Inv'
<1>1. PICK n \in DOMAIN outbox :
          /\ outbox' = Without(n)
          /\ session' = [id \in Ids |->
                 IF outbox[n].kind = "kick" /\ id \in ListedOf({outbox[n].member})
                 THEN [session[id] EXCEPT !.listed = FALSE] ELSE session[id]]
  BY DEF Complete, Holds
<1> DEFINE old(j) == IF j < n THEN j ELSE j + 1
<1>2. /\ outbox' \in Seq(Item)
      /\ \A j \in DOMAIN outbox' : old(j) \in DOMAIN outbox /\ outbox'[j] = outbox[old(j)]
  BY <1>1, WithoutOne DEF Inv
<1>3. session' \in [Ids -> Session \cup {None}]
      /\ \A id \in Ids : session[id] # None =>
             session'[id] # None /\ session'[id].connected = session[id].connected
  <2>1. session \in [Ids -> Session \cup {None}]
    BY DEF Inv, TypeOK
  <2>2. \A id \in Ids :
            /\ session'[id] \in Session \cup {None}
            /\ session[id] # None =>
                   session'[id] # None /\ session'[id].connected = session[id].connected
    BY ZenonT(30), <1>1, <2>1, RowUpdates DEF ListedOf
  <2> QED BY <1>1, <2>2
<1>4. TypeOK'
  BY <1>2, <1>3 DEF Inv, TypeOK
<1>5. LeasesAreUnique'
  <2> SUFFICES ASSUME NEW i \in DOMAIN outbox', NEW j \in DOMAIN outbox',
                      outbox'[i].lease # None, outbox'[i].lease = outbox'[j].lease
               PROVE  i = j
    BY DEF LeasesAreUnique
  <2>1. old(i) = old(j)
    BY <1>2 DEF Inv, KickInv, LeasesAreUnique
  <2>2. i \in Nat /\ j \in Nat /\ n \in Nat
    BY <1>2 DEF Inv, TypeOK
  <2> QED BY <2>1, <2>2
<1>6. \A id : Gone(id) => Gone(id)'
  BY <1>3 DEF Gone
<1> HIDE DEF old
<1>7. KicksNameSessions'
  BY <1>2, <1>3 DEF Inv, KickInv, KicksNameSessions
<1>8. WorkerKeepsCount'
  BY <1>2, <1>3, <1>6 DEF Inv, KickInv, WorkerKeepsCount
<1>9. CompletionsAreTrue'
  BY <1>2, <1>6 DEF Inv, KickInv, CompletionsAreTrue
<1> QED BY <1>4, <1>5, <1>7, <1>8, <1>9 DEF Inv, KickInv

\* An item that waits, or whose lease runs out, stays what it is.
LEMMA ItemsKeepInv ==
  ASSUME Inv, NEW n \in DOMAIN outbox, NEW e \in Item,
         outbox' = [outbox EXCEPT ![n] = e],
         e.kind = outbox[n].kind, e.todo = outbox[n].todo, e.lease \in {outbox[n].lease, None},
         e.lease # None <=> e.state \in {"leased", "overdue"},
         calls' \subseteq calls,
         UNCHANGED <<open, status, signing, tokens, session, worker, voice, voiceTokens, hooks>>
  PROVE  Inv'
<1>1. outbox \in Seq(Item)
  BY DEF Inv, TypeOK
<1>2. /\ outbox' \in Seq(Item) /\ DOMAIN outbox' = DOMAIN outbox
      /\ \A i \in DOMAIN outbox : outbox'[i] = IF i = n THEN e ELSE outbox[i]
  BY <1>1
<1>3. OutboxGrows
  BY <1>2 DEF OutboxGrows
<1>4. KickInv'
  BY <1>3, GrowingKeepsKickInv DEF Inv, SessionsEnd
<1> QED BY <1>2, <1>4 DEF Inv, TypeOK

LEMMA CallsKeepInv ==
  ASSUME Inv,
         \/ \E c \in calls : ReceiveCall(c) \/ LoseCall(c)
         \/ \E i \in 1 .. MaxItems : ItemTime(i)
  PROVE  Inv'
<1> USE DEF memberVars, voiceVars
<1>1. ASSUME NEW c \in calls, LoseCall(c) PROVE Inv'
  <2>1. KickInv'
    BY <1>1, GrowingKeepsKickInv DEF Inv, LoseCall, OutboxGrows, SessionsEnd
  <2> QED BY <1>1, <2>1 DEF Inv, TypeOK, LoseCall
<1>2. ASSUME NEW c \in calls, ReceiveCall(c) PROVE Inv'
  <2>1. CASE Complete(c.lease)
    BY <1>2, <2>1, CompleteKeepsInv DEF ReceiveCall
  <2>2. CASE Fail(c.lease)
    <3>1. PICK n \in DOMAIN outbox :
              outbox' = [outbox EXCEPT ![n].state = "later", ![n].lease = None]
      BY <2>2 DEF Fail, Holds
    <3> DEFINE e == [outbox[n] EXCEPT !.state = "later", !.lease = None]
    <3>2. outbox[n] \in Item
      BY DEF Inv, TypeOK
    <3>3. /\ e \in Item /\ outbox' = [outbox EXCEPT ![n] = e]
          /\ e.kind = outbox[n].kind /\ e.todo = outbox[n].todo
          /\ e.lease = None /\ e.state = "later"
      BY <3>1, <3>2 DEF Item
    <3>4. session' = session
      BY <2>2 DEF Fail
    <3> HIDE DEF e
    <3> QED BY <1>2, <3>3, <3>4, ItemsKeepInv DEF ReceiveCall
  <2>3. CASE UNCHANGED <<outbox, session>>
    <3>1. KickInv'
      BY <1>2, <2>3, GrowingKeepsKickInv DEF Inv, ReceiveCall, OutboxGrows, SessionsEnd
    <3> QED BY <1>2, <2>3, <3>1 DEF Inv, TypeOK, ReceiveCall
  <2> QED BY <1>2, <2>1, <2>2, <2>3 DEF ReceiveCall
<1>3. ASSUME NEW n \in DOMAIN outbox, ItemTime(n) PROVE Inv'
  <2> DEFINE e == [outbox[n] EXCEPT !.state = IF @ = "leased" THEN "overdue" ELSE "due"]
  <2>1. outbox[n] \in Item /\ (outbox[n].lease # None <=> outbox[n].state \in {"leased", "overdue"})
    BY DEF Inv, TypeOK
  <2>2. /\ outbox' = [outbox EXCEPT ![n] = e]
        /\ outbox[n].state \in {"leased", "later"}
    BY <1>3 DEF ItemTime
  <2>3. /\ e \in Item /\ e.kind = outbox[n].kind /\ e.todo = outbox[n].todo
        /\ e.lease = outbox[n].lease
        /\ e.state = IF outbox[n].state = "leased" THEN "overdue" ELSE "due"
    BY <2>1 DEF Item
  <2> HIDE DEF e
  <2>4. e.lease # None <=> e.state \in {"leased", "overdue"}
    BY <2>1, <2>2, <2>3
  <2>5. UNCHANGED <<open, status, signing, tokens, session, worker, calls, voice, voiceTokens, hooks>>
    BY <1>3 DEF ItemTime
  <2> QED BY <2>2, <2>3, <2>4, <2>5, ItemsKeepInv
<1> QED BY <1>1, <1>2, <1>3 DEF ItemTime

(***************************************************************************)
(* The worker                                                              *)
(***************************************************************************)

\* A call to MediaMTX or LiveKit takes its target off the worker's list.
LEMMA CarryOutKeepsInv ==
  ASSUME Inv, NEW x \in Ids \cup Members, CarryOut(x)
  PROVE  Inv'
<1> USE DEF memberVars, voiceVars
<1>1. /\ worker \in [task : {"item"}, kind : {"kick", "remove"}, lease : Leases,
                     todo : SUBSET (Ids \cup Members)]
      /\ worker' = [worker EXCEPT !.todo = @ \ {x}] /\ x \in worker.todo
      /\ outbox' = outbox /\ calls' = calls
  BY DEF CarryOut, Inv, TypeOK, Work, Idle
<1>2. /\ worker' \in Work /\ worker'.task = "item"
      /\ worker'.kind = worker.kind /\ worker'.lease = worker.lease
      /\ worker'.todo = worker.todo \ {x}
  BY <1>1 DEF Work
<1>3. CASE worker.kind # "kick"
  <2>1. session' = session /\ voice' \subseteq Members
    BY <1>3 DEF CarryOut, Inv, TypeOK
  <2>2. KickInv'
    BY <1>1, <1>2, <1>3, <2>1 DEF Inv, KickInv, LeasesAreUnique, KicksNameSessions,
       WorkerKeepsCount, CompletionsAreTrue, Gone
  <2> QED BY <1>1, <1>2, <2>1, <2>2 DEF Inv, TypeOK, CarryOut
<1>4. CASE worker.kind = "kick"
  <2> x \in Ids /\ session[x] # None
    BY <1>1, <1>4 DEF Inv, KickInv, WorkerKeepsCount
  <2>1. session' = [session EXCEPT ![x].connected = FALSE] /\ voice' = voice
    BY <1>4 DEF CarryOut
  <2>2. session' \in [Ids -> Session \cup {None}] /\ SessionsEnd
    BY <1>4, <2>1, DisconnectingEnds DEF Inv
  <2>3. \A id : Gone(id) => Gone(id)'
    BY <2>2 DEF Gone, SessionsEnd
  <2>4. Gone(x)'
    <3>1. session \in [Ids -> Session \cup {None}] /\ session[x] \in Session
      BY <1>4 DEF Inv, TypeOK
    <3>2. session'[x] = [session[x] EXCEPT !.connected = FALSE]
      BY <1>4, <2>1, <3>1
    <3> QED BY <1>4, <2>2, <3>1, <3>2, RowUpdates DEF Gone, SessionsEnd
  <2>5. KicksNameSessions' /\ LeasesAreUnique'
    BY <1>1, <2>2 DEF Inv, KickInv, LeasesAreUnique, KicksNameSessions, SessionsEnd
  <2>6. WorkerKeepsCount'
    BY <1>1, <1>2, <2>2, <2>3, <2>4 DEF Inv, KickInv, WorkerKeepsCount, SessionsEnd
  <2>7. CompletionsAreTrue'
    BY <1>1, <2>3 DEF Inv, KickInv, CompletionsAreTrue
  <2>8. TypeOK'
    BY <1>1, <1>2, <2>1, <2>2 DEF Inv, TypeOK, CarryOut
  <2> QED BY <2>5, <2>6, <2>7, <2>8 DEF Inv, KickInv
<1> QED BY <1>3, <1>4

\* A completion is sent only when the list is empty.
LEMMA ReportKeepsInv == Inv /\ Report => Inv'
<1> SUFFICES ASSUME Inv, Report PROVE Inv'
  OBVIOUS
<1> USE DEF memberVars
<1>1. /\ session' = session /\ outbox' = outbox
      /\ UNCHANGED <<open, status, signing, tokens, voice, voiceTokens, hooks>>
  BY DEF Report
<1>2. PICK verdict \in {"complete", "fail"} :
          /\ Send(verdict)
          /\ worker.task \in {"item", "sent"}
          /\ verdict = "complete" => worker.task = "item" /\ worker.todo = {}
  BY DEF Report
<1>3. worker.lease \in Leases
  BY <1>2 DEF Inv, TypeOK, Work, Idle
<1>4. worker' \in Work /\ worker'.task = "sent" /\ calls' \subseteq Call
  BY <1>2, <1>3 DEF Send, Work, Call, Inv, TypeOK
<1>5. CompletionsAreTrue'
  <2> SUFFICES ASSUME NEW c \in calls', c.verdict = "complete", NEW i \in DOMAIN outbox,
                      outbox[i].lease = c.lease, outbox[i].kind = "kick", NEW id \in outbox[i].todo
               PROVE  Gone(id)
    BY <1>1 DEF CompletionsAreTrue, Gone
  <2>1. CASE c \in calls
    BY <2>1 DEF Inv, KickInv, CompletionsAreTrue
  <2>2. CASE c = [lease |-> worker.lease, verdict |-> verdict]
    BY <1>2, <2>2 DEF Inv, KickInv, WorkerKeepsCount
  <2> QED BY <1>2, <2>1, <2>2 DEF Send
<1>6. KickInv'
  BY <1>1, <1>4, <1>5 DEF Inv, KickInv, LeasesAreUnique, KicksNameSessions, WorkerKeepsCount
<1> QED BY <1>1, <1>4, <1>6 DEF Inv, TypeOK

\* The rest of the worker's loop, and its restarts.
LEMMA LoopKeepsInv ==
  ASSUME Inv,
         \/ NextRound \/ WorkerRestart \/ ReconcileBegin \/ ReconcileList \/ ReconcileEnd
         \/ \E m \in Members : ReconcileRemove(m)
  PROVE  Inv'
<1> USE DEF memberVars
<1>1. /\ outbox' = outbox /\ calls' = calls
      /\ UNCHANGED <<open, status, signing, tokens, session, voiceTokens, hooks>>
      /\ voice' \subseteq voice
  BY DEF NextRound, WorkerRestart, ReconcileBegin, ReconcileList, ReconcileEnd, ReconcileRemove
<1>2. worker' \in Work /\ worker'.task # "item"
  <2>1. CASE NextRound \/ WorkerRestart \/ ReconcileEnd
    BY <2>1 DEF NextRound, WorkerRestart, ReconcileEnd, Work, Idle
  <2>2. CASE ReconcileBegin
    BY <2>2 DEF ReconcileBegin, Work, Active
  <2>3. CASE ReconcileList
    BY <2>3 DEF ReconcileList, Work, Inv, TypeOK
  <2>4. ASSUME NEW m \in Members, ReconcileRemove(m)
        PROVE  worker' \in Work /\ worker'.task # "item"
    <3>1. worker \in [task : {"clear"}, todo : SUBSET Members]
      BY <2>4 DEF ReconcileRemove, Inv, TypeOK, Work, Idle
    <3>2. [worker EXCEPT !.todo = @ \ {m}] \in [task : {"clear"}, todo : SUBSET Members]
      BY <3>1
    <3> QED BY <2>4, <3>2 DEF ReconcileRemove, Work, Idle
  <2> QED BY <2>1, <2>2, <2>3, <2>4
<1>3. KickInv'
  BY <1>1, <1>2, GrowingKeepsKickInv DEF Inv, OutboxGrows, SessionsEnd
<1> QED BY <1>1, <1>2, <1>3 DEF Inv, TypeOK

(***************************************************************************)
(* The theorems                                                            *)
(***************************************************************************)

LEMMA InitInv == Init => Inv
<1> SUFFICES ASSUME Init PROVE Inv
  OBVIOUS
<1>1. TypeOK
  BY DEF Init, TypeOK, MemberStatus, Work, Idle
<1>2. KickInv
  BY DEF Init, Idle, KickInv, LeasesAreUnique, KicksNameSessions, WorkerKeepsCount,
     CompletionsAreTrue
<1> QED BY <1>1, <1>2 DEF Inv

LEMMA NextInv == Inv /\ [Next]_vars => Inv'
<1> SUFFICES ASSUME Inv, [Next]_vars PROVE Inv'
  OBVIOUS
<1>1. ASSUME NEW m \in Members, MemberStep(m) PROVE Inv'
  BY <1>1, MembersKeepInv, RevocationsKeepInv DEF MemberStep, Revocation
<1>2. CASE CloseRoom
  BY <1>2, RevocationsKeepInv DEF Revocation
<1>3. CASE UNCHANGED vars
  BY <1>3 DEF vars, Inv, TypeOK, KickInv, LeasesAreUnique, KicksNameSessions,
     WorkerKeepsCount, CompletionsAreTrue, Gone
<1> QED
  BY <1>1, <1>2, <1>3, SessionsKeepInv, ClaimKeepsInv, CallsKeepInv, CarryOutKeepsInv,
     ReportKeepsInv, LoopKeepsInv DEF Next, WorkerStep

LEMMA SpecInv == Spec => []Inv
  BY InitInv, NextInv, PTL DEF Spec

\* Tables, messages and the worker keep their types, and an item is leased
\* exactly when it has a token, for any members, sessions and tokens.
THEOREM TypeCorrect == Spec => []TypeOK
  BY SpecInv, PTL DEF Inv

\* Nothing takes an item out of the outbox except a completion that arrives.
LEMMA OnlyCompletionsShorten ==
  ASSUME Inv, [Next]_vars, Len(outbox') < Len(outbox)
  PROVE  \E c \in calls : c.verdict = "complete" /\ Complete(c.lease)
<1> USE DEF memberVars, voiceVars
<1>1. outbox \in Seq(Item) /\ Len(outbox) \in Nat
  BY DEF Inv, TypeOK
<1>2. outbox' # outbox
  BY <1>1
<1>3. ~Revocation
  <2> SUFFICES ASSUME Revocation PROVE FALSE
    OBVIOUS
  <2>1. PICK items \in Seq(Item) : outbox' = outbox \/ Enqueue(items)
    BY RevocationsAreFresh
  <2>2. outbox' = outbox \o items
    BY <1>2, <2>1 DEF Enqueue
  <2>3. Len(outbox') = Len(outbox) + Len(items) /\ Len(items) \in Nat
    BY <1>1, <2>2, ConcatProperties
  <2> QED BY <1>1, <2>3
<1>4. ASSUME NEW n \in DOMAIN outbox, NEW e PROVE outbox' # [outbox EXCEPT ![n] = e]
  <2> SUFFICES ASSUME outbox' = [outbox EXCEPT ![n] = e] PROVE FALSE
    OBVIOUS
  <2>1. outbox' \in [1 .. Len(outbox) -> Item \cup {e}]
    BY <1>1
  <2>2. outbox' \in Seq(Item \cup {e})
    BY <1>1, <2>1, SeqDef
  <2>3. Len(outbox') = Len(outbox)
    BY <1>1, <2>1, <2>2, LenProperties
  <2> QED BY <1>1, <2>3
<1>5. /\ \A l \in Leases : ~Claim(l)
      /\ \A i \in 1 .. MaxItems : ~ItemTime(i)
      /\ \A c \in calls : ~Fail(c.lease)
  <2>1. ASSUME NEW l \in Leases, Claim(l) PROVE FALSE
    <3>1. PICK n \in DOMAIN outbox :
              outbox' = [outbox EXCEPT ![n].state = "leased", ![n].lease = l]
      BY <2>1 DEF Claim
    <3>2. outbox' = [outbox EXCEPT ![n] = [outbox[n] EXCEPT !.state = "leased", !.lease = l]]
      BY <3>1
    <3> QED BY <3>2, <1>4
  <2>2. ASSUME NEW n \in 1 .. MaxItems, ItemTime(n) PROVE FALSE
    <3>1. n \in DOMAIN outbox /\ outbox' =
              [outbox EXCEPT ![n] = [outbox[n] EXCEPT !.state = IF @ = "leased" THEN "overdue" ELSE "due"]]
      BY <2>2 DEF ItemTime
    <3> QED BY <3>1, <1>4
  <2>3. ASSUME NEW c \in calls, Fail(c.lease) PROVE FALSE
    <3>1. PICK n \in DOMAIN outbox :
              outbox' = [outbox EXCEPT ![n].state = "later", ![n].lease = None]
      BY <2>3 DEF Fail, Holds
    <3>2. outbox' = [outbox EXCEPT ![n] = [outbox[n] EXCEPT !.state = "later", !.lease = None]]
      BY <3>1
    <3> QED BY <3>2, <1>4
  <2> QED BY <2>1, <2>2, <2>3
<1>6. \A m \in Members : ~MemberStep(m)
  BY <1>2, <1>3 DEF MemberStep, Revocation, Enter, IssueTokenBegin, IssueTokenFinish,
     ExpireToken, AuthorizeMedia, IssueVoice, ExpireVoice, JoinVoice, LeaveVoice, LoseHook
<1>7. /\ \A id \in Ids : ~Hangup(id)
      /\ ~CloseRoom /\ ~ProvisionAccounts /\ ~WorkerStep /\ ~WorkerRestart
      /\ ~ReconcileBegin /\ ~ReconcileList /\ ~ReconcileEnd
      /\ \A m \in Members : ~ReconcileRemove(m)
      /\ \A c \in calls : ~LoseCall(c)
      /\ vars' # vars
  BY <1>2, <1>3 DEF Revocation, Hangup, ProvisionAccounts, WorkerStep, CarryOut, Report,
     NextRound, WorkerRestart, ReconcileBegin, ReconcileList, ReconcileEnd, ReconcileRemove,
     LoseCall, vars
<1>8. PICK c \in calls : ReceiveCall(c)
  BY <1>5, <1>6, <1>7 DEF Next
<1> QED BY <1>2, <1>5, <1>8 DEF ReceiveCall

\* Two places whose removal gives the same outbox hold the same item, or are one.
LEMMA WithoutIsInjective ==
  ASSUME Inv, NEW i \in DOMAIN outbox, NEW j \in DOMAIN outbox,
         Without(i) = Without(j), outbox[j].lease # None
  PROVE  i = j
<1>1. outbox \in Seq(Item) /\ DOMAIN outbox = 1 .. Len(outbox) /\ Len(outbox) \in Nat
  BY DEF Inv, TypeOK
<1>2. CASE i < j
  <2>1. j - 1 \in 1 .. Len(outbox) - 1
    BY <1>1, <1>2
  <2>2. Without(i)[j - 1] = outbox[j] /\ Without(j)[j - 1] = outbox[j - 1]
    BY <1>1, <1>2, <2>1 DEF Without
  <2>3. outbox[j] = outbox[j - 1] /\ j - 1 \in DOMAIN outbox /\ j - 1 # j
    BY <1>1, <2>1, <2>2
  <2> QED BY <2>3 DEF Inv, KickInv, LeasesAreUnique
<1>3. CASE j < i
  <2>1. j \in 1 .. Len(outbox) - 1
    BY <1>1, <1>3
  <2>2. Without(i)[j] = outbox[j] /\ Without(j)[j] = outbox[j + 1]
    BY <1>1, <1>3, <2>1 DEF Without
  <2>3. outbox[j] = outbox[j + 1] /\ j + 1 \in DOMAIN outbox /\ j + 1 # j
    BY <1>1, <2>1, <2>2
  <2> QED BY <2>3 DEF Inv, KickInv, LeasesAreUnique
<1> QED BY <1>1, <1>2, <1>3

LEMMA KickStep ==
  ASSUME Inv, [Next]_vars, NEW i \in DOMAIN outbox, outbox[i].kind = "kick",
         Len(outbox') < Len(outbox), outbox' = Without(i), NEW id \in outbox[i].todo
  PROVE  ~session[id].connected
<1>1. PICK c \in calls : c.verdict = "complete" /\ Complete(c.lease)
  BY OnlyCompletionsShorten
<1>2. PICK j \in DOMAIN outbox : outbox[j].lease = c.lease /\ outbox' = Without(j)
  BY <1>1 DEF Complete, Holds
<1>3. c.lease # None
  BY DEF Inv, TypeOK, Call
<1>4. i = j
  BY <1>2, <1>3, WithoutIsInjective
<1> QED BY <1>1, <1>2, <1>4 DEF Inv, KickInv, CompletionsAreTrue, Gone

\* An item leaves the outbox only when every session that it names has been
\* disconnected, whatever restarts, expired leases and late calls there are.
THEOREM KicksHold == Spec => KicksAreCarriedOut
<1>1. Inv /\ [Next]_vars =>
          [\A i \in DOMAIN outbox :
              outbox[i].kind = "kick" /\ Len(outbox') < Len(outbox) /\ outbox' = Without(i) =>
                  \A id \in outbox[i].todo : ~session[id].connected]_vars
  BY KickStep
<1> QED BY <1>1, SpecInv, PTL DEF Spec, KicksAreCarriedOut
=============================================================================
