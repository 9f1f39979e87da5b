--------------------------- MODULE RoomPage_proofs ---------------------------
(***************************************************************************)
(* Proofs about RoomPage, for all attempts, calls, limits and bounds.      *)
(***************************************************************************)
EXTENDS RoomPage, TLAPS

NoProgram == current = None /\ reader = None /\ ~ timer

\* OffIsOff and what it needs: before the bootstrap, nothing was begun.
LiveInv ==
    /\ OneReader /\ OffIsOff
    /\ page = "loading" => mode = "other" /\ NoProgram

LiveType ==
    /\ phase \in [Attempts -> {"free", "requesting", "reading"}]
    /\ current \in Attempts \cup {None} /\ reader \in Attempts \cup {None}
    /\ tracks \subseteq Kinds /\ play \in BOOLEAN
    /\ shown \in {"idle", "connecting", "playing", "error"}
    /\ timer \in BOOLEAN

LEMMA EndProgramType ==
    ASSUME TypeOK, NEW f \in [Attempts -> {"free", "requesting", "reading"}],
           NEW retry \in BOOLEAN, EndProgram(f, retry)
    PROVE  LiveType'
  BY DEF EndProgram, LiveType

LEMMA BeginType ==
    ASSUME TypeOK, enableLiveProgram
    PROVE  LiveType'
  BY DEF enableLiveProgram, LiveType, TypeOK, liveVars

LEMMA CloseType ==
    ASSUME TypeOK, closeLiveProgram
    PROVE  LiveType'
  BY EndProgramType DEF closeLiveProgram, TypeOK

LEMMA HungType ==
    ASSUME TypeOK, NEW c
    PROVE  Hung(c) \in [Calls -> {"off", "on", "closing"}]
  BY DEF Hung, TypeOK

LEMMA FailType ==
    ASSUME TypeOK, Fail
    PROVE  failures' \in 0..MaxFailures
  BY BoundAssumption DEF TypeOK, Fail

LEMMA RecordedType ==
    ASSUME TypeOK, Recorded \/ RateLimited
    PROVE  used' \in 0..Limit
  BY LimitAssumption DEF TypeOK, Recorded, RateLimited

LEMMA LiveStepType ==
    ASSUME TypeOK, LiveStep
    PROVE  TypeOK'
<1>1. CASE LiveEffect
  <2>1. /\ due' = FALSE
        /\ UNCHANGED <<page, socket, mode, status, enabled, used, step, link, voice, voiceState,
                       failures>>
        /\ closeLiveProgram \/ enableLiveProgram \/ UNCHANGED liveVars
    BY <1>1 DEF LiveEffect, pageVars, voiceVars
  <2>2. due' \in BOOLEAN
    BY <2>1
  <2>3. LiveType'
    BY <2>1, CloseType, BeginType DEF LiveType, TypeOK, liveVars
  <2> QED BY <2>1, <2>2, <2>3 DEF LiveType, TypeOK
<1>2. CASE EnableSound
  <2>1. /\ UNCHANGED <<page, socket, mode, status, used, step, link, voice, voiceState, failures>>
        /\ enableLiveProgram \/ UNCHANGED liveVars
    BY <1>2 DEF EnableSound, pageVars, voiceVars
  <2>2. enabled' \in BOOLEAN /\ due' \in BOOLEAN
    BY <1>2 DEF EnableSound, TypeOK
  <2>3. LiveType'
    BY <2>1, BeginType DEF LiveType, TypeOK, liveVars
  <2> QED BY <2>1, <2>2, <2>3 DEF LiveType, TypeOK
<1>3. CASE Reconnect
  BY <1>3, CloseType DEF Reconnect, LiveType, TypeOK, pageVars, voiceVars
<1>4. ASSUME NEW a \in Attempts, AttemptFails(a)
      PROVE  TypeOK'
  <2>1. Without(a) \in [Attempts -> {"free", "requesting", "reading"}]
    BY DEF Without, TypeOK
  <2>2. used' \in 0..Limit
    BY <1>4, RecordedType DEF AttemptFails
  <2>3. failures' \in 0..MaxFailures
    BY <1>4, FailType DEF AttemptFails, TypeOK
  <2>4. CASE EndProgram(Without(a), TRUE)
    <3>1. LiveType'
      BY <2>1, <2>4, EndProgramType
    <3>2. UNCHANGED <<page, socket, mode, status, enabled, due, step, link, voice, voiceState>>
      BY <1>4 DEF AttemptFails, pageVars, voiceVars
    <3> QED BY <2>2, <2>3, <3>1, <3>2 DEF LiveType, TypeOK
  <2>5. CASE phase' = Without(a) /\ UNCHANGED <<current, reader, tracks, play, shown, timer>>
    BY <1>4, <2>1, <2>2, <2>3, <2>5 DEF AttemptFails, TypeOK, pageVars, voiceVars
  <2> QED BY <1>4, <2>4, <2>5 DEF AttemptFails
<1>5. ASSUME NEW a \in Attempts, AttemptSucceeds(a)
      PROVE  TypeOK'
  <2>1. used' \in 0..Limit
    BY <1>5, RecordedType DEF AttemptSucceeds
  <2> QED BY <1>5, <2>1 DEF AttemptSucceeds, Without, TypeOK, pageVars, voiceVars
<1>6. CASE ReaderFails
  <2>1. phase \in [Attempts -> {"free", "requesting", "reading"}] /\ EndProgram(phase, TRUE)
    BY <1>6 DEF ReaderFails, TypeOK
  <2>2. failures' \in 0..MaxFailures
    BY <1>6, FailType DEF ReaderFails
  <2>3. LiveType'
    BY <2>1, EndProgramType
  <2>4. UNCHANGED <<page, socket, mode, status, enabled, due, used, step, link, voice, voiceState>>
    BY <1>6 DEF ReaderFails, pageVars, voiceVars
  <2> QED BY <2>2, <2>3, <2>4 DEF LiveType, TypeOK
<1>7. CASE TrackArrives
  BY <1>7 DEF TrackArrives, TypeOK, pageVars, voiceVars
<1>8. CASE PlaySettles
  <2>1. failures' \in 0..MaxFailures
    BY <1>8, FailType DEF PlaySettles, TypeOK
  <2>2. /\ play' = FALSE /\ shown' \in {"playing", "error"}
        /\ UNCHANGED <<page, socket, mode, status, enabled, due, used, step, link, voice,
                       voiceState, phase, current, reader, tracks, timer>>
    BY <1>8 DEF PlaySettles, pageVars, voiceVars
  <2>3. play' \in BOOLEAN
    BY <2>2
  <2> QED BY <2>1, <2>2, <2>3 DEF TypeOK
<1>9. CASE RetryFires
  <2>1. /\ timer' = FALSE /\ due' = TRUE
        /\ UNCHANGED <<page, socket, mode, status, enabled, used, step, link, voice, voiceState,
                       phase, current, reader, tracks, play, shown, failures>>
    BY <1>9 DEF RetryFires, pageVars, voiceVars
  <2>2. timer' \in BOOLEAN /\ due' \in BOOLEAN
    BY <2>1
  <2> QED BY <2>1, <2>2 DEF TypeOK
<1>10. CASE StatusArrives
  BY <1>10 DEF StatusArrives, TypeOK, pageVars, voiceVars, liveVars
<1> QED BY <1>1, <1>2, <1>3, <1>4, <1>5, <1>6, <1>7, <1>8, <1>9, <1>10 DEF LiveStep

LEMMA VoiceStepType ==
    ASSUME TypeOK, VoiceStep
    PROVE  TypeOK'
<1>1. CASE EnableVoice
  BY <1>1 DEF EnableVoice, TypeOK, pageVars, liveVars
<1>2. ASSUME NEW c \in Calls, VoiceCredential(c) PROVE TypeOK'
  <2>1. used' \in 0..Limit
    BY <1>2, RecordedType DEF VoiceCredential
  <2> QED BY <1>2, <2>1 DEF VoiceCredential, TypeOK, pageVars, liveVars
<1>3. ASSUME NEW c \in Calls, VoiceJoined(c) PROVE TypeOK'
  BY <1>3 DEF VoiceJoined, TypeOK, pageVars, liveVars
<1>4. ASSUME NEW c \in Calls, VoiceStarted(c) PROVE TypeOK'
  BY <1>4 DEF VoiceStarted, TypeOK, pageVars, liveVars
<1>5. ASSUME NEW c \in Calls, VoiceFails(c) PROVE TypeOK'
  <2>1. used' \in 0..Limit
    BY <1>5, RecordedType DEF VoiceFails, TypeOK
  <2>2. failures' \in 0..MaxFailures
    BY <1>5, FailType DEF VoiceFails, TypeOK
  <2>3. link' \in [Calls -> {"off", "on", "closing"}]
    BY <1>5, HungType DEF VoiceFails
  <2>4. /\ step' = [step EXCEPT ![c] = IF link[c] = "off" THEN "free" ELSE "failed"]
        /\ voice' = None /\ voiceState' = "error"
        /\ UNCHANGED <<page, socket, mode, status, enabled, due, liveVars>>
    BY <1>5 DEF VoiceFails, pageVars
  <2> QED BY <2>1, <2>2, <2>3, <2>4 DEF TypeOK, liveVars
<1>6. ASSUME NEW c \in Calls, MicrophoneAnswered(c) PROVE TypeOK'
  BY <1>6 DEF MicrophoneAnswered, TypeOK, pageVars, liveVars
<1>7. ASSUME NEW c \in Calls, VoiceDrops(c) PROVE TypeOK'
  <2>1. failures' \in 0..MaxFailures
    BY <1>7, FailType DEF VoiceDrops
  <2> QED BY <1>7, <2>1 DEF VoiceDrops, TypeOK, pageVars, liveVars
<1>8. ASSUME NEW c \in Calls, Disconnected(c) PROVE TypeOK'
  BY <1>8 DEF Disconnected, TypeOK, pageVars, liveVars
<1> QED BY <1>1, <1>2, <1>3, <1>4, <1>5, <1>6, <1>7, <1>8 DEF VoiceStep

LEMMA PageStepType ==
    ASSUME TypeOK, PageStep
    PROVE  TypeOK'
<1>1. CASE Bootstrap
  BY <1>1 DEF Bootstrap, TypeOK, liveVars, voiceVars
<1>2. CASE SocketOpens
  BY <1>2 DEF SocketOpens, TypeOK, liveVars, voiceVars
<1>3. CASE SocketDrops
  <2>1. failures' \in 0..MaxFailures
    BY <1>3, FailType DEF SocketDrops
  <2> QED BY <1>3, <2>1 DEF SocketDrops, TypeOK, liveVars, voiceVars
<1>4. CASE SocketRetries
  BY <1>4 DEF SocketRetries, TypeOK, liveVars, voiceVars
<1>5. CASE SnapshotArrives
  BY <1>5 DEF SnapshotArrives, TypeOK, liveVars, voiceVars
<1>6. CASE Leave
  <2>1. link' \in [Calls -> {"off", "on", "closing"}]
    BY <1>6, HungType DEF Leave
  <2> QED BY <1>6, <2>1, CloseType DEF Leave, LiveType, TypeOK
<1>7. CASE Unmount
  <2>1. link' \in [Calls -> {"off", "on", "closing"}]
    BY <1>7, HungType DEF Unmount
  <2> QED BY <1>7, <2>1, CloseType DEF Unmount, LiveType, TypeOK
<1> QED BY <1>1, <1>2, <1>3, <1>4, <1>5, <1>6, <1>7 DEF PageStep

\* Everything the page keeps has its type; in particular, no more credential
\* requests than the limit are counted in a window.
THEOREM TypeCorrect == Spec => []TypeOK
<1>1. Init => TypeOK
  <2> SUFFICES ASSUME Init PROVE TypeOK
    OBVIOUS
  <2>1. used = 0 /\ failures = 0
    BY DEF Init
  <2>2. used \in 0..Limit /\ failures \in 0..MaxFailures
    BY <2>1, LimitAssumption, BoundAssumption
  <2>3. /\ enabled \in BOOLEAN /\ due \in BOOLEAN /\ play \in BOOLEAN /\ timer \in BOOLEAN
        /\ tracks \subseteq Kinds
    BY DEF Init
  <2> QED BY <2>2, <2>3 DEF Init, TypeOK
<1>2. TypeOK /\ [Next]_vars => TypeOK'
  <2> SUFFICES ASSUME TypeOK, [Next]_vars PROVE TypeOK'
    OBVIOUS
  <2>1. CASE WindowPasses
    BY <2>1, LimitAssumption DEF WindowPasses, TypeOK, pageVars, liveVars, voiceVars
  <2>2. CASE UNCHANGED vars
    BY <2>2 DEF vars, TypeOK, pageVars, liveVars, voiceVars
  <2> QED BY <2>1, <2>2, LiveStepType, VoiceStepType, PageStepType DEF Next
<1> QED BY <1>1, <1>2, PTL DEF Spec

-----------------------------------------------------------------------------

\* After closeLiveProgram there is no reader, and no attempt that would make one.
LEMMA EndProgramInv ==
    ASSUME TypeOK, OneReader, NEW f, NEW retry \in BOOLEAN, EndProgram(f, retry),
           \A a \in Attempts : f[a] = phase[a] \/ f[a] = "free"
    PROVE  /\ OneReader' /\ current' = None /\ reader' = None
           /\ timer' = retry
  BY DEF EndProgram, OneReader, TypeOK

LEMMA CloseInv ==
    ASSUME TypeOK, OneReader, closeLiveProgram
    PROVE  OneReader' /\ NoProgram'
<1>1. EndProgram(phase, FALSE)
  BY DEF closeLiveProgram
<1> QED BY <1>1, EndProgramInv DEF NoProgram

\* Between the beginning of an attempt and its answer there is no reader.
LEMMA BeginInv ==
    ASSUME TypeOK, OneReader, enableLiveProgram
    PROVE  OneReader'
  BY NoneAssumption DEF enableLiveProgram, OneReader, TypeOK, liveVars

\* Steps that leave the program and what it depends on alone.
LEMMA LiveInvUnchanged ==
    ASSUME LiveInv, UNCHANGED <<page, mode, status, due, liveVars>>
    PROVE  LiveInv'
  BY DEF LiveInv, OneReader, OffIsOff, NoProgram, liveVars

LEMMA LiveStepInv ==
    ASSUME TypeOK, LiveInv, LiveStep
    PROVE  LiveInv'
<1> USE DEF LiveInv
<1>1. CASE LiveEffect
  <2>1. Mounted /\ due' = FALSE /\ UNCHANGED <<page, mode, status>>
    BY <1>1 DEF LiveEffect, pageVars
  <2>2. CASE closeLiveProgram
    BY <2>1, <2>2, CloseInv DEF OffIsOff, NoProgram, Mounted
  <2>3. CASE mode = "live" /\ status = "online" /\ enableLiveProgram
    BY <2>1, <2>3, BeginInv DEF OffIsOff, Mounted
  <2>4. CASE mode = "live" /\ status # "offline" /\ UNCHANGED liveVars
    BY <2>1, <2>4 DEF OffIsOff, OneReader, Mounted, liveVars
  <2> QED BY <1>1, <2>2, <2>3, <2>4 DEF LiveEffect
<1>2. CASE EnableSound
  <2>1. Mounted /\ UNCHANGED <<page, mode, status>> /\ (due => due')
    BY <1>2 DEF EnableSound, pageVars, TypeOK
  <2>2. CASE mode = "live" /\ status = "online" /\ enableLiveProgram
    BY <2>1, <2>2, BeginInv DEF OffIsOff, Mounted
  <2>3. CASE UNCHANGED liveVars
    BY <2>1, <2>3 DEF OffIsOff, OneReader, Mounted, NoProgram, liveVars
  <2> QED BY <1>2, <2>2, <2>3 DEF EnableSound
<1>3. CASE Reconnect
  <2>1. Mounted /\ UNCHANGED page /\ OneReader' /\ NoProgram'
    BY <1>3, CloseInv DEF Reconnect, pageVars
  <2> QED BY <2>1 DEF OffIsOff, NoProgram, Mounted
<1>4. ASSUME NEW a \in Attempts, AttemptFails(a) PROVE LiveInv'
  <2>1. UNCHANGED <<page, mode, status, due>>
    BY <1>4 DEF AttemptFails, pageVars
  <2>2. CASE a = current /\ EndProgram(Without(a), TRUE)
    <3>1. \A b \in Attempts : Without(a)[b] = phase[b] \/ Without(a)[b] = "free"
      BY DEF Without, TypeOK
    <3>2. OneReader'
      BY <2>2, <3>1, EndProgramInv
    <3>3. current # None
      BY <2>2, NoneAssumption
    <3> QED BY <2>1, <3>2, <3>3 DEF OffIsOff, NoProgram
  <2>3. CASE phase' = Without(a) /\ UNCHANGED <<current, reader, tracks, play, shown, timer>>
    BY <2>1, <2>3 DEF Without, OneReader, OffIsOff, NoProgram, TypeOK
  <2> QED BY <1>4, <2>2, <2>3 DEF AttemptFails
<1>5. ASSUME NEW a \in Attempts, AttemptSucceeds(a) PROVE LiveInv'
  <2>1. phase[a] = "requesting" /\ UNCHANGED <<page, mode, status, due, current, timer>>
    BY <1>5 DEF AttemptSucceeds, pageVars
  <2>2. CASE a = current /\ phase' = [phase EXCEPT ![a] = "reading"] /\ reader' = a
    <3>1. \A b \in Attempts : phase[b] # "reading"
      BY <2>1, <2>2 DEF OneReader
    <3>2. current # None
      BY <2>2, NoneAssumption
    <3> QED BY <2>1, <2>2, <3>1, <3>2 DEF OneReader, OffIsOff, NoProgram, TypeOK
  <2>3. CASE phase' = Without(a) /\ UNCHANGED reader
    BY <2>1, <2>3 DEF Without, OneReader, OffIsOff, NoProgram, TypeOK
  <2> QED BY <1>5, <2>2, <2>3 DEF AttemptSucceeds
<1>6. CASE ReaderFails
  <2>1. reader # None /\ UNCHANGED <<page, mode, status, due>> /\ EndProgram(phase, TRUE)
    BY <1>6 DEF ReaderFails, pageVars
  <2>2. OneReader'
    BY <2>1, EndProgramInv
  <2> QED BY <2>1, <2>2 DEF OffIsOff, NoProgram
<1>7. CASE TrackArrives
  BY <1>7 DEF TrackArrives, OneReader, OffIsOff, NoProgram, pageVars
<1>8. CASE PlaySettles
  BY <1>8 DEF PlaySettles, OneReader, OffIsOff, NoProgram, pageVars
<1>9. CASE RetryFires
  BY <1>9 DEF RetryFires, OneReader, OffIsOff, NoProgram, Mounted, pageVars
<1>10. CASE StatusArrives
  BY <1>10 DEF StatusArrives, OneReader, OffIsOff, NoProgram, Mounted, pageVars, liveVars
<1> QED BY <1>1, <1>2, <1>3, <1>4, <1>5, <1>6, <1>7, <1>8, <1>9, <1>10 DEF LiveStep

LEMMA PageStepInv ==
    ASSUME TypeOK, LiveInv, PageStep
    PROVE  LiveInv'
<1>1. CASE Bootstrap
  BY <1>1 DEF Bootstrap, LiveInv, OneReader, OffIsOff, NoProgram, liveVars
<1>2. CASE SocketOpens \/ SocketDrops \/ SocketRetries
  BY <1>2, LiveInvUnchanged DEF SocketOpens, SocketDrops, SocketRetries
<1>3. CASE SnapshotArrives
  BY <1>3 DEF SnapshotArrives, LiveInv, OneReader, OffIsOff, NoProgram, liveVars
<1>4. CASE Leave \/ Unmount
  <2>1. OneReader' /\ NoProgram' /\ page' # "loading"
    BY <1>4, CloseInv DEF Leave, Unmount, LiveInv
  <2> QED BY <2>1 DEF LiveInv, OffIsOff, NoProgram
<1> QED BY <1>1, <1>2, <1>3, <1>4 DEF PageStep

LEMMA LiveInvariance == Spec => []LiveInv
<1>1. Init => LiveInv
  BY DEF Init, LiveInv, OneReader, OffIsOff, NoProgram
<1>2. TypeOK /\ LiveInv /\ [Next]_vars => LiveInv'
  <2> SUFFICES ASSUME TypeOK, LiveInv, [Next]_vars PROVE LiveInv'
    OBVIOUS
  <2>1. CASE VoiceStep
    <3>1. UNCHANGED <<page, mode, status, due, liveVars>>
      BY <2>1 DEF VoiceStep, EnableVoice, VoiceCredential, VoiceJoined, VoiceStarted, VoiceFails,
                  MicrophoneAnswered, VoiceDrops, Disconnected, pageVars
    <3> QED BY <3>1, LiveInvUnchanged
  <2>2. CASE WindowPasses \/ UNCHANGED vars
    <3>1. UNCHANGED <<page, mode, status, due, liveVars>>
      BY <2>2 DEF WindowPasses, vars, pageVars
    <3> QED BY <3>1, LiveInvUnchanged
  <2> QED BY <2>1, <2>2, LiveStepInv, PageStepInv DEF Next
<1> QED BY <1>1, <1>2, TypeCorrect, PTL DEF Spec

\* There is one reader at most, the one that the page knows (enableLiveProgram).
THEOREM ReaderIsSingle == Spec => []OneReader
<1>1. LiveInv => OneReader
  BY DEF LiveInv
<1> QED BY <1>1, LiveInvariance, PTL

\* Where the program is off, no request, timer or reader is left that would start
\* it again, whatever answer or track arrives late (closeLiveProgram).
THEOREM ProgramStaysOff == Spec => []OffIsOff
<1>1. LiveInv => OffIsOff
  BY DEF LiveInv
<1> QED BY <1>1, LiveInvariance, PTL

-----------------------------------------------------------------------------

LEMMA VoiceStepJoining ==
    ASSUME TypeOK, JoiningIsUnderWay, VoiceStep
    PROVE  JoiningIsUnderWay'
<1>1. CASE EnableVoice
  BY <1>1 DEF EnableVoice, JoiningIsUnderWay, TypeOK
<1>2. ASSUME NEW c \in Calls, VoiceCredential(c) PROVE JoiningIsUnderWay'
  BY <1>2 DEF VoiceCredential, JoiningIsUnderWay, TypeOK
<1>3. ASSUME NEW c \in Calls, VoiceJoined(c) PROVE JoiningIsUnderWay'
  BY <1>3 DEF VoiceJoined, JoiningIsUnderWay, TypeOK
<1>4. ASSUME NEW c \in Calls, VoiceStarted(c) PROVE JoiningIsUnderWay'
  BY <1>4 DEF VoiceStarted, JoiningIsUnderWay, TypeOK
<1>5. ASSUME NEW c \in Calls, VoiceFails(c) \/ MicrophoneAnswered(c) \/ Disconnected(c)
      PROVE  JoiningIsUnderWay'
  BY <1>5 DEF VoiceFails, MicrophoneAnswered, Disconnected, JoiningIsUnderWay
<1>6. ASSUME NEW c \in Calls, VoiceDrops(c) PROVE JoiningIsUnderWay'
  BY <1>6 DEF VoiceDrops, JoiningIsUnderWay
<1> QED BY <1>1, <1>2, <1>3, <1>4, <1>5, <1>6 DEF VoiceStep

\* The page does not say that it is connecting for ever: an enableVoice is under
\* way whose end changes it.
THEOREM JoiningEnds == Spec => []JoiningIsUnderWay
<1>1. Init => JoiningIsUnderWay
  BY DEF Init, JoiningIsUnderWay
<1>2. TypeOK /\ JoiningIsUnderWay /\ [Next]_vars => JoiningIsUnderWay'
  <2> SUFFICES ASSUME TypeOK, JoiningIsUnderWay, [Next]_vars PROVE JoiningIsUnderWay'
    OBVIOUS
  <2>1. CASE LiveStep \/ WindowPasses \/ UNCHANGED vars
    <3>1. UNCHANGED <<step, voiceState>>
      BY <2>1 DEF LiveStep, WindowPasses, vars, LiveEffect, EnableSound, Reconnect, AttemptFails,
                  AttemptSucceeds, ReaderFails, TrackArrives, PlaySettles, RetryFires,
                  StatusArrives, voiceVars
    <3> QED BY <3>1 DEF JoiningIsUnderWay
  <2>2. CASE PageStep
    <3>1. UNCHANGED step /\ (UNCHANGED voiceState \/ voiceState' = "idle")
      BY <2>2 DEF PageStep, Bootstrap, SocketOpens, SocketDrops, SocketRetries, SnapshotArrives,
                  Leave, Unmount, voiceVars
    <3> QED BY <3>1 DEF JoiningIsUnderWay
  <2> QED BY <2>1, <2>2, VoiceStepJoining DEF Next
<1> QED BY <1>1, <1>2, TypeCorrect, PTL DEF Spec
=============================================================================
