------------------------------ MODULE RoomPage ------------------------------
(***************************************************************************)
(* The page of a guest in a room (RoomPage.tsx): its WebSocket, the live   *)
(* program that it receives over WHEP and the voice room that it joins.    *)
(* Requests, the reader's exchanges, the browser's answers and LiveKit's   *)
(* events come back when the page may have gone on to something else.      *)
(*                                                                         *)
(* Abstractions.                                                           *)
(*  - liveReaderGenerationRef: an attempt is current as long as no other   *)
(*    was begun and the program was not closed, so `current' is enough.    *)
(*  - a reader, from its codecs to its tracks, either delivers or calls    *)
(*    onError; the restart that it plans before it calls is cancelled by   *)
(*    the page closing it in the same step.                                *)
(*  - a reader delivers one track of each kind, so that decideProgramTrack *)
(*    accepts all of them.                                                 *)
(*  - as a host, or with a film, the mode is "other".                      *)
(***************************************************************************)
EXTENDS Naturals

CONSTANTS
    Attempts,    \* calls of enableLiveProgram that may be under way
    Calls,       \* LiveKit rooms of enableVoice that may exist
    Limit,       \* credential requests that are allowed in a window
    MaxFailures, \* bound: requests, readers, playbacks and calls that fail
    None

ASSUME LimitAssumption == Limit \in Nat \ {0}
ASSUME BoundAssumption == MaxFailures \in Nat
ASSUME NoneAssumption == None \notin Attempts \cup Calls

VARIABLES
    page, socket, mode,
    status,      \* liveStatus.data
    enabled,     \* programEnabled
    due,         \* what the live effect depends on has changed
    phase,       \* of each attempt
    current,     \* the attempt of the present generation
    reader,      \* liveReaderRef
    tracks,      \* liveTracksRef
    play,        \* a promise of play() is pending
    shown,       \* liveProgramState
    timer,       \* the retry timer runs
    used,        \* count of the credential bucket of this account
    step, link,  \* of each call: how far enableVoice is, and the connection
    voice,       \* voiceRoomRef
    voiceState,
    failures     \* how many there were

pageVars == <<page, socket, mode>>
liveVars == <<phase, current, reader, tracks, play, shown, timer>>
voiceVars == <<step, link, voice, voiceState>>
vars == <<pageVars, status, enabled, due, liveVars, used, voiceVars, failures>>

Kinds == {"audio", "video"}

TypeOK ==
    /\ page \in {"loading", "here", "leaving", "gone"}
    /\ socket \in {"none", "connecting", "open", "waiting"}
    /\ mode \in {"live", "other"}
    /\ status \in {"unknown", "online", "offline"}
    /\ enabled \in BOOLEAN /\ due \in BOOLEAN
    /\ phase \in [Attempts -> {"free", "requesting", "reading"}]
    /\ current \in Attempts \cup {None} /\ reader \in Attempts \cup {None}
    /\ tracks \subseteq Kinds /\ play \in BOOLEAN
    /\ shown \in {"idle", "connecting", "playing", "error"}
    /\ timer \in BOOLEAN
    /\ used \in 0..Limit
    /\ step \in [Calls -> {"free", "requesting", "joining", "starting", "asking", "done", "failed"}]
    /\ link \in [Calls -> {"off", "on", "closing"}]
    /\ voice \in Calls \cup {None}
    /\ voiceState \in {"idle", "connecting", "connected", "error"}
    /\ failures \in 0..MaxFailures

Init ==
    /\ page = "loading" /\ socket = "none" /\ mode = "other"
    /\ status = "unknown" /\ enabled = FALSE /\ due = FALSE
    /\ phase = [a \in Attempts |-> "free"]
    /\ current = None /\ reader = None
    /\ tracks = {} /\ play = FALSE /\ shown = "idle" /\ timer = FALSE
    /\ used = 0
    /\ step = [c \in Calls |-> "free"] /\ link = [c \in Calls |-> "off"]
    /\ voice = None /\ voiceState = "idle"
    /\ failures = 0

Mounted == page \in {"here", "leaving"}

Fail == failures < MaxFailures /\ failures' = failures + 1

-----------------------------------------------------------------------------
(* The rate limiter *)

\* Mutant: one request more than the limit.
RecordedPastLimit == used <= Limit /\ used' = used + 1

\* isAllowed and record, in the hook of every request for a credential.
Recorded == used < Limit /\ used' = used + 1

RateLimited == used = Limit /\ UNCHANGED used

WindowPasses ==
    /\ used > 0 /\ used' = 0
    /\ UNCHANGED <<pageVars, status, enabled, due, liveVars, voiceVars, failures>>

-----------------------------------------------------------------------------
(* The live program *)

Without(a) == [phase EXCEPT ![a] = "free"]

\* Mutant: an attempt whose credential is still to come goes on.
EndProgramKeepingAttempt(attempts, retry) ==
    /\ phase' = [a \in Attempts |-> IF a = reader THEN "free" ELSE attempts[a]]
    /\ current' = current /\ reader' = None /\ tracks' = {}
    /\ play' = FALSE
    /\ timer' = retry
    /\ shown' = IF retry \/ play THEN "error" ELSE "idle"

\* closeLiveProgram; with retry, scheduleLiveRetry.  A promise of play() that is
\* pending is rejected with the stream that it was for.
EndProgram(attempts, retry) ==
    /\ phase' = [a \in Attempts |-> IF a = reader THEN "free" ELSE attempts[a]]
    /\ current' = None /\ reader' = None /\ tracks' = {}
    /\ play' = FALSE
    /\ timer' = retry
    /\ shown' = IF retry \/ play THEN "error" ELSE "idle"

closeLiveProgram == EndProgram(phase, FALSE)

\* enableLiveProgram, up to its request.
enableLiveProgram ==
    IF reader # None THEN UNCHANGED liveVars
    ELSE /\ \E a \in Attempts :
                /\ phase[a] = "free"
                /\ phase' = [phase EXCEPT ![a] = "requesting"]
                /\ current' = a
         /\ shown' = "connecting"
         /\ UNCHANGED <<reader, tracks, play, timer>>

\* The effect on isHost, liveRetry, the status, programEnabled and the mode.
LiveEffect ==
    /\ Mounted /\ due /\ due' = FALSE
    /\ \/ mode # "live" /\ closeLiveProgram
       \/ mode = "live" /\ enabled /\ status = "online" /\ enableLiveProgram
       \/ mode = "live" /\ status = "offline" /\ closeLiveProgram
       \/ /\ mode = "live" /\ status # "offline" /\ ~ (enabled /\ status = "online")
          /\ UNCHANGED liveVars
    /\ UNCHANGED <<pageVars, status, enabled, used, voiceVars, failures>>

\* enableProgramSound
EnableSound ==
    /\ Mounted
    /\ enabled' = TRUE /\ due' = (due \/ ~ enabled)
    /\ IF mode = "live" /\ status = "online" THEN enableLiveProgram ELSE UNCHANGED liveVars
    /\ UNCHANGED <<pageVars, status, used, voiceVars, failures>>

\* reconnectLiveProgram
Reconnect ==
    /\ Mounted /\ mode = "live"
    /\ closeLiveProgram
    /\ enabled' = TRUE /\ due' = TRUE
    /\ UNCHANGED <<pageVars, status, used, voiceVars, failures>>

\* The rest of enableLiveProgram, which an attempt of an earlier generation
\* leaves without a trace.
AttemptFails(a) ==
    /\ phase[a] = "requesting"
    /\ \/ RateLimited /\ UNCHANGED failures
       \/ Recorded /\ Fail
    /\ IF a = current THEN EndProgram(Without(a), TRUE)
       ELSE /\ phase' = Without(a)
            /\ UNCHANGED <<current, reader, tracks, play, shown, timer>>
    /\ UNCHANGED <<pageVars, status, enabled, due, voiceVars>>

\* Mutant: the generation is not looked at again after the answer.
AttemptSucceedsLate(a) ==
    /\ phase[a] = "requesting" /\ Recorded
    /\ phase' = [phase EXCEPT ![a] = "reading"] /\ reader' = a
    /\ UNCHANGED <<pageVars, status, enabled, due, current, tracks, play, shown, timer,
                   voiceVars, failures>>

AttemptSucceeds(a) ==
    /\ phase[a] = "requesting" /\ Recorded
    /\ \/ a = current /\ phase' = [phase EXCEPT ![a] = "reading"] /\ reader' = a
       \/ a # current /\ phase' = Without(a) /\ UNCHANGED reader
    /\ UNCHANGED <<pageVars, status, enabled, due, current, tracks, play, shown, timer,
                   voiceVars, failures>>

\* onError of the reader: its codecs, its requests or its peer connection.
ReaderFails ==
    /\ reader # None /\ reader = current /\ Fail
    /\ EndProgram(phase, TRUE)
    /\ UNCHANGED <<pageVars, status, enabled, due, used, voiceVars>>

\* onTrack: with both tracks, the page asks the video to play.
TrackArrives ==
    /\ reader # None /\ reader = current
    /\ \E kind \in Kinds \ tracks : tracks' = tracks \cup {kind}
    /\ play' = (tracks' = Kinds)
    /\ UNCHANGED <<pageVars, status, enabled, due, phase, current, reader, shown, timer,
                   used, voiceVars, failures>>

PlaySettles ==
    /\ play /\ play' = FALSE
    /\ \/ shown' = "playing" /\ UNCHANGED failures
       \/ shown' = "error" /\ Fail
    /\ UNCHANGED <<pageVars, status, enabled, due, phase, current, reader, tracks, timer,
                   used, voiceVars>>

\* Mutant: the timer does not count liveRetry up.
RetryFiresUnseen ==
    /\ Mounted /\ timer /\ timer' = FALSE
    /\ UNCHANGED <<pageVars, status, enabled, due, phase, current, reader, tracks, play, shown,
                   used, voiceVars, failures>>

\* The timer of scheduleLiveRetry counts liveRetry up.
RetryFires ==
    /\ Mounted /\ timer /\ timer' = FALSE
    /\ due' = TRUE
    /\ UNCHANGED <<pageVars, status, enabled, phase, current, reader, tracks, play, shown,
                   used, voiceVars, failures>>

\* The query of every two seconds, which goes on in live mode only.
StatusArrives ==
    /\ Mounted /\ mode = "live"
    /\ \E s \in {"unknown", "online", "offline"} \ {status} : status' = s
    /\ due' = TRUE
    /\ UNCHANGED <<pageVars, enabled, liveVars, used, voiceVars, failures>>

-----------------------------------------------------------------------------
(* The voice room *)

\* room.disconnect(), which reports Disconnected like any other end of it.
Hung(c) == [x \in Calls |-> IF x = c /\ link[x] = "on" THEN "closing" ELSE link[x]]

\* enableVoice; the button is there unless the voice is connected.
EnableVoice ==
    /\ Mounted /\ voiceState \in {"idle", "error"}
    /\ voiceState' = "connecting"
    /\ \E c \in Calls :
           /\ step[c] = "free" /\ link[c] = "off"
           /\ step' = [step EXCEPT ![c] = "requesting"]
    /\ UNCHANGED <<pageVars, status, enabled, due, liveVars, used, link, voice, failures>>

\* The credential is there, and the room is joined next.
VoiceCredential(c) ==
    /\ step[c] = "requesting" /\ Recorded
    /\ step' = [step EXCEPT ![c] = "joining"]
    /\ UNCHANGED <<pageVars, status, enabled, due, liveVars, link, voice, voiceState, failures>>

\* LiveKit has one participant for a member: the older one is disconnected.
VoiceJoined(c) ==
    /\ step[c] = "joining"
    /\ step' = [step EXCEPT ![c] = "starting"]
    /\ link' = [x \in Calls |-> IF x = c THEN "on"
                                ELSE IF link[x] = "on" THEN "closing" ELSE link[x]]
    /\ UNCHANGED <<pageVars, status, enabled, due, liveVars, used, voice, voiceState, failures>>

VoiceStarted(c) ==
    /\ step[c] = "starting"
    /\ step' = [step EXCEPT ![c] = "asking"]
    /\ voice' = c
    /\ UNCHANGED <<pageVars, status, enabled, due, liveVars, used, link, voiceState, failures>>

\* Mutant: the catch does not tell the page.
VoiceFailsQuietly(c) ==
    /\ \/ step[c] = "requesting" /\ RateLimited /\ UNCHANGED failures
       \/ step[c] = "requesting" /\ Recorded /\ Fail
       \/ step[c] \in {"joining", "starting"} /\ Fail /\ UNCHANGED used
    /\ step' = [step EXCEPT ![c] = IF link[c] = "off" THEN "free" ELSE "failed"]
    /\ link' = Hung(voice) /\ voice' = None
    /\ UNCHANGED <<pageVars, status, enabled, due, liveVars, voiceState>>

\* The catch of enableVoice disconnects the room of voiceRoomRef, which this
\* one is not yet.
VoiceFails(c) ==
    /\ \/ step[c] = "requesting" /\ RateLimited /\ UNCHANGED failures
       \/ step[c] = "requesting" /\ Recorded /\ Fail
       \/ step[c] \in {"joining", "starting"} /\ Fail /\ UNCHANGED used
    /\ step' = [step EXCEPT ![c] = IF link[c] = "off" THEN "free" ELSE "failed"]
    /\ link' = Hung(voice) /\ voice' = None
    /\ voiceState' = "error"
    /\ UNCHANGED <<pageVars, status, enabled, due, liveVars>>

\* The microphone is granted or refused; either way the voice is connected.
MicrophoneAnswered(c) ==
    /\ step[c] = "asking"
    /\ step' = [step EXCEPT ![c] = IF link[c] = "off" THEN "free" ELSE "done"]
    /\ voiceState' = "connected"
    /\ UNCHANGED <<pageVars, status, enabled, due, liveVars, used, link, voice, failures>>

\* The network or the server ends it.
VoiceDrops(c) ==
    /\ link[c] = "on" /\ Fail
    /\ link' = [link EXCEPT ![c] = "closing"]
    /\ UNCHANGED <<pageVars, status, enabled, due, liveVars, used, step, voice, voiceState>>

\* RoomEvent.Disconnected
Disconnected(c) ==
    /\ link[c] = "closing"
    /\ link' = [link EXCEPT ![c] = "off"]
    /\ step' = [step EXCEPT ![c] = IF @ \in {"done", "failed"} THEN "free" ELSE @]
    /\ voiceState' = "idle"
    /\ UNCHANGED <<pageVars, status, enabled, due, liveVars, used, voice, failures>>

-----------------------------------------------------------------------------
(* The page *)

\* The bootstrap, and the connection that follows it.
Bootstrap ==
    /\ page = "loading" /\ page' = "here" /\ socket' = "connecting"
    /\ mode' \in {"live", "other"} /\ due' = (mode' # mode)
    /\ UNCHANGED <<status, enabled, liveVars, used, voiceVars, failures>>

SocketOpens ==
    /\ page = "here" /\ socket = "connecting" /\ socket' = "open"
    /\ UNCHANGED <<page, mode, status, enabled, due, liveVars, used, voiceVars, failures>>

\* Closed with a code that the page connects again after.
SocketDrops ==
    /\ page = "here" /\ socket \in {"connecting", "open"} /\ socket' = "waiting"
    /\ Fail
    /\ UNCHANGED <<page, mode, status, enabled, due, liveVars, used, voiceVars>>

SocketRetries ==
    /\ page = "here" /\ socket = "waiting" /\ socket' = "connecting"
    /\ UNCHANGED <<page, mode, status, enabled, due, liveVars, used, voiceVars, failures>>

\* A snapshot of the other mode, or with another host.
SnapshotArrives ==
    /\ page = "here" /\ socket = "open"
    /\ mode' \in {"live", "other"} \ {mode} /\ due' = TRUE
    /\ UNCHANGED <<page, socket, status, enabled, liveVars, used, voiceVars, failures>>

\* Closed with 4001, 4003 or 4010; leaveRoom and closeRoom end the same way,
\* but that they leave voiceRoomRef alone.
Leave ==
    /\ page = "here" /\ page' = "leaving"
    /\ \/ socket = "open" /\ socket' = "none" /\ voice' = None /\ voiceState' = "idle"
       \/ UNCHANGED <<socket, voice, voiceState>>
    /\ closeLiveProgram /\ link' = Hung(voice)
    /\ UNCHANGED <<mode, status, enabled, due, used, step, failures>>

\* The cleanups of the effects, after navigate() or a link.
Unmount ==
    /\ page # "gone" /\ page' = "gone" /\ socket' = "none" /\ mode' = "other"
    /\ closeLiveProgram /\ link' = Hung(voice) /\ voice' = None
    /\ UNCHANGED <<status, enabled, due, used, step, voiceState, failures>>

-----------------------------------------------------------------------------

LiveStep ==
    \/ LiveEffect \/ EnableSound \/ Reconnect
    \/ \E a \in Attempts : AttemptFails(a) \/ AttemptSucceeds(a)
    \/ ReaderFails \/ TrackArrives \/ PlaySettles \/ RetryFires \/ StatusArrives

VoiceStep ==
    \/ EnableVoice
    \/ \E c \in Calls :
          \/ VoiceCredential(c) \/ VoiceJoined(c) \/ VoiceStarted(c) \/ VoiceFails(c)
          \/ MicrophoneAnswered(c) \/ VoiceDrops(c) \/ Disconnected(c)

PageStep ==
    \/ Bootstrap \/ SocketOpens \/ SocketDrops \/ SocketRetries
    \/ SnapshotArrives \/ Leave \/ Unmount

Next == LiveStep \/ VoiceStep \/ PageStep \/ WindowPasses

Spec == Init /\ [][Next]_vars

\* React runs effects, timers fire, and what was asked for is answered.
Fairness ==
    /\ WF_vars(LiveEffect) /\ WF_vars(RetryFires) /\ WF_vars(WindowPasses)
    /\ \A a \in Attempts : WF_vars(AttemptSucceeds(a) \/ AttemptFails(a))
    /\ WF_vars(TrackArrives) /\ WF_vars(PlaySettles)

FairSpec == Spec /\ Fairness

-----------------------------------------------------------------------------
(* Properties *)

\* However requests, errors, clicks and the effect are ordered, a reader that is
\* not closed is the one that the page knows and whose tracks it shows
\* (enableLiveProgram).
OneReader == \A a \in Attempts : phase[a] = "reading" => a = reader /\ a = current

\* Once the effect has run in another mode or without a stream, and after the
\* page is gone, there is no program, and nothing under way that would start
\* one again (closeLiveProgram).
OffIsOff ==
    (page = "gone" \/ (~ due /\ (mode = "other" \/ status = "offline")))
        => current = None /\ reader = None /\ ~ timer

Watching == page = "here" /\ mode = "live" /\ enabled /\ status = "online"

\* play() was rejected although the stream is there.
Blocked == reader # None /\ tracks = Kinds /\ ~ play /\ shown = "error"

Clicks == EnableSound \/ Reconnect

\* Whatever failed and whenever it was refused for its rate, the program comes
\* back as long as the room is live and nobody clicks, unless the browser
\* blocks it (scheduleLiveRetry, and the reader's errors).
LiveComesBack ==
    <>[]Watching /\ <>[][~ Clicks]_vars => <>[](shown = "playing" \/ Blocked)

\* The button that joins the voice is not left disabled: while the page says
\* that it is connecting, an enableVoice is under way that will say otherwise,
\* however its rooms end and fail in between (enableVoice, Disconnected).
JoiningIsUnderWay ==
    voiceState = "connecting"
        => \E c \in Calls : step[c] \in {"requesting", "joining", "starting", "asking"}
=============================================================================
