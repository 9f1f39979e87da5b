------------------------------- MODULE VodSync -------------------------------
(***************************************************************************)
(* How a page keeps the film at the place the room is at (RoomPage.tsx:    *)
(* reconcileVod and what calls it; packages/sync).  The page computes the  *)
(* desired position from the transport of the last snapshot and from its   *)
(* estimate of the server's clock, and steers its video element there.     *)
(*                                                                         *)
(* Time passes in steps of 250 ms, and positions are counted in units of   *)
(* 25 microseconds, forty to the millisecond: a film at its normal rate    *)
(* advances by 10000 in a step.  Rates are counted in twentieths.          *)
(*                                                                         *)
(* Abstractions.                                                           *)
(*  - only the drift is kept, desired position minus currentTime; beyond   *)
(*    MaxDrift all drifts are the same.                                    *)
(*  - the film does not end.                                               *)
(*  - the estimate of the clock is that of one of the exchanges, as the    *)
(*    median of an odd number of them is.                                  *)
(***************************************************************************)
EXTENDS Integers

CONSTANTS
    Rates,      \* rates that the host may set, in twentieths
    Delays,     \* delays of a message between page and server, in milliseconds
    Jumps,      \* how far a seek or another film is from the page's position
    MaxDrift,   \* bound: drifts beyond it are cut off
    MaxEvents,  \* bound: what happens to the page beside the passing of time
    None

Ms(n) == 40 * n

Normal == 20    \* a rate of 1
Slowest == 10   \* 0.5, what playbackRate is kept above
Fastest == 40   \* 2
Lead == 3       \* 750 ms
Period == 2     \* 500 ms
Patience == 20  \* 5 s

ASSUME RateAssumption == Rates \subseteq Slowest .. Fastest /\ Normal \in Rates
ASSUME DelayAssumption == Delays \subseteq Nat
ASSUME DriftAssumption ==
    /\ MaxDrift \in Nat /\ MaxDrift > Ms(1000)
    /\ Jumps \subseteq -MaxDrift .. MaxDrift
ASSUME BoundAssumption == MaxEvents \in Nat /\ None \notin Nat

VARIABLES
    transport,  \* of the last snapshot; lead: steps until its anchor
    drift,      \* desired position - currentTime
    video,      \* the video element; speed: units in a step, from playbackRate
    enabled,    \* programEnabled
    offset,     \* twice the error of clockOffsetMsRef, in milliseconds
    since,      \* steps since the interval of 500 ms fired
    excess,     \* steps since excessiveDriftSinceRef, or None
    syncFailed,
    events      \* how many events there were

vars == <<transport, drift, video, enabled, offset, since, excess, syncFailed, events>>

Transport == [state : {"playing", "paused"}, rate : Rates, lead : 0..Lead]
Video == [loaded : {"nothing", "metadata", "seekable"}, rolling : BOOLEAN,
          stalled : BOOLEAN, speed : Nat]

\* Everything the page keeps has its type, and the video's speed is one that
\* a browser plays.
TypeOK ==
    /\ transport \in Transport
    /\ drift \in -MaxDrift .. MaxDrift
    /\ video \in Video /\ video.speed \in 500 * Slowest .. 500 * Fastest
    /\ enabled \in BOOLEAN
    /\ offset \in Int
    /\ since \in 0..Period
    /\ excess \in 0..Patience \cup {None}
    /\ syncFailed \in BOOLEAN
    /\ events \in 0..MaxEvents

Cut(d) == IF d > MaxDrift THEN MaxDrift ELSE IF d < -MaxDrift THEN -MaxDrift ELSE d

Away(d, n) == d > n \/ d < -n

-----------------------------------------------------------------------------
(* packages/sync *)

\* A message and its answer take out and back; the clocks differ by skew.
Sample(out, back, skew, at, busy) ==
    [clientSentAt |-> at, serverReceivedAt |-> at + out + skew,
     serverSentAt |-> at + out + busy + skew, clientReceivedAt |-> at + out + busy + back]

\* estimateClock; twice the offset, which is halved in the code.
TwiceOffset(s) ==
    (s.serverReceivedAt - s.clientSentAt) + (s.serverSentAt - s.clientReceivedAt)

RoundTrip(s) ==
    (s.clientReceivedAt - s.clientSentAt) - (s.serverSentAt - s.serverReceivedAt)

Clamp(speed) ==
    IF speed > 500 * Fastest THEN 500 * Fastest
    ELSE IF speed < 500 * Slowest THEN 500 * Slowest ELSE speed

\* Mutant: the film is slowed down when it is behind.
CorrectedTheWrongWay(d, rate) ==
    IF ~ Away(d, Ms(120)) \/ Away(d, Ms(500)) THEN 500 * rate
    ELSE Clamp(IF d < 0 THEN 515 * rate ELSE 485 * rate)

\* decideDriftCorrection: the speed, 3 % off the rate for drifts in between.
Corrected(d, rate) ==
    IF ~ Away(d, Ms(120)) \/ Away(d, Ms(500)) THEN 500 * rate
    ELSE Clamp(IF d > 0 THEN 515 * rate ELSE 485 * rate)

-----------------------------------------------------------------------------
(* reconcileVod, for a transport, a drift and a video *)

\* Setting currentTime has no effect while there is no more than metadata.
SeekTo(d, v) == IF v.loaded = "seekable" THEN 0 ELSE d

Hold(t, d, v) ==
    /\ t.state = "paused"
    /\ drift' = IF Away(d, Ms(50)) THEN SeekTo(d, v) ELSE d
    /\ video' = [v EXCEPT !.rolling = FALSE, !.speed = 500 * t.rate]
    /\ excess' = None /\ syncFailed' = FALSE

\* Mutant: nothing but a pause takes the failure back.
FollowWithoutReset(t, d, v) ==
    /\ t.state = "playing"
    /\ drift' = IF Away(d, Ms(500)) THEN SeekTo(d, v) ELSE d
    /\ video' = [v EXCEPT !.rolling = enabled', !.speed = Corrected(d, t.rate)]
    /\ excess' = IF ~ Away(d, Ms(1000)) THEN None ELSE IF excess = None THEN 0 ELSE excess
    /\ syncFailed' = (syncFailed \/ (Away(d, Ms(1000)) /\ excess = Patience))

\* The drift is judged as it was before the seek.
Follow(t, d, v) ==
    /\ t.state = "playing"
    /\ drift' = IF Away(d, Ms(500)) THEN SeekTo(d, v) ELSE d
    /\ video' = [v EXCEPT !.rolling = enabled', !.speed = Corrected(d, t.rate)]
    /\ excess' = IF ~ Away(d, Ms(1000)) THEN None ELSE IF excess = None THEN 0 ELSE excess
    /\ syncFailed' = (Away(d, Ms(1000)) /\ (syncFailed \/ excess = Patience))

\* A video without metadata is left alone.
Reconcile(t, d, v) ==
    \/ /\ v.loaded = "nothing"
       /\ drift' = d /\ video' = v /\ UNCHANGED <<excess, syncFailed>>
    \/ v.loaded # "nothing" /\ (Hold(t, d, v) \/ Follow(t, d, v))

-----------------------------------------------------------------------------
(* Snapshots of the room *)

Count == events < MaxEvents /\ events' = events + 1

\* Until the anchor of a snapshot, lead steps from now, the desired position
\* stands still.
Snapshot(state, rate, lead, d) ==
    /\ Count
    /\ transport' = [state |-> state, rate |-> rate, lead |-> lead]
    /\ enabled' = enabled
    /\ Reconcile(transport', Cut(d), video)
    /\ UNCHANGED <<offset, since>>

\* The position that the server projects to the new anchor is ahead of the one
\* that the page follows now.
Ahead(lead) ==
    IF transport.state = "playing" THEN 500 * transport.rate * (lead - transport.lead) ELSE 0

Leads == transport.lead .. Lead

PlayOrPause ==
    \E state \in {"playing", "paused"}, lead \in Leads :
        Snapshot(state, transport.rate, lead, drift + Ahead(lead))

SetRate ==
    \E rate \in Rates, lead \in Leads :
        Snapshot(transport.state, rate, lead, drift + Ahead(lead))

SeekFilm ==
    \E jump \in Jumps, lead \in Leads :
        Snapshot(transport.state, transport.rate, lead, jump)

-----------------------------------------------------------------------------
(* The page and its video element *)

\* enableProgramSound
EnableSound ==
    /\ ~ enabled
    /\ enabled' = TRUE
    /\ Reconcile(transport, drift, video)
    /\ UNCHANGED <<transport, offset, since, events>>

Empty == [video EXCEPT !.loaded = "nothing", !.rolling = FALSE, !.stalled = FALSE]

\* The element gets another src.
SelectFilm ==
    /\ Count
    /\ \E jump \in Jumps, lead \in Leads :
           /\ transport' = [state |-> "paused", rate |-> Normal, lead |-> lead]
           /\ drift' = jump
    /\ video' = Empty /\ since' = 0
    /\ UNCHANGED <<enabled, offset, excess, syncFailed>>

\* reloadVodProgram
Reload ==
    /\ Count
    /\ \E jump \in Jumps : drift' = jump
    /\ video' = Empty
    /\ excess' = None /\ syncFailed' = FALSE
    /\ UNCHANGED <<transport, enabled, offset, since>>

\* loadedmetadata, and then canplay.
Load ==
    \E from, to \in {"nothing", "metadata", "seekable"} :
        /\ video.loaded = from
        /\ <<from, to>> \in {<<"nothing", "metadata">>, <<"metadata", "seekable">>}
        /\ enabled' = enabled
        /\ Reconcile(transport, drift, [video EXCEPT !.loaded = to])
        /\ UNCHANGED <<transport, offset, since, events>>

\* The buffer runs empty, and fills again.
Stall ==
    /\ Count
    /\ video.rolling /\ ~ video.stalled
    /\ video' = [video EXCEPT !.stalled = TRUE]
    /\ UNCHANGED <<transport, drift, enabled, offset, since, excess, syncFailed>>

Resume ==
    /\ video.stalled
    /\ video' = [video EXCEPT !.stalled = FALSE]
    /\ UNCHANGED <<transport, drift, enabled, offset, since, excess, syncFailed, events>>

\* clock.pong: the estimate moves, and the desired position with it.
Pong ==
    /\ Count
    /\ \E out, back \in Delays :
           offset' = TwiceOffset(Sample(out, back, 0, 0, 0))
    /\ drift' = IF transport.state = "playing" /\ transport.lead = 0
                THEN Cut(drift + transport.rate * (offset' - offset)) ELSE drift
    /\ UNCHANGED <<transport, video, enabled, since, excess, syncFailed>>

\* The interval, and the other events of the element.
Periodic ==
    /\ since = Period /\ since' = 0
    /\ enabled' = enabled
    /\ Reconcile(transport, drift, video)
    /\ UNCHANGED <<transport, offset, events>>

ElementEvent ==
    /\ video.loaded = "seekable"
    /\ enabled' = enabled
    /\ Reconcile(transport, drift, video)
    /\ UNCHANGED <<transport, offset, since, events>>

Desired == IF transport.state = "playing" /\ transport.lead = 0 THEN 500 * transport.rate ELSE 0
Shown == IF video.rolling /\ ~ video.stalled /\ video.loaded # "nothing" THEN video.speed ELSE 0

TimePasses ==
    /\ since < Period /\ since' = since + 1
    /\ drift' = Cut(drift + Desired - Shown)
    /\ transport' = [transport EXCEPT !.lead = IF @ = 0 THEN 0 ELSE @ - 1]
    /\ excess' = IF excess = None \/ excess = Patience THEN excess ELSE excess + 1
    /\ UNCHANGED <<video, enabled, offset, syncFailed, events>>

Init ==
    /\ transport \in [state : {"playing", "paused"}, rate : Rates, lead : {0}]
    /\ drift \in Jumps
    /\ video = [loaded |-> "nothing", rolling |-> FALSE, stalled |-> FALSE,
                speed |-> 500 * Normal]
    /\ enabled = FALSE
    /\ offset = 0 /\ since = 0
    /\ excess = None /\ syncFailed = FALSE
    /\ events = 0

Next ==
    \/ PlayOrPause \/ SetRate \/ SeekFilm \/ SelectFilm
    \/ EnableSound \/ Reload \/ Load \/ Stall \/ Resume \/ Pong
    \/ Periodic \/ ElementEvent \/ TimePasses

Spec == Init /\ [][Next]_vars

\* The interval and the clock go on; what the element loads arrives.
Fairness == WF_vars(TimePasses) /\ WF_vars(Periodic) /\ WF_vars(Load) /\ WF_vars(Resume)

FairSpec == Spec /\ Fairness

-----------------------------------------------------------------------------
(* Properties *)

InSync == ~ Away(drift, Ms(120))

\* The rate that would catch up is beyond what playbackRate is kept to.
AtTheLimit ==
    \/ drift > 0 /\ Clamp(515 * transport.rate) = 500 * transport.rate
    \/ drift < 0 /\ Clamp(485 * transport.rate) = 500 * transport.rate

Watching == enabled /\ transport.state = "playing"

\* Whatever happened to the page - commands whose anchor is still to come,
\* seeks, stalls, a moving clock, a video that was loaded anew - it comes to
\* the room's position and stays there, unless the rate that would correct the
\* drift is out of bounds (reconcileVod, decideDriftCorrection).
PagesCatchUp == <>[]Watching => <>[](InSync \/ AtTheLimit)

\* The page does not keep saying that it cannot synchronize once its video takes
\* seeks again; the drift that is judged, and the time since the first excessive
\* one, are those from before the seek (reconcileVod).
FailureClears == syncFailed /\ video.loaded = "seekable" ~> ~ syncFailed
=============================================================================
