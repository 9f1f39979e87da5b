--------------------------- MODULE VodSync_proofs ---------------------------
(***************************************************************************)
(* Proofs about VodSync, for all rates, delays, jumps and bounds.          *)
(***************************************************************************)
EXTENDS VodSync, TLAPS

\* The estimate of the clock is off by no more than half a round trip, however
\* long the message and its answer took and however far the clocks are apart
\* (estimateClock; TwiceOffset is twice the offset).
THEOREM EstimateError ==
    ASSUME NEW out \in Nat, NEW back \in Nat, NEW busy \in Nat,
           NEW skew \in Int, NEW at \in Int
    PROVE  LET s == Sample(out, back, skew, at, busy)
           IN  /\ RoundTrip(s) = out + back
               /\ TwiceOffset(s) - 2 * skew <= RoundTrip(s)
               /\ 2 * skew - TwiceOffset(s) <= RoundTrip(s)
  BY DEF Sample, RoundTrip, TwiceOffset

LEMMA Between ==
    ASSUME NEW x \in Int, NEW low \in Nat, NEW high \in Nat, low <= x, x <= high
    PROVE  x \in low .. high /\ x \in Nat
  OBVIOUS

LEMMA PlayedSpeed ==
    ASSUME NEW x \in Int, 5000 <= x, x <= 20000
    PROVE  x \in 500 * Slowest .. 500 * Fastest /\ x \in Nat
<1>1. /\ 500 * Slowest \in Nat /\ 500 * Fastest \in Nat
      /\ 500 * Slowest <= x /\ x <= 500 * Fastest
  BY DEF Slowest, Fastest
<1> QED BY <1>1, Between

\* A speed that the correction asks for is one that browsers play, and within
\* 3 % of the rate.
LEMMA CorrectedSpeed ==
    ASSUME NEW d \in Int, NEW rate \in Slowest .. Fastest
    PROVE  /\ Corrected(d, rate) \in 500 * Slowest .. 500 * Fastest
           /\ Corrected(d, rate) \in Nat
           /\ 485 * rate <= Corrected(d, rate) /\ Corrected(d, rate) <= 515 * rate
<1> DEFINE Fine(x) == /\ x \in Int /\ 5000 <= x /\ x <= 20000
                      /\ 485 * rate <= x /\ x <= 515 * rate
<1>1. rate \in Int /\ 10 <= rate /\ rate <= 40
  BY DEF Slowest, Fastest
<1>2. \/ Corrected(d, rate) = 500 * rate
      \/ Corrected(d, rate) = Clamp(515 * rate)
      \/ Corrected(d, rate) = Clamp(485 * rate)
  BY DEF Corrected
<1>3. Fine(500 * rate) /\ Fine(Clamp(515 * rate)) /\ Fine(Clamp(485 * rate))
  BY <1>1 DEF Clamp, Slowest, Fastest
<1>4. Fine(Corrected(d, rate))
  <2> HIDE DEF Fine
  <2> QED BY <1>2, <1>3
<1>5. /\ Corrected(d, rate) \in Int
      /\ 5000 <= Corrected(d, rate) /\ Corrected(d, rate) <= 20000
      /\ 485 * rate <= Corrected(d, rate) /\ Corrected(d, rate) <= 515 * rate
  BY <1>4
<1> QED BY <1>5, PlayedSpeed

\* While the page plays at a corrected speed, its drift shrinks in every step
\* of time, and it does not pass the room's position, unless the speed that
\* would correct it is out of bounds (decideDriftCorrection).
THEOREM CorrectionHelps ==
    ASSUME NEW d \in Int, NEW rate \in Slowest .. Fastest,
           Away(d, Ms(120)), ~ Away(d, Ms(500))
    PROVE  LET e == d + 500 * rate - Corrected(d, rate)
           IN  /\ d > 0 => 0 < e /\ (e < d \/ Clamp(515 * rate) = 500 * rate)
               /\ d < 0 => e < 0 /\ (d < e \/ Clamp(485 * rate) = 500 * rate)
  BY DEF Corrected, Clamp, Away, Ms, Slowest, Fastest

LEMMA CutInRange ==
    ASSUME NEW d \in Int
    PROVE  Cut(d) \in -MaxDrift .. MaxDrift
  BY DriftAssumption DEF Cut

-----------------------------------------------------------------------------

LEMMA NormalSpeed ==
    ASSUME NEW rate \in Slowest .. Fastest
    PROVE  500 * rate \in 500 * Slowest .. 500 * Fastest /\ 500 * rate \in Nat
<1>1. 500 * rate \in Int /\ 5000 <= 500 * rate /\ 500 * rate <= 20000
  BY DEF Slowest, Fastest
<1> QED BY <1>1, PlayedSpeed

LEMMA ReconcileType ==
    ASSUME TypeOK, enabled' \in BOOLEAN,
           NEW t \in Transport, NEW d \in -MaxDrift .. MaxDrift,
           NEW v \in Video, v.speed \in 500 * Slowest .. 500 * Fastest,
           Reconcile(t, d, v)
    PROVE  /\ drift' \in -MaxDrift .. MaxDrift
           /\ video' \in Video /\ video'.speed \in 500 * Slowest .. 500 * Fastest
           /\ excess' \in 0..Patience \cup {None}
           /\ syncFailed' \in BOOLEAN
<1>1. /\ t.rate \in Slowest .. Fastest /\ d \in Int /\ MaxDrift \in Nat
      /\ 0 \in -MaxDrift .. MaxDrift
  <2>1. t.rate \in Slowest .. Fastest
    BY RateAssumption DEF Transport
  <2>2. MaxDrift \in Nat
    BY DriftAssumption
  <2> QED BY <2>1, <2>2
<1>2. /\ 500 * t.rate \in 500 * Slowest .. 500 * Fastest /\ 500 * t.rate \in Nat
      /\ Corrected(d, t.rate) \in 500 * Slowest .. 500 * Fastest
      /\ Corrected(d, t.rate) \in Nat
  <2>1. 500 * t.rate \in 500 * Slowest .. 500 * Fastest /\ 500 * t.rate \in Nat
    BY <1>1, NormalSpeed
  <2> QED BY <1>1, <2>1, CorrectedSpeed
<1>3. SeekTo(d, v) \in -MaxDrift .. MaxDrift
  BY <1>1 DEF SeekTo
<1>4. CASE v.loaded = "nothing" /\ drift' = d /\ video' = v /\ UNCHANGED <<excess, syncFailed>>
  BY <1>4 DEF TypeOK
<1>5. CASE Hold(t, d, v)
  <2>1. video' = [v EXCEPT !.rolling = FALSE, !.speed = 500 * t.rate]
    BY <1>5 DEF Hold
  <2>2. video' \in Video /\ video'.speed = 500 * t.rate
    <3> DEFINE n == 500 * t.rate
    <3>1. n \in Nat /\ video' = [v EXCEPT !.rolling = FALSE, !.speed = n]
      BY <1>2, <2>1
    <3> HIDE DEF n
    <3>2. video' \in Video /\ video'.speed = n
      BY <3>1 DEF Video
    <3> QED BY <3>2 DEF n
  <2> QED BY <1>2, <1>3, <1>5, <2>2 DEF Hold
<1>6. CASE Follow(t, d, v)
  <2>1. video' = [v EXCEPT !.rolling = enabled', !.speed = Corrected(d, t.rate)]
    BY <1>6 DEF Follow
  <2>2. video' \in Video /\ video'.speed = Corrected(d, t.rate)
    <3> DEFINE n == Corrected(d, t.rate)
    <3>1. n \in Nat /\ video' = [v EXCEPT !.rolling = enabled', !.speed = n]
      BY <1>2, <2>1
    <3> HIDE DEF n
    <3>2. video' \in Video /\ video'.speed = n
      BY <3>1 DEF Video
    <3> QED BY <3>2 DEF n
  <2>3. excess' \in 0..Patience \cup {None}
    BY <1>6 DEF Follow, TypeOK, Patience
  <2>4. syncFailed' \in BOOLEAN
    BY <1>6 DEF Follow, TypeOK
  <2>5. drift' \in -MaxDrift .. MaxDrift
    BY <1>3, <1>6 DEF Follow
  <2> QED BY <1>2, <2>2, <2>3, <2>4, <2>5
<1> QED BY <1>4, <1>5, <1>6 DEF Reconcile

LEMMA Product ==
    ASSUME NEW a \in Int, NEW b \in Int
    PROVE  a * b \in Int
  OBVIOUS

\* The numbers among what the page keeps.
LEMMA Numbers ==
    ASSUME TypeOK
    PROVE  /\ drift \in Int /\ transport.rate \in Int /\ offset \in Int
           /\ video.speed \in Int /\ transport.lead \in 0..Lead
<1>1. drift \in Int
  <2>1. drift \in -MaxDrift .. MaxDrift
    BY DEF TypeOK
  <2> QED BY <2>1, DriftAssumption
<1>2. transport.rate \in Rates /\ transport.lead \in 0..Lead
  BY DEF TypeOK, Transport
<1>3. \A r \in Rates : r \in Int
  BY RateAssumption DEF Slowest, Fastest
<1>4. offset \in Int /\ video \in Video
  BY DEF TypeOK
<1>5. video.speed \in Int
  BY <1>4 DEF Video
<1> QED BY <1>1, <1>2, <1>3, <1>4, <1>5

LEMMA AheadType ==
    ASSUME TypeOK, NEW lead \in Leads
    PROVE  lead \in 0..Lead /\ drift + Ahead(lead) \in Int
<1>1. /\ drift \in Int /\ transport.rate \in Int
      /\ transport.lead \in 0..Lead
  BY Numbers
<1>2. lead \in 0..Lead
  BY <1>1 DEF Leads, Lead
<1>3. transport.rate * (lead - transport.lead) \in Int
  BY <1>1, <1>2 DEF Lead
<1>4. Ahead(lead) \in Int
  BY <1>1, <1>2, <1>3 DEF Ahead, Lead
<1> QED BY <1>1, <1>2, <1>4

LEMMA SnapshotType ==
    ASSUME TypeOK, NEW state \in {"playing", "paused"}, NEW rate \in Rates,
           NEW lead \in 0..Lead, NEW d \in Int, Snapshot(state, rate, lead, d)
    PROVE  TypeOK'
<1>1. transport' \in Transport
  BY DEF Snapshot, Transport
<1>2. enabled' \in BOOLEAN /\ Reconcile(transport', Cut(d), video)
  BY DEF Snapshot, TypeOK
<1>3. Cut(d) \in -MaxDrift .. MaxDrift
  BY CutInRange
<1>4. /\ drift' \in -MaxDrift .. MaxDrift
      /\ video' \in Video /\ video'.speed \in 500 * Slowest .. 500 * Fastest
      /\ excess' \in 0..Patience \cup {None}
      /\ syncFailed' \in BOOLEAN
  <2> DEFINE t == transport'
  <2>1. /\ video \in Video /\ video.speed \in 500 * Slowest .. 500 * Fastest
        /\ t \in Transport /\ Reconcile(t, Cut(d), video)
    BY <1>1, <1>2 DEF TypeOK
  <2> HIDE DEF t
  <2> QED BY <1>2, <1>3, <2>1, ReconcileType
<1>5. events' \in 0..MaxEvents
  BY BoundAssumption DEF Snapshot, Count, TypeOK
<1> QED BY <1>1, <1>2, <1>4, <1>5 DEF Snapshot, TypeOK

\* Everything the page keeps has its type: no sequence of commands, seeks,
\* stalls and corrections makes it set a rate that browsers do not play.
THEOREM TypeCorrect == Spec => []TypeOK
<1>1. Init => TypeOK
  <2> SUFFICES ASSUME Init PROVE TypeOK
    OBVIOUS
  <2>1. transport \in Transport
    BY DEF Init, Transport, Lead
  <2>2. video \in Video /\ video.speed \in 500 * Slowest .. 500 * Fastest
    BY DEF Init, Video, Normal, Slowest, Fastest
  <2>3. drift \in -MaxDrift .. MaxDrift /\ events \in 0..MaxEvents
    BY DriftAssumption, BoundAssumption DEF Init
  <2>4. offset \in Int /\ since \in 0..Period /\ enabled \in BOOLEAN /\ syncFailed \in BOOLEAN
    <3>1. offset = 0 /\ since = 0
      BY DEF Init
    <3>2. offset \in Int /\ since \in 0..Period
      BY <3>1 DEF Period
    <3>3. enabled \in BOOLEAN /\ syncFailed \in BOOLEAN
      BY DEF Init
    <3> QED BY <3>2, <3>3
  <2>5. excess \in 0..Patience \cup {None}
    BY DEF Init
  <2> QED BY <2>1, <2>2, <2>3, <2>4, <2>5 DEF TypeOK
<1>2. TypeOK /\ [Next]_vars => TypeOK'
  <2> SUFFICES ASSUME TypeOK, [Next]_vars PROVE TypeOK'
    OBVIOUS
  <2>t. /\ transport \in Transport /\ video \in Video /\ drift \in -MaxDrift .. MaxDrift
        /\ video.speed \in 500 * Slowest .. 500 * Fastest
        /\ transport.state \in {"playing", "paused"} /\ transport.rate \in Rates
    BY DEF TypeOK, Transport
  <2>1. CASE PlayOrPause
    BY <2>1, <2>t, AheadType, SnapshotType DEF PlayOrPause
  <2>2. CASE SetRate
    BY <2>2, <2>t, AheadType, SnapshotType DEF SetRate
  <2>3. CASE SeekFilm
    <3>1. PICK jump \in Jumps, lead \in Leads :
            Snapshot(transport.state, transport.rate, lead, jump)
      BY <2>3 DEF SeekFilm
    <3>2. jump \in Int
      BY DriftAssumption
    <3> QED BY <2>t, <3>1, <3>2, AheadType, SnapshotType
  <2>4. CASE EnableSound
    <3>1. enabled' \in BOOLEAN /\ Reconcile(transport, drift, video)
      BY <2>4 DEF EnableSound
    <3>2. /\ drift' \in -MaxDrift .. MaxDrift
          /\ video' \in Video /\ video'.speed \in 500 * Slowest .. 500 * Fastest
          /\ excess' \in 0..Patience \cup {None} /\ syncFailed' \in BOOLEAN
      BY <2>t, <3>1, ReconcileType
    <3> QED BY <2>4, <3>1, <3>2 DEF EnableSound, TypeOK
  <2>e. /\ Empty \in Video /\ Empty.speed = video.speed
    BY <2>t DEF Empty, Video
  <2>5. CASE SelectFilm
    <3>1. PICK jump \in Jumps, lead \in Leads :
            /\ transport' = [state |-> "paused", rate |-> Normal, lead |-> lead]
            /\ drift' = jump
      BY <2>5 DEF SelectFilm
    <3>2. transport' \in Transport
      BY <3>1, AheadType, RateAssumption DEF Transport
    <3>3. drift' \in -MaxDrift .. MaxDrift /\ events' \in 0..MaxEvents
      BY <2>5, <3>1, DriftAssumption, BoundAssumption DEF SelectFilm, Count, TypeOK
    <3> QED BY <2>5, <2>e, <3>2, <3>3 DEF SelectFilm, TypeOK, Period
  <2>6. CASE Reload
    <3>1. drift' \in -MaxDrift .. MaxDrift /\ events' \in 0..MaxEvents
      BY <2>6, DriftAssumption, BoundAssumption DEF Reload, Count, TypeOK
    <3> QED BY <2>6, <2>e, <3>1 DEF Reload, TypeOK
  <2>7. CASE Load
    <3>1. PICK to \in {"metadata", "seekable"} :
            /\ enabled' = enabled
            /\ Reconcile(transport, drift, [video EXCEPT !.loaded = to])
            /\ UNCHANGED <<transport, offset, since, events>>
      BY <2>7 DEF Load
    <3> DEFINE v == [video EXCEPT !.loaded = to]
    <3>2. v \in Video /\ v.speed = video.speed
      BY <2>t DEF Video
    <3>3. enabled' \in BOOLEAN /\ Reconcile(transport, drift, v)
      BY <3>1 DEF TypeOK
    <3> HIDE DEF v
    <3>4. /\ drift' \in -MaxDrift .. MaxDrift
          /\ video' \in Video /\ video'.speed \in 500 * Slowest .. 500 * Fastest
          /\ excess' \in 0..Patience \cup {None} /\ syncFailed' \in BOOLEAN
      BY <2>t, <3>2, <3>3, ReconcileType
    <3> QED BY <3>1, <3>4 DEF TypeOK
  <2>8. CASE Stall
    <3>1. video' \in Video /\ video'.speed = video.speed
      BY <2>8, <2>t DEF Stall, Video
    <3>2. events' \in 0..MaxEvents
      BY <2>8, BoundAssumption DEF Stall, Count, TypeOK
    <3> QED BY <2>8, <2>t, <3>1, <3>2 DEF Stall, TypeOK
  <2>9. CASE Resume
    <3>1. video' \in Video /\ video'.speed = video.speed
      BY <2>9, <2>t DEF Resume, Video
    <3> QED BY <2>9, <2>t, <3>1 DEF Resume, TypeOK
  <2>10. CASE Pong
    <3>1. PICK out \in Delays, back \in Delays :
            offset' = TwiceOffset(Sample(out, back, 0, 0, 0))
      BY <2>10 DEF Pong
    <3>2. offset' \in Int
      BY <3>1, DelayAssumption DEF TwiceOffset, Sample
    <3>3. transport.rate * (offset' - offset) \in Int /\ drift \in Int
      <4>1. transport.rate \in Int /\ drift \in Int /\ offset' - offset \in Int
        BY <3>2, Numbers
      <4> QED BY <4>1, Product
    <3>4. drift' \in -MaxDrift .. MaxDrift
      BY <2>10, <2>t, <3>3, CutInRange DEF Pong
    <3>5. events' \in 0..MaxEvents
      BY <2>10, BoundAssumption DEF Pong, Count, TypeOK
    <3> QED BY <2>10, <3>2, <3>4, <3>5 DEF Pong, TypeOK
  <2>11. CASE Periodic \/ ElementEvent
    <3>1. /\ enabled' \in BOOLEAN /\ Reconcile(transport, drift, video)
          /\ since' \in 0..Period /\ UNCHANGED <<transport, offset, events>>
      BY <2>11 DEF Periodic, ElementEvent, TypeOK, Period
    <3>2. /\ drift' \in -MaxDrift .. MaxDrift
          /\ video' \in Video /\ video'.speed \in 500 * Slowest .. 500 * Fastest
          /\ excess' \in 0..Patience \cup {None} /\ syncFailed' \in BOOLEAN
      BY <2>t, <3>1, ReconcileType
    <3> QED BY <3>1, <3>2 DEF TypeOK
  <2>12. CASE TimePasses
    <3>1. Desired \in Int /\ Shown \in Int /\ drift \in Int
      <4>1. drift \in Int /\ video.speed \in Int /\ transport.rate \in Int
        BY Numbers
      <4>2. 500 * transport.rate \in Int
        BY <4>1, Product
      <4> QED BY <4>1, <4>2 DEF Desired, Shown
    <3>2. drift' \in -MaxDrift .. MaxDrift
      BY <2>12, <3>1, CutInRange DEF TimePasses
    <3>3. transport' \in Transport
      BY <2>12, <2>t DEF TimePasses, Transport, Lead
    <3>4. excess' \in 0..Patience \cup {None}
      BY <2>12, BoundAssumption DEF TimePasses, TypeOK, Patience
    <3>5. since' \in 0..Period
      BY <2>12 DEF TimePasses, TypeOK, Period
    <3> QED BY <2>12, <3>2, <3>3, <3>4, <3>5 DEF TimePasses, TypeOK
  <2>13. CASE UNCHANGED vars
    BY <2>13 DEF vars, TypeOK
  <2> QED BY <2>1, <2>2, <2>3, <2>4, <2>5, <2>6, <2>7, <2>8, <2>9, <2>10, <2>11, <2>12, <2>13 DEF Next
<1> QED BY <1>1, <1>2, PTL DEF Spec
=============================================================================
