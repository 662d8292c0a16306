-------------------------- MODULE CentralClient_proofs --------------------------
(***************************************************************************)
(* Proofs about the class CentralClient.  HeapWatch: whatever the          *)
(* thresholds, the levels and the cooldown are, restarts for heap pressure *)
(* keep their distance, and answer pressure that lasted.  HubLink:         *)
(* whatever the delays, the URLs and the hub's answers are, the device     *)
(* leaves the hub alone after a call that failed.                          *)
(***************************************************************************)
EXTENDS HeapWatch, HubLink, TLAPS

\* The heap watch

\* One look of any kind.
LookStep(r) == Hold(r) \/ Relax(r) \/ Count(r) \/ Suppress(r) \/ Fire(r)

\* What a step can be.
LEMMA WatchSteps ==
    ASSUME [WatchNext]_watchVars
    PROVE  \/ UNCHANGED watchVars
           \/ WatchBoot
           \/ Sync
           \/ ClockStep
           \/ \E level \in 0 .. Levels : Drift(level)
           \/ Tick
           \/ SerializeHeapTrajectory
           \/ \E r \in Samples : LookStep(r)
           \/ PrepareForHeapRestart
           \/ WatchStop
  BY DEF WatchNext, LookStep

-------------------------------------------------------------------------------
\* Type correctness

\* A look leaves a ring of levels that is no longer than its size.
LEMMA RingOfSamples ==
    ASSUME WatchTypeOK, NEW r \in Samples
    PROVE  r \in Seq(0 .. Levels) /\ Len(r) <= RingSize
  <1> DEFINE cut == IF Len(ring) = RingSize THEN Tail(ring) ELSE ring
  <1>1. ring \in Seq(0 .. Levels) /\ Len(ring) <= RingSize /\ heap \in 0 .. Levels
    BY DEF WatchTypeOK
  <1>2. RingSize \in Nat /\ RingSize > 0
    BY WatchAssumption DEF WatchAssumption
  <1>3. cut \in Seq(0 .. Levels) /\ Len(cut) < RingSize
    <2>1. CASE Len(ring) = RingSize
      <3>1. ring # <<>>
        BY <1>2, <2>1
      <3>2. Tail(ring) \in Seq(0 .. Levels) /\ Len(Tail(ring)) = Len(ring) - 1
        BY <1>1, <3>1
      <3> QED
        BY <1>2, <2>1, <3>2
    <2>2. CASE Len(ring) # RingSize
      BY <1>1, <1>2, <2>2
    <2> QED
      BY <2>1, <2>2
  <1>4. Append(cut, heap) \in Seq(0 .. Levels) /\ Len(Append(cut, heap)) = Len(cut) + 1
    BY <1>1, <1>3
  <1>5. r = ring \/ r = Append(cut, heap)
    BY DEF Samples
  <1> HIDE DEF cut
  <1>6. Len(cut) \in Nat
    BY <1>3
  <1>7. CASE r = ring
    BY <1>1, <1>7
  <1>8. CASE r = Append(cut, heap)
    BY <1>2, <1>3, <1>4, <1>6, <1>8
  <1> QED
    BY <1>5, <1>7, <1>8

\* The state has its type at first.
LEMMA WatchTypeInit == WatchInit => WatchTypeOK
  <1> SUFFICES ASSUME WatchInit
               PROVE  WatchTypeOK
    OBVIOUS
  <1>1. ring = <<>> /\ <<>> \in Seq(0 .. Levels) /\ Len(<<>>) = 0
    BY DEF WatchInit
  <1>2. {synced, prior, staged, stored, unstamped, stepped, interrupted} \subseteq BOOLEAN
    BY DEF WatchInit
  <1>3. mode = "off" /\ heap \in 0 .. Levels
    BY WatchAssumption DEF WatchAssumption, WatchInit
  <1>4. /\ lows \in 0 .. Debounce /\ lowLooks \in 0 .. Debounce + 1
        /\ uptime \in 0 .. UptimeWrap - 1
        /\ elapsed \in -1 .. Cooldown /\ fireAge \in 0 .. Cooldown
    BY WatchAssumption DEF WatchAssumption, WatchInit
  <1> QED
    BY <1>1, <1>2, <1>3, <1>4, WatchAssumption DEF WatchAssumption, WatchTypeOK

\* The clocks keep their types.
LEMMA TickTypes ==
    ASSUME WatchTypeOK, Tick
    PROVE  /\ uptime' \in 0 .. UptimeWrap - 1
           /\ elapsed' \in -1 .. Cooldown /\ fireAge' \in 0 .. Cooldown
  <1>1. /\ uptime \in 0 .. UptimeWrap - 1 /\ UptimeWrap \in Nat \ {0} /\ Cooldown \in Nat
        /\ elapsed \in -1 .. Cooldown /\ fireAge \in 0 .. Cooldown
    BY WatchAssumption DEF WatchAssumption, WatchTypeOK
  <1>2. uptime' \in 0 .. UptimeWrap - 1
    <2>1. (uptime + 1) % UptimeWrap \in 0 .. UptimeWrap - 1
      BY <1>1
    <2> QED
      BY <1>1, <2>1 DEF Tick
  <1>3. elapsed' \in -1 .. Cooldown /\ fireAge' \in 0 .. Cooldown
    BY <1>1 DEF Tick, Older
  <1> QED
    BY <1>2, <1>3

\* It has it after every step.
LEMMA WatchTypeStep == WatchTypeOK /\ [WatchNext]_watchVars => WatchTypeOK'
  <1> SUFFICES ASSUME WatchTypeOK, [WatchNext]_watchVars
               PROVE  WatchTypeOK'
    OBVIOUS
  <1> USE WatchAssumption DEF WatchAssumption
  <1>1. CASE UNCHANGED watchVars
    BY <1>1 DEF WatchTypeOK, watchVars
  <1>2. CASE WatchBoot
    BY <1>2 DEF WatchBoot, WatchTypeOK, clocks, stamp, looking
  <1>3. CASE Sync
    BY <1>3 DEF Sync, WatchTypeOK, clocks, stamp, looking
  <1>4. CASE ClockStep
    <2>1. elapsed' \in -1 .. Cooldown
      BY <1>4 DEF ClockStep, WatchTypeOK
    <2>2. {synced', prior', staged', stored', unstamped', stepped', interrupted'}
              \subseteq BOOLEAN
      BY <1>4 DEF ClockStep, WatchTypeOK, looking
    <2>3. UNCHANGED <<mode, heap, ring, lows, uptime, fireAge, lowLooks>>
      BY <1>4 DEF ClockStep, clocks, looking
    <2> QED
      BY <2>1, <2>2, <2>3 DEF WatchTypeOK
  <1>5. ASSUME NEW level \in 0 .. Levels, Drift(level)
        PROVE  WatchTypeOK'
    BY <1>5 DEF Drift, WatchTypeOK, clocks, stamp, looking
  <1>6. CASE Tick
    BY <1>6, TickTypes DEF Tick, WatchTypeOK, looking
  <1>7. CASE SerializeHeapTrajectory
    BY <1>7 DEF SerializeHeapTrajectory, WatchTypeOK, clocks, stamp
  <1>8. ASSUME NEW r \in Samples, LookStep(r)
        PROVE  WatchTypeOK'
    <2>1. ring' = r /\ r \in Seq(0 .. Levels) /\ Len(r) <= RingSize
      BY <1>8, RingOfSamples DEF LookStep, Hold, Relax, Count, Suppress, Fire, Look
    <2>2. UNCHANGED <<heap, synced, prior, staged, uptime, fireAge,
                      stored, elapsed, unstamped, stepped>>
      BY <1>8 DEF LookStep, Hold, Relax, Count, Suppress, Fire, Look, clocks, stamp
    <2>3. lowLooks' \in 0 .. Debounce + 1
      BY <1>8 DEF LookStep, Hold, Relax, Count, Suppress, Fire, Look, WatchTypeOK
    <2>4. lows' \in 0 .. Debounce
      BY <1>8 DEF LookStep, Hold, Relax, Count, Suppress, Fire, WatchTypeOK
    <2>5. mode' \in {"on", "firing"} \/ mode' = mode
      BY <1>8 DEF LookStep, Hold, Relax, Count, Suppress, Fire
    <2>6. interrupted' \in BOOLEAN
      <3>1. CASE Hold(r)
        <4>1. interrupted' = (lows > 0)
          BY <3>1 DEF Hold
        <4>2. CASE lows > 0
          BY <4>1, <4>2
        <4>3. CASE ~(lows > 0)
          BY <4>1, <4>3
        <4> QED
          BY <4>2, <4>3
      <3>2. CASE ~Hold(r)
        BY <1>8, <3>2 DEF LookStep, Relax, Count, Suppress, Fire, WatchTypeOK
      <3> QED
        BY <3>1, <3>2
    <2>7. mode' \in {"off", "on", "firing", "prepared"}
      BY <2>5 DEF WatchTypeOK
    <2>8. {synced', prior', staged', stored', unstamped', stepped', interrupted'}
              \subseteq BOOLEAN
      BY <2>2, <2>6 DEF WatchTypeOK
    <2>9. /\ heap' \in 0 .. Levels /\ uptime' \in 0 .. UptimeWrap - 1
          /\ elapsed' \in -1 .. Cooldown /\ fireAge' \in 0 .. Cooldown
      BY <2>2 DEF WatchTypeOK
    <2> QED
      BY <2>1, <2>3, <2>4, <2>7, <2>8, <2>9 DEF WatchTypeOK
  <1>9. CASE PrepareForHeapRestart
    <2>1. staged' \in BOOLEAN
      <3>1. staged' = TRUE \/ staged' = staged \/ staged' = ~synced
        BY <1>9 DEF PrepareForHeapRestart
      <3>2. CASE staged' = TRUE \/ staged' = staged
        BY <3>2 DEF WatchTypeOK
      <3>3. CASE staged' = ~synced
        <4>1. CASE synced
          BY <3>3, <4>1
        <4>2. CASE ~synced
          BY <3>3, <4>2
        <4> QED
          BY <4>1, <4>2
      <3> QED
        BY <3>1, <3>2, <3>3
    <2>2. {stored', unstamped', stepped'} \subseteq BOOLEAN /\ elapsed' \in -1 .. Cooldown
      <3>1. CASE /\ stored' = TRUE /\ elapsed' = 0
                 /\ unstamped' = FALSE /\ stepped' = FALSE
        <4>1. stored' \in BOOLEAN /\ unstamped' \in BOOLEAN /\ stepped' \in BOOLEAN
          BY <3>1
        <4>2. elapsed' \in -1 .. Cooldown
          BY <3>1, WatchAssumption DEF WatchAssumption
        <4> QED
          BY <4>1, <4>2
      <3>2. CASE unstamped' = TRUE /\ UNCHANGED <<stored, elapsed, stepped>>
        BY <3>2 DEF WatchTypeOK
      <3> QED
        BY <1>9, <3>1, <3>2 DEF PrepareForHeapRestart
    <2>3. /\ mode' = "prepared" /\ fireAge' = 0
          /\ UNCHANGED <<heap, ring, lows, lowLooks, interrupted, uptime, synced, prior>>
      BY <1>9 DEF PrepareForHeapRestart, looking
    <2> QED
      BY <2>1, <2>2, <2>3 DEF WatchTypeOK
  <1>10. CASE WatchStop
    <2>1. ring' = <<>> /\ <<>> \in Seq(0 .. Levels) /\ Len(<<>>) = 0
      BY <1>10 DEF WatchStop
    <2>2. {synced', prior', staged', stored', unstamped', stepped', interrupted'}
              \subseteq BOOLEAN
      BY <1>10 DEF WatchStop, WatchTypeOK
    <2>3. /\ mode' = "off" /\ heap' \in 0 .. Levels /\ uptime' \in 0 .. UptimeWrap - 1
          /\ elapsed' \in -1 .. Cooldown /\ fireAge' \in 0 .. Cooldown
          /\ lows' \in 0 .. Debounce /\ lowLooks' \in 0 .. Debounce + 1
      BY <1>10 DEF WatchStop, WatchTypeOK
    <2> QED
      BY <2>1, <2>2, <2>3 DEF WatchTypeOK
  <1> QED
    BY WatchSteps, <1>1, <1>2, <1>3, <1>4, <1>5, <1>6, <1>7, <1>8, <1>9, <1>10

\* The state of the heap watch has its type at all times (central_client_heap.cpp).
THEOREM WatchTypeCorrect == WatchSpec => []WatchTypeOK
  BY WatchTypeInit, WatchTypeStep, PTL DEF WatchSpec

-------------------------------------------------------------------------------
\* The gates

\* An uninterrupted count counts looks that found too little.
CountsLooks == ~interrupted => lows <= lowLooks

\* The clock is behind the stored time only if it was set back.
BehindIfStepped == elapsed = -1 => stepped

Gates == CountsLooks /\ BehindIfStepped

\* The invariant of the gates.
LEMMA GatesKept == WatchTypeOK /\ Gates /\ [WatchNext]_watchVars => Gates'
  <1> SUFFICES ASSUME WatchTypeOK, Gates, [WatchNext]_watchVars
               PROVE  Gates'
    OBVIOUS
  <1> USE WatchAssumption DEF WatchAssumption, Gates, CountsLooks, BehindIfStepped
  <1>1. CASE UNCHANGED watchVars
    BY <1>1 DEF watchVars
  <1>2. CASE WatchBoot
    BY <1>2 DEF WatchBoot, stamp, looking
  <1>3. CASE Sync
    BY <1>3 DEF Sync, stamp, looking
  <1>4. CASE ClockStep
    BY <1>4 DEF ClockStep, looking
  <1>5. ASSUME NEW level \in 0 .. Levels, Drift(level)
        PROVE  Gates'
    BY <1>5 DEF Drift, stamp, looking
  <1>6. CASE Tick
    BY <1>6 DEF Tick, Older, looking, WatchTypeOK
  <1>7. CASE SerializeHeapTrajectory
    BY <1>7 DEF SerializeHeapTrajectory, stamp
  <1>8. ASSUME NEW r \in Samples, LookStep(r)
        PROVE  Gates'
    <2>1. CASE Hold(r)
      <3>1. /\ interrupted' = (lows > 0) /\ lows' = lows
            /\ elapsed' = elapsed /\ stepped' = stepped
        BY <2>1 DEF Hold, Look, stamp
      <3>2. lows \in Nat /\ lowLooks' \in Nat
        BY <2>1 DEF Hold, Look, WatchTypeOK
      <3>3. CASE lows > 0
        BY <3>1, <3>3
      <3>4. CASE ~(lows > 0)
        BY <3>1, <3>2, <3>4
      <3> QED
        BY <3>3, <3>4
    <2>2. CASE Relax(r)
      BY <2>2 DEF Relax, Look, stamp, WatchTypeOK
    <2>3. CASE Count(r)
      BY <2>3 DEF Count, Look, stamp, WatchTypeOK
    <2>4. CASE Suppress(r)
      BY <2>4 DEF Suppress, Look, stamp, WatchTypeOK
    <2>5. CASE Fire(r)
      BY <2>5 DEF Fire, Look, stamp, WatchTypeOK
    <2> QED
      BY <1>8, <2>1, <2>2, <2>3, <2>4, <2>5 DEF LookStep
  <1>9. CASE PrepareForHeapRestart
    BY <1>9 DEF PrepareForHeapRestart, looking
  <1>10. CASE WatchStop
    BY <1>10 DEF WatchStop
  <1> QED
    BY WatchSteps, <1>1, <1>2, <1>3, <1>4, <1>5, <1>6, <1>7, <1>8, <1>9, <1>10

\* The gates' invariant holds throughout.
THEOREM GatesHold == WatchSpec => []Gates
  <1>1. WatchInit => Gates
    BY WatchAssumption
    DEF WatchAssumption, WatchInit, Gates, CountsLooks, BehindIfStepped
  <1> QED
    BY <1>1, GatesKept, WatchTypeCorrect, PTL DEF WatchSpec

\* Each of the steps that can close the gates does it in its own way.
LEMMA GateCloses ==
    ASSUME WatchTypeOK, Gates, [WatchNext]_watchVars,
           mode = "on", mode' = "on", ~Gated, Gated'
    PROVE  (~synced /\ synced') \/ stepped' \/ uptime' = 0
  <1>1. /\ uptime \in 0 .. UptimeWrap - 1 /\ elapsed \in -1 .. Cooldown
        /\ UptimeWrap \in Nat /\ Cooldown \in Nat \ {0}
    BY WatchAssumption DEF WatchAssumption, WatchTypeOK
  <1>2. ASSUME UNCHANGED <<synced, prior, uptime, stored, elapsed>>
        PROVE  FALSE
    BY <1>2 DEF Gated, CoolingDown
  <1>3. CASE Sync
    BY <1>3 DEF Sync
  <1>4. CASE ClockStep
    BY <1>4 DEF ClockStep
  <1>5. CASE Tick
    <2>1. /\ uptime' = (uptime + 1) % UptimeWrap
          /\ elapsed' \in IF elapsed = -1 THEN {-1, 0} ELSE {Older(elapsed)}
          /\ UNCHANGED <<synced, prior, stored, stepped>>
      BY <1>5 DEF Tick
    <2>2. uptime' = uptime + 1 \/ uptime' = 0
      BY <1>1, <2>1
    <2>3. CASE elapsed = -1
      BY <2>1, <2>3 DEF Gates, BehindIfStepped
    <2>4. CASE elapsed # -1
      <3>1. elapsed' \in 0 .. Cooldown - 1 => elapsed \in 0 .. Cooldown - 1
        BY <1>1, <2>1, <2>4 DEF Older
      <3> QED
        BY <1>1, <2>1, <2>2, <3>1 DEF Gated, CoolingDown
    <2> QED
      BY <2>3, <2>4
  <1>6. CASE UNCHANGED watchVars \/ SerializeHeapTrajectory
             \/ \E level \in 0 .. Levels : Drift(level)
    BY <1>2, <1>6 DEF watchVars, SerializeHeapTrajectory, Drift, clocks, stamp
  <1>7. CASE \E r \in Samples : LookStep(r)
    BY <1>2, <1>7 DEF LookStep, Hold, Relax, Count, Suppress, Fire, Look, clocks, stamp
  <1>8. CASE WatchBoot \/ PrepareForHeapRestart \/ WatchStop
    BY <1>8 DEF WatchBoot, PrepareForHeapRestart, WatchStop
  <1> QED
    BY WatchSteps, <1>3, <1>4, <1>5, <1>6, <1>7, <1>8

\* While the device runs, the gates close again only because SNTP answered late or
\* with another time, or because the uptime wrapped (central_client_heap.cpp:134,
\* 174-190).
THEOREM ClosedOnlyByTheClock == WatchSpec => ClosedByTheClock
  <1>1. WatchTypeOK /\ Gates /\ [WatchNext]_watchVars =>
            (mode = "on" /\ mode' = "on" /\ ~Gated /\ Gated' =>
                (~synced /\ synced') \/ stepped' \/ uptime' = 0)
    BY GateCloses
  <1> QED
    BY <1>1, GatesHold, WatchTypeCorrect, PTL DEF WatchSpec, ClosedByTheClock

\* A restart for heap pressure is decided after a full row of looks that found too
\* little, or after the gates had closed on the count (central_client_heap.cpp:195).
THEOREM PressureHasLasted == WatchSpec => PressureLasted
  <1>1. WatchTypeOK /\ Gates =>
            \A r \in Samples : Fire(r) => lowLooks' = Debounce + 1 \/ interrupted
    BY WatchAssumption
    DEF WatchAssumption, WatchTypeOK, Gates, CountsLooks, Fire, Look
  <1> QED
    BY <1>1, GatesHold, WatchTypeCorrect, PTL DEF WatchSpec, PressureLasted

-------------------------------------------------------------------------------
\* The distance between restarts

\* The uptime starts with the device.
OffIsNew == mode = "off" => uptime = 0

\* A boot that knows its predecessor restarted for heap pressure is younger than
\* that restart, for as long as it matters; a wrapped uptime is.
YoungerThanFire ==
    prior /\ mode \in {"on", "firing"} => fireAge = Cooldown \/ uptime <= fireAge

\* The time on flash is that of the last such restart, unless that is not there or
\* the clock was set to another since.
StampTellsFire ==
    /\ ~unstamped => stored
    /\ ~unstamped /\ ~stepped => elapsed = fireAge

\* A restart that is decided too early could not know better.
DecidedApart ==
    mode = "firing" /\ fireAge < Cooldown => ~prior /\ (unstamped \/ ~synced \/ stepped)

Distance == OffIsNew /\ YoungerThanFire /\ StampTellsFire /\ DecidedApart

\* Half an hour leaves the relations between the clocks.
LEMMA DistanceTick ==
    ASSUME WatchTypeOK, Distance, Tick
    PROVE  Distance'
  <1>1. /\ uptime \in 0 .. UptimeWrap - 1 /\ UptimeWrap \in Nat \ {0} /\ Cooldown \in Nat
        /\ elapsed \in -1 .. Cooldown /\ fireAge \in 0 .. Cooldown
    BY WatchAssumption DEF WatchAssumption, WatchTypeOK
  <1>2. /\ fireAge' = Older(fireAge)
        /\ elapsed' \in IF elapsed = -1 THEN {-1, 0} ELSE {Older(elapsed)}
        /\ UNCHANGED <<mode, synced, prior, stored, unstamped, stepped>>
    BY DEF Tick
  <1>3. mode = "on" => uptime' = uptime + 1 \/ uptime' = 0
    BY <1>1 DEF Tick
  <1>4. mode # "on" => uptime' = uptime
    BY DEF Tick
  <1>5. fireAge' \in 0 .. Cooldown /\ fireAge' >= fireAge
    BY <1>1, <1>2 DEF Older
  <1>6. OffIsNew'
    BY <1>2, <1>4 DEF Distance, OffIsNew
  <1>7. YoungerThanFire'
    <2>1. CASE mode = "on"
      BY <1>1, <1>2, <1>3, <2>1 DEF Distance, YoungerThanFire, Older
    <2>2. CASE mode # "on"
      BY <1>1, <1>2, <1>4, <1>5, <2>2 DEF Distance, YoungerThanFire
    <2> QED
      BY <2>1, <2>2
  <1>8. StampTellsFire'
    BY <1>1, <1>2 DEF Distance, StampTellsFire
  <1>9. DecidedApart'
    BY <1>1, <1>2, <1>5 DEF Distance, DecidedApart
  <1> QED
    BY <1>6, <1>7, <1>8, <1>9 DEF Distance

\* The invariant of the distance: each gate speaks of another clock, and only
\* together with the age of the last restart do they say something about it.
LEMMA DistanceKept == WatchTypeOK /\ Distance /\ [WatchNext]_watchVars => Distance'
  <1> SUFFICES ASSUME WatchTypeOK, Distance, [WatchNext]_watchVars
               PROVE  Distance'
    OBVIOUS
  <1> USE WatchAssumption
      DEF WatchAssumption, Distance, OffIsNew, YoungerThanFire, StampTellsFire, DecidedApart
  <1>1. CASE UNCHANGED watchVars
    BY <1>1 DEF watchVars
  <1>2. CASE WatchBoot
    BY <1>2 DEF WatchBoot, WatchTypeOK, clocks, stamp
  <1>3. CASE Sync
    BY <1>3 DEF Sync, clocks, stamp
  <1>4. CASE ClockStep
    BY <1>4 DEF ClockStep, clocks
  <1>5. ASSUME NEW level \in 0 .. Levels, Drift(level)
        PROVE  Distance'
    BY <1>5 DEF Drift, clocks, stamp
  <1>6. CASE Tick
    BY <1>6, DistanceTick
  <1>7. CASE SerializeHeapTrajectory
    BY <1>7 DEF SerializeHeapTrajectory, clocks, stamp
  <1>8. ASSUME NEW r \in Samples, LookStep(r)
        PROVE  Distance'
    <2>1. /\ mode = "on"
          /\ UNCHANGED <<prior, uptime, fireAge, stored, elapsed, unstamped, stepped, synced>>
      BY <1>8 DEF LookStep, Hold, Relax, Count, Suppress, Fire, Look, clocks, stamp
    <2>2. CASE Fire(r)
      <3>1. mode' = "firing" /\ uptime >= 1 /\ ~CoolingDown
        BY <2>2 DEF Fire, Gated, WatchTypeOK
      <3>2. /\ fireAge \in 0 .. Cooldown /\ uptime \in Nat
            /\ elapsed \in -1 .. Cooldown
        BY DEF WatchTypeOK
      <3>3. fireAge < Cooldown => ~prior
        BY <2>1, <3>1, <3>2 DEF CoolingDown
      <3>4. fireAge < Cooldown => unstamped \/ ~synced \/ stepped
        BY <3>1, <3>2 DEF CoolingDown
      <3> QED
        BY <2>1, <3>1, <3>3, <3>4
    <2>3. CASE ~Fire(r)
      <3>1. mode' = "on"
        BY <1>8, <2>3 DEF LookStep, Hold, Relax, Count, Suppress, Look
      <3> QED
        BY <2>1, <3>1
    <2> QED
      BY <2>2, <2>3
  <1>9. CASE PrepareForHeapRestart
    BY <1>9 DEF PrepareForHeapRestart
  <1>10. CASE WatchStop
    BY <1>10 DEF WatchStop
  <1> QED
    BY WatchSteps, <1>1, <1>2, <1>3, <1>4, <1>5, <1>6, <1>7, <1>8, <1>9, <1>10

\* The invariant of the distance holds throughout.
THEOREM DistanceHolds == WatchSpec => []Distance
  <1>1. WatchInit => Distance
    BY DEF WatchInit, Distance, OffIsNew, YoungerThanFire, StampTellsFire, DecidedApart
  <1> QED
    BY <1>1, DistanceKept, WatchTypeCorrect, PTL DEF WatchSpec

\* Two restarts for heap pressure keep the cooldown, but for a crash or another
\* restart in between together with a time of the first that is not on flash or of
\* no use to the clock (central_client_heap.cpp:161, 176-191).
THEOREM RestartsKeepApart == WatchSpec => RestartsApart
  <1>1. Distance =>
            (PrepareForHeapRestart /\ fireAge < Cooldown =>
                ~prior /\ (unstamped \/ ~synced \/ stepped))
    BY DEF Distance, DecidedApart, PrepareForHeapRestart
  <1> QED
    BY <1>1, DistanceHolds, PTL DEF WatchSpec, RestartsApart

-------------------------------------------------------------------------------
\* The link to the hub

\* What a step can be.
LEMMA LinkSteps ==
    ASSUME [LinkNext]_linkVars
    PROVE  \/ UNCHANGED linkVars
           \/ ScheduleSteadyStateWork
           \/ Unschedule
           \/ \E t \in Lengths, c \in Calls : Fail(c, t)
           \/ \E t \in Lengths, c \in Calls : Refuse(c, t)
           \/ \E t \in Lengths, c \in Calls : RetryLater(c, t)
           \/ \E t \in Lengths, c \in Calls : Garbled(c, t)
           \/ \E t \in Lengths : Pending(t)
           \/ \E t \in Lengths : Adopted(t)
           \/ \E t \in Lengths : Register(t)
           \/ \E t \in Lengths : Heartbeat(t)
           \/ \E t \in Lengths : Poll(t)
           \/ \E t \in Lengths : Firmware(t)
           \/ \E t \in Lengths : Drain(t)
           \/ LinkTick
           \/ Change
           \/ Revoke
           \/ SetTokens
           \/ Reboot
  BY DEF LinkNext, Pass

-------------------------------------------------------------------------------
\* Timers

\* What a call takes.
LEMMA LengthFacts == \A t \in Lengths : t \in Nat /\ t <= CallTime
  BY LinkAssumption DEF LinkAssumption, Lengths

\* Time left stays a number.
LEMMA LessFacts ==
    \A a, t \in Nat : Less(a, t) \in Nat /\ Less(a, t) + t >= a
  BY DEF Less

\* The backoff is doubled up to its cap.
LEMMA DoubledFacts ==
    ASSUME LinkTypeOK
    PROVE  Doubled \in Retry .. MaxRetry /\ Doubled >= Lull /\ Doubled \in Nat
  BY LinkAssumption DEF LinkAssumption, LinkTypeOK, Doubled, Lesser, Lull

\* A cooldown is never shorter than twice the first retry delay.
LEMMA CoolingFacts ==
    ASSUME LinkTypeOK, NEW c \in Calls
    PROVE  Cooling(c) \in Nat /\ Cooling(c) >= Lull
  <1>1. Doubled \in Nat /\ Doubled >= Lull /\ Lull \in Nat
    BY DoubledFacts, LinkAssumption DEF LinkAssumption, Lull
  <1>2. MaxAnnounce \in Nat /\ MaxAnnounce >= Lull /\ FirmwareFloor \in Nat
    BY LinkAssumption DEF LinkAssumption, Lull
  <1>3. CASE c = "announce"
    BY <1>1, <1>2, <1>3 DEF Cooling, Lesser
  <1>4. CASE c = "firmware"
    BY <1>1, <1>2, <1>4 DEF Cooling, Greater
  <1>5. CASE c # "announce" /\ c # "firmware"
    BY <1>1, <1>5 DEF Cooling
  <1> QED
    BY <1>3, <1>4, <1>5

\* The timers after t ticks, and after a cooldown.
LEMMA TimerFacts ==
    ASSUME LinkTypeOK, NEW t \in Nat
    PROVE  /\ Later(t) \in [Calls -> Nat]
           /\ \A c \in Calls : Later(t)[c] + t >= due[c]
           /\ Cooled(t) \in [Calls -> Nat]
           /\ \A c \in Calls : Cooled(t)[c] >= Lull
  <1>1. \A c \in Calls : due[c] \in Nat
    BY DEF LinkTypeOK
  <1>2. \A c \in Calls : Less(due[c], t) \in Nat /\ Less(due[c], t) + t >= due[c]
    BY <1>1, LessFacts
  <1>3. \A c \in Calls : Cooling(c) \in Nat /\ Cooling(c) >= Lull
    BY CoolingFacts
  <1>4. Lull \in Nat
    BY LinkAssumption DEF LinkAssumption, Lull
  <1>5. \A c \in Calls : /\ Greater(Less(due[c], t), Cooling(c)) \in Nat
                         /\ Greater(Less(due[c], t), Cooling(c)) >= Lull
    BY <1>2, <1>3, <1>4 DEF Greater
  <1> QED
    BY <1>2, <1>5 DEF Later, Cooled

\* The time since the last failure grows, up to its bound.
LEMMA RestFacts ==
    ASSUME LinkTypeOK, NEW t \in Nat
    PROVE  /\ Rested(t) \in 0 .. Lull /\ Rested(t) >= rest
           /\ Rested(t) = rest + t \/ Rested(t) = Lull
  <1>1. rest \in 0 .. Lull /\ Lull \in Nat
    BY LinkAssumption DEF LinkAssumption, LinkTypeOK, Lull
  <1> QED
    BY <1>1 DEF Rested, Lesser

\* The URLs a call tries are URLs.
LEMMA WindowFacts ==
    ASSUME LinkTypeOK
    PROVE  Window \subseteq 0 .. Urls - 1
  <1>1. Urls \in Nat /\ Urls > 0 /\ start \in Nat /\ Attempts \in Nat
    BY LinkAssumption DEF LinkAssumption, LinkTypeOK
  <1>2. \A n \in Nat : n % Urls \in 0 .. Urls - 1
    BY <1>1
  <1>3. \A k \in 0 .. Attempts - 1 : start + k \in Nat
    BY <1>1
  <1> QED
    BY <1>2, <1>3 DEF Window

\* Whoever answered, the next cycle starts at a URL.
LEMMA StartFacts ==
    ASSUME LinkTypeOK, Answered \/ Unanswered
    PROVE  start' \in 0 .. Urls - 1
  BY WindowFacts DEF Answered, Unanswered, LinkTypeOK
-------------------------------------------------------------------------------
\* Type correctness

\* The timers keep their type when some of them are set.
LEMMA SetTimer ==
    ASSUME NEW f \in [Calls -> Nat], NEW c \in Calls, NEW d \in Nat
    PROVE  [f EXCEPT ![c] = d] \in [Calls -> Nat]
  OBVIOUS

\* What the device does after a failure keeps the types of its timers.
LEMMA BackoffTypes ==
    ASSUME LinkTypeOK, NEW c \in Calls, NEW t \in Nat, Backoff(c, t)
    PROVE  /\ due' \in [Calls -> Nat] /\ slot' \in Nat /\ backoff' \in Retry .. MaxRetry
           /\ steady' \in BOOLEAN /\ rest' \in 0 .. Lull
  <1>1. Cooled(t) \in [Calls -> Nat]
    BY TimerFacts
  <1>2. Less(Doubled, t) \in Nat
    BY DoubledFacts, LessFacts
  <1>3. due' \in [Calls -> Nat]
    BY <1>1, <1>2, SetTimer DEF Backoff
  <1>4. slot' \in Nat /\ backoff' \in Retry .. MaxRetry /\ rest' \in 0 .. Lull
    BY DoubledFacts, LinkAssumption DEF LinkAssumption, Backoff, Lull
  <1>5. steady' \in BOOLEAN
    <2>1. steady' = (steady /\ c \in Steady)
      BY DEF Backoff
    <2>2. steady \in BOOLEAN
      BY DEF LinkTypeOK
    <2> QED
      BY <2>1, <2>2
  <1> QED
    BY <1>3, <1>4, <1>5

\* What all calls that succeed have in common keeps its types.
LEMMA SucceedTypes ==
    ASSUME LinkTypeOK, NEW c \in Calls, NEW t \in Nat, NEW token, Succeed(c, t, token)
    PROVE  /\ slot' \in Nat /\ rest' \in 0 .. Lull /\ start' \in 0 .. Urls - 1
           /\ net' = net /\ home' = home
  BY RestFacts, StartFacts, LinkAssumption DEF LinkAssumption, Succeed, outside

\* The first retry delay is a backoff.
LEMMA RetryFacts ==
    /\ Retry \in Nat /\ Retry \in Retry .. MaxRetry /\ Spacing \in Nat
    /\ \A c \in Steady : FirstAfter[c] \in Nat /\ Every[c] \in Nat
  BY LinkAssumption DEF LinkAssumption

\* The types, in the parts that steps change together.
LEMMA Assembled ==
    ASSUME due' \in [Calls -> Nat], slot' \in Nat, backoff' \in Retry .. MaxRetry,
           steady' \in BOOLEAN, deferred' \in BOOLEAN, start' \in 0 .. Urls - 1,
           device' \in Tokens, enrollment' \in Tokens,
           net' \in {"offline", "up", "erratic"}, home' \in 0 .. Urls - 1,
           rest' \in 0 .. Lull
    PROVE  LinkTypeOK'
  BY DEF LinkTypeOK

\* The types after a call that fails.
LEMMA FailTypes ==
    ASSUME LinkTypeOK, NEW c \in Calls, NEW t \in Nat,
           Fail(c, t) \/ Refuse(c, t) \/ RetryLater(c, t) \/ Garbled(c, t)
    PROVE  LinkTypeOK'
  <1>1. /\ backoff \in Retry .. MaxRetry /\ steady \in BOOLEAN /\ deferred \in BOOLEAN
        /\ device \in Tokens /\ enrollment \in Tokens
        /\ net \in {"offline", "up", "erratic"} /\ home \in 0 .. Urls - 1
    BY DEF LinkTypeOK
  <1>2. CASE Fail(c, t)
    <2>1. Answered \/ Unanswered
      BY <1>2 DEF Fail
    <2> QED
      BY <1>1, <1>2, <2>1, BackoffTypes, StartFacts, Assembled DEF Fail, tokens, outside
  <1>3. CASE Refuse(c, t)
    <2>1. device' \in Tokens /\ enrollment' \in Tokens
      BY <1>1, <1>3 DEF Refuse, Tokens
    <2> QED
      BY <1>1, <1>3, <2>1, BackoffTypes, StartFacts, Assembled DEF Refuse, outside
  <1>4. CASE RetryLater(c, t)
    <2>1. Later(t) \in [Calls -> Nat] /\ Cooling(c) \in Nat /\ Less(Doubled, t) \in Nat
      BY TimerFacts, CoolingFacts, DoubledFacts, LessFacts
    <2>2. due' \in [Calls -> Nat]
      BY <1>4, <2>1, SetTimer DEF RetryLater
    <2>3. slot' \in Nat /\ backoff' \in Retry .. MaxRetry /\ rest' \in 0 .. Lull
      BY <1>4, DoubledFacts, RetryFacts, LinkAssumption DEF LinkAssumption, RetryLater, Lull
    <2> QED
      BY <1>1, <1>4, <2>2, <2>3, StartFacts, Assembled DEF RetryLater, tokens, outside
  <1>5. CASE Garbled(c, t)
    <2>1. Later(t) \in [Calls -> Nat]
      BY TimerFacts
    <2>2. Less(backoff, t) \in Nat /\ Retry \in Nat
      <3>1. backoff \in Nat /\ Retry \in Nat
        BY <1>1, LinkAssumption DEF LinkAssumption
      <3> QED
        BY <3>1, LessFacts
    <2>3. \/ due' = Later(t)
          \/ due' = [Later(t) EXCEPT !["announce"] = Retry]
          \/ due' = [Later(t) EXCEPT ![c] = Less(backoff, t)]
      <3>1. due' = CASE c = "announce" -> [Later(t) EXCEPT ![c] = Retry]
                     [] c = "firmware" -> Later(t)
                     [] OTHER          -> [Later(t) EXCEPT ![c] = Less(backoff, t)]
        BY <1>5 DEF Garbled
      <3>2. CASE c = "announce"
        BY <3>1, <3>2
      <3>3. CASE c = "firmware"
        BY <3>1, <3>3
      <3>4. CASE c # "announce" /\ c # "firmware"
        BY <3>1, <3>4
      <3> QED
        BY <3>2, <3>3, <3>4
    <2>4. due' \in [Calls -> Nat]
      BY <2>1, <2>2, <2>3, SetTimer DEF Calls
    <2>5. slot' \in Nat /\ rest' \in 0 .. Lull /\ backoff' = backoff
      BY <1>5, RestFacts, RetryFacts DEF Garbled
    <2>6. steady' \in BOOLEAN
      <3>1. steady' = (steady /\ c \in Steady)
        BY <1>5 DEF Garbled
      <3> QED
        BY <1>1, <3>1
    <2> QED
      BY <1>1, <1>5, <2>4, <2>5, <2>6, StartFacts, Assembled DEF Garbled, tokens, outside
  <1> QED
    BY <1>2, <1>3, <1>4, <1>5
\* The types after a call that succeeds.
LEMMA SuccessTypes ==
    ASSUME LinkTypeOK, NEW t \in Nat,
           \/ Pending(t) \/ Adopted(t) \/ Register(t)
           \/ Heartbeat(t) \/ Poll(t) \/ Firmware(t)
    PROVE  LinkTypeOK'
  <1>1. /\ backoff \in Retry .. MaxRetry /\ steady \in BOOLEAN /\ deferred \in BOOLEAN
        /\ device \in Tokens /\ enrollment \in Tokens
        /\ net \in {"offline", "up", "erratic"} /\ home \in 0 .. Urls - 1
    BY DEF LinkTypeOK
  <1>2. Later(t) \in [Calls -> Nat] /\ Cooled(t) \in [Calls -> Nat]
    BY TimerFacts
  <1>3. {"announce", "register", "heartbeat", "poll", "firmware"} = Calls
    BY DEF Calls
  <1>4. \A c \in Steady : Less(Every[c], t) \in Nat
    BY RetryFacts, LessFacts
  <1>5. "heartbeat" \in Steady /\ "poll" \in Steady /\ "firmware" \in Steady
    BY DEF Steady
  <1>6. ASSUME NEW c \in Calls, NEW token, Succeed(c, t, token)
        PROVE  /\ slot' \in Nat /\ rest' \in 0 .. Lull /\ start' \in 0 .. Urls - 1
               /\ net' \in {"offline", "up", "erratic"} /\ home' \in 0 .. Urls - 1
    BY <1>1, <1>6, SucceedTypes
  <1>7. CASE Pending(t)
    <2>1. Retry \in Nat /\ Greater(Retry, NoTokenRetry) \in Nat
      BY LinkAssumption DEF LinkAssumption, Greater
    <2>2. due' \in [Calls -> Nat]
      <3>1. PICK wait \in {Retry, Greater(Retry, NoTokenRetry)}, turn \in {0, due["register"]} :
                due' = [[Later(t) EXCEPT !["announce"] = wait]
                            EXCEPT !["register"] = Less(turn, t)]
        BY <1>7 DEF Pending
      <3>2. turn \in Nat
        BY <1>3 DEF LinkTypeOK
      <3>3. wait \in Nat /\ Less(turn, t) \in Nat
        BY <2>1, <3>2, LessFacts
      <3> QED
        BY <1>2, <1>3, <3>1, <3>3, SetTimer
    <2> QED
      BY <1>1, <1>3, <1>6, <1>7, <2>2, RetryFacts, Assembled DEF Pending, tokens
  <1>8. CASE Adopted(t)
    <2>1. due' = [[Later(t) EXCEPT !["announce"] = Retry] EXCEPT !["register"] = 0]
      BY <1>8 DEF Adopted
    <2>2. due' \in [Calls -> Nat]
      BY <1>2, <1>3, <2>1, SetTimer, RetryFacts
    <2>3. enrollment' \in Tokens
      BY <1>8 DEF Adopted, Tokens
    <2> QED
      BY <1>1, <1>3, <1>6, <1>8, <2>2, <2>3, RetryFacts, Assembled DEF Adopted
  <1>9. CASE Register(t)
    <2>1. due' \in [Calls -> Nat]
      BY <1>2, <1>9, RetryFacts DEF Register
    <2>2. enrollment' \in Tokens /\ device' \in Tokens
      BY <1>9 DEF Register, Tokens
    <2> QED
      BY <1>1, <1>3, <1>6, <1>9, <2>1, <2>2, RetryFacts, Assembled DEF Register
  <1>10. CASE Heartbeat(t)
    <2>1. due' \in [Calls -> Nat]
      BY <1>2, <1>3, <1>4, <1>5, <1>10, SetTimer DEF Heartbeat
    <2> QED
      BY <1>1, <1>3, <1>6, <1>10, <2>1, RetryFacts, Assembled DEF Heartbeat, tokens
  <1>11. CASE Poll(t)
    <2>1. PICK calm \in {Later(t), Cooled(t)} :
              due' = [calm EXCEPT !["poll"] = Less(Every["poll"], t)]
      BY <1>11 DEF Poll
    <2>2. due' \in [Calls -> Nat]
      BY <1>2, <1>3, <1>4, <1>5, <2>1, SetTimer
    <2> QED
      BY <1>1, <1>3, <1>6, <1>11, <2>2, RetryFacts, Assembled DEF Poll, tokens
  <1>12. CASE Firmware(t)
    <2>1. due' \in [Calls -> Nat]
      BY <1>2, <1>3, <1>4, <1>5, <1>12, SetTimer DEF Firmware
    <2> QED
      BY <1>1, <1>3, <1>6, <1>12, <2>1, RetryFacts, Assembled DEF Firmware, tokens
  <1> QED
    BY <1>7, <1>8, <1>9, <1>10, <1>11, <1>12

\* The types after a step that is no call.
LEMMA OtherTypes ==
    ASSUME LinkTypeOK,
           \/ ScheduleSteadyStateWork \/ Unschedule
           \/ LinkTick \/ Change \/ Revoke \/ SetTokens \/ Reboot
           \/ \E t \in Lengths : Drain(t)
    PROVE  LinkTypeOK'
  <1>1. /\ due \in [Calls -> Nat] /\ slot \in Nat
        /\ backoff \in Retry .. MaxRetry /\ steady \in BOOLEAN /\ deferred \in BOOLEAN
        /\ start \in 0 .. Urls - 1 /\ device \in Tokens /\ enrollment \in Tokens
        /\ net \in {"offline", "up", "erratic"} /\ home \in 0 .. Urls - 1
        /\ rest \in 0 .. Lull
    BY DEF LinkTypeOK
  <1>2. CASE ScheduleSteadyStateWork
    <2>1. due' \in [Calls -> Nat]
      BY <1>1, <1>2, RetryFacts DEF ScheduleSteadyStateWork
    <2> QED
      BY <1>1, <1>2, <2>1, RetryFacts, Assembled DEF ScheduleSteadyStateWork, tokens, outside
  <1>3. CASE LinkTick
    <2>1. due' \in [Calls -> Nat] /\ slot' \in Nat /\ rest' \in 0 .. Lull
      BY <1>1, <1>3, TimerFacts, LessFacts, RestFacts DEF LinkTick
    <2> QED
      BY <1>1, <1>3, <2>1, Assembled DEF LinkTick, tokens, outside
  <1>4. CASE Change
    <2>1. home' \in 0 .. Urls - 1
      BY <1>4, LinkAssumption DEF LinkAssumption, Change
    <2> QED
      BY <1>1, <1>4, <2>1, Assembled DEF Change, timers, tokens
  <1>5. CASE Revoke
    <2>1. device' \in Tokens /\ enrollment' \in Tokens
      BY <1>1, <1>5 DEF Revoke, Tokens
    <2> QED
      BY <1>1, <1>5, <2>1, Assembled DEF Revoke, timers, outside
  <1>6. CASE Reboot
    <2>1. due' \in [Calls -> Nat] /\ Lull \in Nat /\ 0 \in 0 .. Urls - 1
      BY <1>6, LinkAssumption DEF Reboot, LinkAssumption, Lull
    <2>2. /\ slot' = 0 /\ backoff' = Retry /\ steady' = FALSE /\ deferred' = FALSE
          /\ start' = 0 /\ rest' = Lull
          /\ device' = device /\ enrollment' = enrollment /\ net' = net /\ home' = home
      BY <1>6 DEF Reboot, tokens, outside
    <2>3. rest' \in 0 .. Lull /\ backoff' \in Retry .. MaxRetry
      BY <2>1, <2>2, RetryFacts
    <2> QED
      BY <1>1, <2>1, <2>2, <2>3, Assembled
  <1>7. ASSUME NEW t \in Lengths, Drain(t)
        PROVE  LinkTypeOK'
    <2>1. t \in Nat
      BY LengthFacts
    <2>2. due' \in [Calls -> Nat]
      BY <1>7, <2>1, TimerFacts DEF Drain
    <2>3. rest' \in 0 .. Lull
      <3>1. Rested(t) \in 0 .. Lull /\ Lull \in Nat
        BY <2>1, RestFacts, LinkAssumption DEF LinkAssumption, Lull
      <3>2. rest' \in {Rested(t), 0}
        BY <1>7 DEF Drain
      <3> QED
        BY <3>1, <3>2
    <2>4. slot' \in Nat
      <3>1. Less(slot, t) \in Nat /\ Doubled \in Nat /\ SlotDelay \in Nat
        BY <1>1, <2>1, LessFacts, DoubledFacts, LinkAssumption DEF LinkAssumption
      <3> QED
        BY <1>7, <3>1 DEF Drain, Greater, Lesser
    <2>5. start' \in 0 .. Urls - 1
      <3>1. start' = start \/ Answered \/ Unanswered
        BY <1>7 DEF Drain
      <3> QED
        BY <1>1, <3>1, StartFacts
    <2> QED
      BY <1>1, <1>7, <2>2, <2>3, <2>4, <2>5, RetryFacts, Assembled DEF Drain, tokens, outside
  <1>8. CASE Unschedule
    BY <1>1, <1>8, Assembled DEF Unschedule, timers, tokens, outside
  <1>9. CASE SetTokens
    <2>1. device' \in Tokens /\ enrollment' \in Tokens
      BY <1>1, <1>9 DEF SetTokens, Tokens
    <2>2. rest' \in 0 .. Lull
      <3>1. Lull \in 0 .. Lull
        BY LinkAssumption DEF LinkAssumption, Lull
      <3> QED
        BY <1>1, <1>9, <3>1 DEF SetTokens
    <2> QED
      BY <1>1, <1>9, <2>1, <2>2, Assembled DEF SetTokens, timers, outside
  <1> QED
    BY <1>2, <1>3, <1>4, <1>5, <1>6, <1>7, <1>8, <1>9

\* The state has its type at first.
LEMMA LinkTypeInit == LinkInit => LinkTypeOK
  <1> SUFFICES ASSUME LinkInit
               PROVE  LinkTypeOK
    OBVIOUS
  <1>1. Lull \in Nat /\ rest \in 0 .. Lull /\ start \in 0 .. Urls - 1
    BY LinkAssumption DEF LinkAssumption, LinkInit, Lull
  <1>2. due \in [Calls -> Nat] /\ slot \in Nat /\ backoff \in Retry .. MaxRetry
    BY RetryFacts DEF LinkInit
  <1> QED
    BY <1>1, <1>2 DEF LinkInit, LinkTypeOK, Tokens

\* It has it after every step.
LEMMA LinkTypeStep == LinkTypeOK /\ [LinkNext]_linkVars => LinkTypeOK'
  <1> SUFFICES ASSUME LinkTypeOK, [LinkNext]_linkVars
               PROVE  LinkTypeOK'
    OBVIOUS
  <1>1. CASE UNCHANGED linkVars
    BY <1>1 DEF LinkTypeOK, linkVars, timers, tokens, outside
  <1> QED
    BY LinkSteps, <1>1, FailTypes, SuccessTypes, OtherTypes, LengthFacts

\* The state of the link to the hub has its type at all times (central_client.cpp).
THEOREM LinkTypeCorrect == LinkSpec => []LinkTypeOK
  BY LinkTypeInit, LinkTypeStep, PTL DEF LinkSpec

-------------------------------------------------------------------------------
\* Quiet after a failure

\* Could a call be the next, as far as the tokens and the schedule go?
Relevant(c) ==
    CASE c = "announce" -> device = "none" /\ enrollment = "none"
      [] c = "register" -> device = "none" /\ enrollment # "none"
      [] OTHER          -> device # "none" /\ steady

\* Long enough since the last failure, in d more ticks?
Calm(d) == d + rest >= Lull - CallTime

\* No call that may come is due before the device has been quiet for long enough.
Quiet == \A c \in Calls : Relevant(c) => Calm(due[c])

\* With a token but no schedule, the device has just started or been given the
\* token, and failed no call since.
QuietStart == device # "none" /\ ~steady => Calm(0)

\* Commands are put off by a heartbeat, and no pass forgets the schedule before
\* they are carried out.
PutOff == deferred => steady

QuietInv == Quiet /\ QuietStart /\ PutOff

\* A call whose turn it is is relevant.
LEMMA TurnIsCalm ==
    ASSUME LinkTypeOK, Quiet, NEW c \in Calls, Turn(c)
    PROVE  Relevant(c) /\ Calm(0)
  <1>1. Relevant(c)
    <2>1. CASE c \in {"announce", "register"}
      BY <2>1 DEF Turn, Wanted, Relevant
    <2>2. CASE c \in {"heartbeat", "poll", "firmware"}
      BY <2>2 DEF Turn, Wanted, Relevant
    <2> QED
      BY <2>1, <2>2 DEF Calls
  <1>2. due[c] = 0
    BY DEF Turn
  <1> QED
    BY <1>1, <1>2 DEF Quiet

\* Once it is calm no timer matters.
LEMMA CalmIsQuiet ==
    ASSUME LinkTypeOK, LinkTypeOK', Calm(0), rest' >= rest
    PROVE  Quiet' /\ QuietStart'
  <1>1. /\ rest \in Nat /\ rest' \in Nat /\ Lull \in Nat /\ CallTime \in Nat
        /\ \A c \in Calls : due'[c] \in Nat
    BY LinkAssumption DEF LinkTypeOK, LinkAssumption, Lull
  <1>2. rest' >= Lull - CallTime
    BY <1>1 DEF Calm
  <1>3. \A c \in Calls : due'[c] + rest' >= Lull - CallTime
    BY <1>1, <1>2
  <1>4. Quiet'
    BY <1>3 DEF Quiet, Calm
  <1>5. QuietStart'
    <2>1. Calm(0)'
      BY <1>1, <1>2 DEF Calm, Lull
    <2> QED
      BY <1>1, <2>1 DEF QuietStart
  <1> QED
    BY <1>4, <1>5

\* Neither does it when all timers were put off.
LEMMA BackoffIsQuiet ==
    ASSUME LinkTypeOK, LinkTypeOK', NEW t \in Lengths, NEW c \in Calls, Backoff(c, t)
    PROVE  Quiet'
  <1>1. t \in Nat /\ t <= CallTime /\ CallTime \in Nat /\ Lull \in Nat
    BY LengthFacts, LinkAssumption DEF LinkAssumption, Lull
  <1>2. Cooled(t) \in [Calls -> Nat] /\ \A d \in Calls : Cooled(t)[d] >= Lull
    BY <1>1, TimerFacts
  <1>3. Less(Doubled, t) \in Nat /\ Less(Doubled, t) >= Lull - CallTime
    BY <1>1, DoubledFacts, LessFacts
  <1>4. rest' = 0 /\ (due' = Cooled(t) \/ due' = [Cooled(t) EXCEPT ![c] = Less(Doubled, t)])
    BY DEF Backoff
  <1>5. \A d \in Calls : due'[d] \in Nat /\ due'[d] >= Lull - CallTime
    BY <1>1, <1>2, <1>3, <1>4
  <1> QED
    BY <1>1, <1>4, <1>5 DEF Quiet, Calm

\* The invariant: all that a failure could leave due is put off, a call that was made
\* without one proves that the device was calm, and only a restart forgets.
LEMMA QuietKept ==
    LinkTypeOK /\ LinkTypeOK' /\ QuietInv /\ [LinkNext]_linkVars => QuietInv'
  <1> SUFFICES ASSUME LinkTypeOK, LinkTypeOK', QuietInv, [LinkNext]_linkVars
               PROVE  QuietInv'
    OBVIOUS
  <1> USE DEF QuietInv
  <1>1. CASE UNCHANGED linkVars
    BY <1>1 DEF linkVars, timers, tokens, Quiet, QuietStart, PutOff, Calm, Relevant
  <1>2. CASE ScheduleSteadyStateWork
    <2>1. Calm(0) /\ rest' = rest /\ rest \in Nat
      BY <1>2 DEF ScheduleSteadyStateWork, Unscheduled, QuietStart, LinkTypeOK
    <2>2. PutOff'
      BY <1>2 DEF ScheduleSteadyStateWork, PutOff
    <2> QED
      BY <2>1, <2>2, CalmIsQuiet
  <1>3. ASSUME NEW c \in Calls, Turn(c)
        PROVE  Relevant(c) /\ Calm(0) /\ ~deferred
    BY <1>3, TurnIsCalm DEF Turn, Ready
  <1>4. ASSUME NEW c \in Calls, Relevant(c)
        PROVE  /\ c \in Steady <=> device # "none"
               /\ c \in Steady => steady
    <2>1. CASE c \in {"announce", "register"}
      BY <1>4, <2>1 DEF Relevant, Steady
    <2>2. CASE c \in {"heartbeat", "poll", "firmware"}
      BY <1>4, <2>2 DEF Relevant, Steady
    <2> QED
      BY <2>1, <2>2 DEF Calls
  <1>5. ASSUME NEW t \in Lengths, NEW c \in Calls, Fail(c, t) \/ Refuse(c, t)
        PROVE  QuietInv'
    <2>1. Turn(c) /\ Backoff(c, t) /\ deferred' = deferred
      BY <1>5 DEF Fail, Refuse
    <2>2. Quiet'
      BY <2>1, BackoffIsQuiet
    <2>3. PutOff'
      BY <1>3, <2>1 DEF PutOff
    <2>4. QuietStart'
      <3>1. steady' = (steady /\ c \in Steady)
        BY <2>1 DEF Backoff
      <3>2. CASE c \in Steady
        <4>1. steady'
          BY <1>3, <1>4, <2>1, <3>1, <3>2
        <4> QED
          BY <4>1 DEF QuietStart
      <3>3. CASE c \notin Steady
        <4>1. device = "none"
          BY <1>3, <1>4, <2>1, <3>3
        <4>2. device' = "none"
          BY <1>5, <3>3, <4>1 DEF Fail, Refuse, tokens, Steady
        <4> QED
          BY <4>2 DEF QuietStart
      <3> QED
        BY <3>2, <3>3
    <2> QED
      BY <2>2, <2>3, <2>4
  <1>6. ASSUME NEW t \in Lengths, NEW c \in Calls, RetryLater(c, t)
        PROVE  QuietInv'
    <2>1. /\ Turn(c) /\ c \in {"announce", "register"} /\ deferred' = deferred
          /\ device' = device /\ enrollment' = enrollment /\ rest' = 0
      BY <1>6 DEF RetryLater, tokens
    <2>2. ~deferred /\ Relevant(c) /\ device = "none"
      BY <1>3, <1>4, <2>1 DEF Steady
    <2>3. PutOff' /\ QuietStart'
      BY <2>1, <2>2 DEF PutOff, QuietStart
    <2>4. \A d \in Calls : Relevant(d)' => d = c
      <3> SUFFICES ASSUME NEW d \in Calls, Relevant(d)'
                   PROVE  d = c
        OBVIOUS
      <3>1. device' = "none"
        BY <2>1, <2>2
      <3>2. d \in {"announce", "register"}
        BY <3>1 DEF Relevant, Calls
      <3> QED
        BY <2>1, <2>2, <3>2 DEF Relevant
    <2>5. due'[c] >= Lull - CallTime
      <3>1. t \in Nat /\ t <= CallTime /\ CallTime \in Nat /\ Lull \in Nat
        BY LengthFacts, LinkAssumption DEF LinkAssumption, Lull
      <3>2. Cooling(c) \in Nat /\ Cooling(c) >= Lull
        BY CoolingFacts
      <3>3. Less(Doubled, t) \in Nat /\ Less(Doubled, t) >= Lull - CallTime
        BY <3>1, DoubledFacts, LessFacts
      <3>4. due'[c] \in {Cooling(c), Less(Doubled, t)}
        BY <1>6, <3>1, TimerFacts DEF RetryLater
      <3> QED
        BY <3>1, <3>2, <3>3, <3>4
    <2>6. Quiet'
      <3>1. due'[c] \in Nat /\ Lull \in Nat /\ CallTime \in Nat
        BY LinkAssumption DEF LinkAssumption, LinkTypeOK, Lull
      <3> QED
        BY <2>1, <2>4, <2>5, <3>1 DEF Quiet, Calm
    <2> QED
      BY <2>3, <2>6
  <1>7. ASSUME NEW t \in Lengths, NEW c \in Calls, Turn(c), rest' = Rested(t),
               deferred' => steady'
        PROVE  QuietInv'
    <2>1. Calm(0)
      BY <1>3, <1>7
    <2>2. rest' >= rest
      BY <1>7, RestFacts, LengthFacts
    <2> QED
      BY <1>7, <2>1, <2>2, CalmIsQuiet DEF PutOff
  <1>8. ASSUME NEW t \in Lengths, NEW c \in Calls, Garbled(c, t)
        PROVE  QuietInv'
    <2>1. Turn(c) /\ rest' = Rested(t) /\ deferred' = deferred
      BY <1>8 DEF Garbled
    <2> QED
      BY <1>3, <1>7, <2>1
  <1>9. ASSUME NEW t \in Lengths,
               Pending(t) \/ Adopted(t) \/ Register(t) \/ Poll(t) \/ Firmware(t)
        PROVE  QuietInv'
    <2>1. PICK c \in Calls : Turn(c) /\ rest' = Rested(t) /\ deferred' = deferred
      BY <1>9 DEF Pending, Adopted, Register, Poll, Firmware, Succeed, Calls
    <2> QED
      BY <1>3, <1>7, <2>1
  <1>10. ASSUME NEW t \in Lengths, Heartbeat(t)
         PROVE  QuietInv'
    <2>1. /\ Turn("heartbeat") /\ rest' = Rested(t) /\ "heartbeat" \in Calls
          /\ steady' = steady /\ device' = device
      BY <1>10 DEF Heartbeat, Succeed, Calls, tokens
    <2>2. steady /\ device # "none"
      BY <2>1 DEF Turn, Wanted
    <2> QED
      BY <1>7, <2>1, <2>2
  <1>11. ASSUME NEW t \in Lengths, Drain(t)
         PROVE  QuietInv'
    <2>1. deferred' = FALSE /\ steady' = steady /\ device' = device /\ enrollment' = enrollment
      BY <1>11 DEF Drain, tokens
    <2>2. steady
      BY <1>11 DEF Drain, PutOff
    <2>3. PutOff' /\ QuietStart'
      BY <2>1, <2>2 DEF PutOff, QuietStart
    <2>4. t \in Nat /\ CallTime \in Nat /\ Lull \in Nat
      BY LengthFacts, LinkAssumption DEF LinkAssumption, Lull
    <2>5. CASE due' = Later(t) /\ rest' = Rested(t)
      <3>1. \A c \in Calls : due[c] \in Nat /\ due'[c] \in Nat /\ due'[c] + t >= due[c]
        BY <2>4, <2>5, TimerFacts DEF LinkTypeOK
      <3>2. rest \in Nat /\ rest' \in Nat /\ (rest' = rest + t \/ rest' = Lull)
        BY <2>4, <2>5, RestFacts DEF LinkTypeOK
      <3>3. \A c \in Calls : Relevant(c)' => Relevant(c)
        BY <2>1 DEF Relevant
      <3>4. \A c \in Calls : Relevant(c) => due'[c] + rest' >= Lull - CallTime
        BY <2>4, <3>1, <3>2 DEF Quiet, Calm
      <3>5. Quiet'
        BY <3>3, <3>4 DEF Quiet, Calm
      <3> QED
        BY <2>3, <3>5
    <2>6. CASE due' = Cooled(t) /\ rest' = 0
      <3>1. \A c \in Calls : due'[c] \in Nat /\ due'[c] >= Lull
        BY <2>4, <2>6, TimerFacts
      <3>2. \A c \in Calls : due'[c] + rest' >= Lull - CallTime
        BY <2>4, <2>6, <3>1
      <3>3. Quiet'
        BY <3>2 DEF Quiet, Calm
      <3> QED
        BY <2>3, <3>3
    <2> QED
      BY <1>11, <2>5, <2>6 DEF Drain
  <1>12. CASE LinkTick
    <2>1. /\ due' = Later(1) /\ rest' = Rested(1)
          /\ UNCHANGED <<device, enrollment, steady, deferred>>
      BY <1>12 DEF LinkTick, tokens
    <2>2. CallTime \in Nat /\ Lull \in Nat
      BY LinkAssumption DEF LinkAssumption, Lull
    <2>3. \A c \in Calls : due[c] \in Nat /\ due'[c] \in Nat /\ due'[c] + 1 >= due[c]
      BY <2>1, TimerFacts DEF LinkTypeOK
    <2>4. /\ rest \in Nat /\ rest' \in Nat /\ rest' >= rest
          /\ rest' = rest + 1 \/ rest' = Lull
      BY <2>1, RestFacts DEF LinkTypeOK
    <2>5. \A c \in Calls : Relevant(c)' => Relevant(c)
      BY <2>1 DEF Relevant
    <2>6. \A c \in Calls : Relevant(c) => due'[c] + rest' >= Lull - CallTime
      BY <2>2, <2>3, <2>4 DEF Quiet, Calm
    <2>7. Quiet'
      BY <2>5, <2>6 DEF Quiet, Calm
    <2>8. QuietStart' /\ PutOff'
      BY <2>1, <2>2, <2>4 DEF QuietStart, PutOff, Calm
    <2> QED
      BY <2>7, <2>8
  <1>13. CASE Change \/ Revoke
    <2>1. /\ UNCHANGED <<due, steady, deferred, rest>>
          /\ device' = "none" <=> device = "none"
          /\ enrollment' = "none" <=> enrollment = "none"
      BY <1>13 DEF Change, Revoke, timers, tokens
    <2>2. \A c \in Calls : Relevant(c)' => Relevant(c)
      BY <2>1 DEF Relevant
    <2>3. Quiet'
      BY <2>1, <2>2 DEF Quiet, Calm
    <2>4. QuietStart' /\ PutOff'
      BY <2>1 DEF QuietStart, PutOff, Calm
    <2> QED
      BY <2>3, <2>4
  <1>14. CASE Reboot
    <2>1. rest' = Lull /\ deferred' = FALSE /\ due' = [c \in Calls |-> 0]
      BY <1>14 DEF Reboot
    <2>2. CallTime \in Nat /\ Lull \in Nat
      BY LinkAssumption DEF LinkAssumption, Lull
    <2>3. \A c \in Calls : due'[c] + rest' >= Lull - CallTime
      BY <2>1, <2>2
    <2>4. Quiet'
      BY <2>3 DEF Quiet, Calm
    <2>5. QuietStart' /\ PutOff'
      BY <2>1, <2>2 DEF QuietStart, PutOff, Calm
    <2> QED
      BY <2>4, <2>5
  <1>15. CASE Unschedule
    <2>1. /\ UNCHANGED <<due, device, enrollment, deferred, rest>>
          /\ device = "none" /\ ~deferred
      BY <1>15 DEF Unschedule, Outdated, Ready, timers, tokens
    <2>2. \A c \in Calls : Relevant(c)' => Relevant(c)
      BY <2>1 DEF Relevant, Calls
    <2>3. Quiet'
      BY <2>1, <2>2 DEF Quiet, Calm
    <2>4. QuietStart' /\ PutOff'
      BY <2>1 DEF QuietStart, PutOff
    <2> QED
      BY <2>3, <2>4
  <1>16. CASE SetTokens
    <2>1. UNCHANGED <<due, steady, deferred>> /\ PutOff'
      BY <1>16 DEF SetTokens, timers, PutOff
    <2>2. CASE Redirected
      <3>1. rest' = Lull /\ CallTime \in Nat /\ Lull \in Nat
        BY <1>16, <2>2, LinkAssumption DEF SetTokens, LinkAssumption, Lull
      <3>2. \A c \in Calls : due'[c] \in Nat
        BY DEF LinkTypeOK
      <3>3. \A c \in Calls : due'[c] + rest' >= Lull - CallTime
        BY <3>1, <3>2
      <3>4. Quiet'
        BY <3>3 DEF Quiet, Calm
      <3>5. QuietStart'
        BY <3>1 DEF QuietStart, Calm
      <3> QED
        BY <2>1, <3>4, <3>5
    <2>3. CASE ~Redirected
      <3>1. rest' = rest
        BY <1>16, <2>3 DEF SetTokens
      <3>2. /\ device' = "none" <=> device = "none"
            /\ device = "none" => (enrollment' = "none" <=> enrollment = "none")
        BY <2>3 DEF Redirected
      <3>3. \A c \in Calls : Relevant(c)' => Relevant(c)
        BY <2>1, <3>2 DEF Relevant
      <3>4. Quiet'
        BY <2>1, <3>1, <3>3 DEF Quiet, Calm
      <3>5. QuietStart'
        BY <2>1, <3>1, <3>2 DEF QuietStart, Calm
      <3> QED
        BY <2>1, <3>4, <3>5
    <2> QED
      BY <2>2, <2>3
  <1> QED
    BY LinkSteps, <1>1, <1>2, <1>5, <1>6, <1>8, <1>9, <1>10, <1>11, <1>12, <1>13, <1>14,
       <1>15, <1>16

\* After a call that failed the device leaves the hub alone, whatever the delays are
\* and whatever the hub does to its tokens, until a restart or an operator's change
\* of tokens that leads to another call (scheduleTransportFailureCooldown,
\* central_client.cpp:180; loop, :1457).
THEOREM QuietAfterEveryFailure == LinkSpec => []QuietAfterFailure
  <1>1. LinkInit => QuietInv
    <2> SUFFICES ASSUME LinkInit
                 PROVE  QuietInv
      OBVIOUS
    <2>1. rest = Lull /\ deferred = FALSE /\ due = [c \in Calls |-> 0]
      BY DEF LinkInit
    <2>2. CallTime \in Nat /\ Lull \in Nat
      BY LinkAssumption DEF LinkAssumption, Lull
    <2>3. \A c \in Calls : due[c] + rest >= Lull - CallTime
      BY <2>1, <2>2
    <2> QED
      BY <2>1, <2>2, <2>3 DEF QuietInv, Quiet, QuietStart, PutOff, Calm
  <1>2. LinkTypeOK /\ QuietInv => QuietAfterFailure
    <2> SUFFICES ASSUME LinkTypeOK, QuietInv, NEW c \in Calls, Turn(c)
                 PROVE  rest >= Lull - CallTime
      BY DEF QuietAfterFailure
    <2>1. Calm(0) /\ rest \in Nat
      BY TurnIsCalm DEF QuietInv, LinkTypeOK
    <2> QED
      BY <2>1 DEF Calm
  <1> QED
    BY <1>1, <1>2, QuietKept, LinkTypeCorrect, PTL DEF LinkSpec
===============================================================================
