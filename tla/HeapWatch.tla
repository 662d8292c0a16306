------------------------------- MODULE HeapWatch -------------------------------
(***************************************************************************)
(* The restart that a device under heap pressure gives itself              *)
(* (src/src/central_client_heap.cpp: sampleHeap, heapTrajectoryRecovering, *)
(* maybeHeapPressureRestart, serializeHeapTrajectory), over reboots of     *)
(* every kind.                                                             *)
(*                                                                         *)
(* The largest free block ("heap") is a level.  A look is one pass of      *)
(* sampleHeap and maybeHeapPressureRestart, five seconds after the last.   *)
(* A tick is half an hour, HEAP_PRESSURE_MIN_UPTIME_S; there may be any    *)
(* number of looks between two.  The uptime comes from millis() and wraps; *)
(* the other times count up to Cooldown, the four hours of                 *)
(* PROACTIVE_BURST_SUPPRESS_AFTER_S, and stay there.                       *)
(***************************************************************************)
EXTENDS Integers, Sequences

CONSTANTS Levels,     \* 0 .. Levels: values of the largest free block
          Enough,     \* HEAP_PRESSURE_MFB_THRESHOLD
          Delta,      \* HEAP_PRESSURE_RECOVERY_DELTA
          Debounce,   \* HEAP_PRESSURE_DEBOUNCE_SAMPLES
          RingSize,   \* HEAP_RING_SIZE
          MinSamples, \* samples heapTrajectoryRecovering needs
          Cooldown,
          UptimeWrap  \* 2^32 ms

ASSUME WatchAssumption ==
    /\ Levels \in Nat /\ Enough \in 0 .. Levels /\ Delta \in Nat \ {0}
    /\ Debounce \in Nat \ {0} /\ Cooldown \in Nat \ {0}
    /\ UptimeWrap \in Nat /\ UptimeWrap > Cooldown
    /\ RingSize \in Nat /\ MinSamples \in 1 .. RingSize

VARIABLES mode,      \* off, on, firing (the restart is decided), prepared
          heap,      \* ESP.getMaxFreeBlockSize()
          ring,      \* heapRing_, the oldest sample first
          lows,      \* heapPressureSampleCount_
          uptime,    \* status_->uptimeSeconds
          synced,    \* status_->timeSynced
          prior,     \* lastPlannedRestartReason is heap_pressure_proactive
          staged,    \* flash: so is the reason in the boot record
          stored,    \* flash: is there a lastProactiveFireUnixSeconds?
          elapsed,   \* the wall clock, if it is set, minus that time; -1: the
                     \* clock is behind it
          fireAge,   \* history: age of the last such restart
          unstamped, \* history: its time is not on flash
          stepped,   \* history: was the clock set to another time since the
                     \* time on flash was stored?
          lowLooks,  \* history: looks in a row that found too little
          interrupted\* history: did the gates close on pressure being counted?

watchVars == <<mode, heap, ring, lows, uptime, synced, prior, staged, stored, elapsed,
               fireAge, unstamped, stepped, lowLooks, interrupted>>

\* The type of the state.
WatchTypeOK ==
    /\ mode \in {"off", "on", "firing", "prepared"}
    /\ heap \in 0 .. Levels
    /\ ring \in Seq(0 .. Levels) /\ Len(ring) <= RingSize
    /\ lows \in 0 .. Debounce
    /\ uptime \in 0 .. UptimeWrap - 1
    /\ elapsed \in -1 .. Cooldown /\ fireAge \in 0 .. Cooldown
    /\ {synced, prior, staged, stored, unstamped, stepped, interrupted} \subseteq BOOLEAN
    /\ lowLooks \in 0 .. Debounce + 1

WatchInit ==
    /\ mode = "off"
    /\ heap = Levels
    /\ ring = <<>> /\ lows = 0 /\ uptime = 0
    /\ synced = FALSE /\ prior = FALSE /\ staged = FALSE /\ stored = FALSE
    /\ elapsed = Cooldown /\ fireAge = Cooldown
    /\ unstamped = TRUE /\ stepped = FALSE
    /\ lowLooks = 0 /\ interrupted = FALSE

stamp   == <<stored, elapsed, unstamped, stepped>>
clocks  == <<uptime, fireAge>>
looking == <<ring, lows, lowLooks, interrupted>>

-------------------------------------------------------------------------------
\* A boot consumes the reason of the last restart, if the record can be saved, and
\* keeps the time of the last one for heap pressure.
WatchBoot ==
    /\ mode = "off"
    /\ mode' = "on"
    /\ prior' = staged
    /\ staged' \in {staged, FALSE}
    /\ UNCHANGED <<heap, synced, clocks, stamp, looking>>

\* SNTP answers.
Sync ==
    /\ mode = "on"
    /\ ~synced
    /\ synced' = TRUE
    /\ UNCHANGED <<mode, heap, prior, staged, clocks, stamp, looking>>

\* It answers with another time than the clock would have reached, earlier or
\* later, perhaps too early to be taken for a time.
ClockStep ==
    /\ mode = "on"
    /\ synced' \in BOOLEAN
    /\ elapsed' \in IF stored THEN -1 .. Cooldown ELSE {elapsed}
    /\ stepped' = TRUE
    /\ UNCHANGED <<mode, heap, prior, staged, stored, unstamped, clocks, looking>>

Drift(level) ==
    /\ heap' = level
    /\ UNCHANGED <<mode, synced, prior, staged, clocks, stamp, looking>>

Older(age) == IF age < Cooldown THEN age + 1 ELSE age

\* Half an hour passes, with the power on or off.  A clock that is behind may catch
\* up with the stored time.
Tick ==
    /\ uptime' = IF mode = "on" THEN (uptime + 1) % UptimeWrap ELSE uptime
    /\ elapsed' \in IF elapsed = -1 THEN {-1, 0} ELSE {Older(elapsed)}
    /\ fireAge' = Older(fireAge)
    /\ UNCHANGED <<mode, heap, synced, prior, staged, stored, unstamped, stepped, looking>>

\* A heartbeat takes the samples along, whether or not it arrives.
SerializeHeapTrajectory ==
    /\ mode = "on"
    /\ ring' = <<>>
    /\ UNCHANGED <<mode, heap, lows, synced, prior, staged, clocks, stamp,
                   lowLooks, interrupted>>

-------------------------------------------------------------------------------
\* sampleHeap, unless an HTTPS call has just returned.
Samples ==
    {ring, Append(IF Len(ring) = RingSize THEN Tail(ring) ELSE ring, heap)}

\* heapTrajectoryRecovering: the samples do not show a drop of Delta.
Recovering(r) ==
    /\ Len(r) >= MinSamples
    /\ r[Len(r)] + Delta > r[1]

\* Mutant of CoolingDown: the time of the last restart is not looked at.
CoolingDownByReason == prior /\ uptime < Cooldown

\* A stored time that is in the future of the clock does not count.
CoolingDown ==
    \/ synced /\ stored /\ elapsed \in 0 .. Cooldown - 1
    \/ prior /\ uptime < Cooldown

\* Mutant of Gated: no look counts without the samples of half a minute.
GatedByRing == uptime < 1 \/ CoolingDown \/ Len(ring) < MinSamples

Gated == uptime < 1 \/ CoolingDown

Low == heap < Enough

\* A look, as far as every one goes.
Look(r) ==
    /\ mode = "on"
    /\ ring' = r
    /\ lowLooks' = IF ~Low THEN 0
                   ELSE IF lowLooks <= Debounce THEN lowLooks + 1 ELSE lowLooks
    /\ UNCHANGED <<heap, synced, prior, staged, clocks, stamp>>

Hold(r) ==
    /\ Look(r)
    /\ Gated
    /\ interrupted' = (lows > 0)
    /\ UNCHANGED <<mode, lows>>

\* Mutant of Relax: one good look does not end the pressure.
RelaxKeeps(r) ==
    /\ Look(r)
    /\ ~Gated /\ ~Low
    /\ UNCHANGED <<mode, lows, interrupted>>

Relax(r) ==
    /\ Look(r)
    /\ ~Gated /\ ~Low
    /\ lows' = 0
    /\ interrupted' = FALSE
    /\ UNCHANGED mode

Count(r) ==
    /\ Look(r)
    /\ ~Gated /\ Low /\ lows < Debounce
    /\ lows' = lows + 1
    /\ UNCHANGED <<mode, interrupted>>

Suppress(r) ==
    /\ Look(r)
    /\ ~Gated /\ Low /\ lows = Debounce
    /\ Recovering(r)
    /\ lows' = 0
    /\ interrupted' = FALSE
    /\ UNCHANGED mode

Fire(r) ==
    /\ Look(r)
    /\ ~Gated /\ Low /\ lows = Debounce
    /\ ~Recovering(r)
    /\ mode' = "firing"
    /\ UNCHANGED <<lows, interrupted>>

\* After the event was logged and flushed: prepareForPlannedRestart with the
\* reason, and with the time if there is one.  The save may fail.
PrepareForHeapRestart ==
    /\ mode = "firing"
    /\ mode' = "prepared"
    /\ fireAge' = 0
    /\ \/ /\ synced
          /\ staged' = TRUE /\ stored' = TRUE /\ elapsed' = 0
          /\ unstamped' = FALSE /\ stepped' = FALSE
       \/ /\ staged' \in {staged, ~synced}
          /\ unstamped' = TRUE
          /\ UNCHANGED <<stored, elapsed, stepped>>
    /\ UNCHANGED <<heap, looking, uptime, synced, prior>>

\* ESP.restart(), a restart for another reason, a crash or a power loss: RAM is
\* gone.  A factory reset, or a full flash, takes the boot record too.
WatchStop ==
    /\ mode # "off"
    /\ mode' = "off"
    /\ ring' = <<>> /\ lows' = 0 /\ uptime' = 0
    /\ synced' = FALSE /\ prior' = FALSE
    /\ lowLooks' = 0 /\ interrupted' = FALSE
    /\ staged' \in {staged, FALSE}
    /\ \/ UNCHANGED <<stored, unstamped>>
       \/ stored' = FALSE /\ unstamped' = TRUE /\ ~staged'
    /\ UNCHANGED <<heap, elapsed, stepped, fireAge>>

WatchNext ==
    \/ WatchBoot
    \/ Sync
    \/ ClockStep
    \/ \E level \in 0 .. Levels : Drift(level)
    \/ Tick
    \/ SerializeHeapTrajectory
    \/ \E r \in Samples : Hold(r) \/ Relax(r) \/ Count(r) \/ Suppress(r) \/ Fire(r)
    \/ PrepareForHeapRestart
    \/ WatchStop

WatchSpec == WatchInit /\ [][WatchNext]_watchVars

-------------------------------------------------------------------------------
\* Properties

\* Two restarts for heap pressure come less than the cooldown apart only if the
\* device crashed or was restarted for another reason in between and the time of
\* the first is of no use at the second: it is not on flash (the clock was not set,
\* the record not saved, or lost), the clock is not set now, or it was set to
\* another time in between, forward, or back behind the stored time
\* (central_client_heap.cpp:161: one every four hours, through reboots of every
\* kind; line 182 names the last case).
RestartsApart ==
    [][PrepareForHeapRestart /\ fireAge < Cooldown =>
          ~prior /\ (unstamped \/ ~synced \/ stepped)]_watchVars

\* A restart answers pressure that lasted: every one of the last looks found too
\* little, the samples over them notwithstanding, unless the gates closed while
\* pressure was being counted.  Then the count outlives a recovery
\* (central_client.h:116 says it never does).
PressureLasted ==
    [][\A r \in Samples :
          Fire(r) => lowLooks' = Debounce + 1 \/ interrupted]_watchVars

\* While the device runs, open gates close again in three cases only: SNTP answers
\* late, and a restart of the last hours becomes known (central_client_heap.cpp:174);
\* it sets the clock to another time, or the clock catches up with a stored time
\* that was in its future (176); or the uptime wraps (134, 190).
ClosedByTheClock ==
    [][mode = "on" /\ mode' = "on" /\ ~Gated /\ Gated' =>
          (~synced /\ synced') \/ stepped' \/ uptime' = 0]_watchVars
===============================================================================
