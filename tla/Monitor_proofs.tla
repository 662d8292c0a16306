---------------------------- MODULE Monitor_proofs ----------------------------
(***************************************************************************)
(* Proofs about Monitor and HourWindow, for any profiles, timers and caps. *)
(***************************************************************************)
EXTENDS HourWindow, FiniteSetTheorems, TLAPS

\* Every step of the watchdog, by name.
LEMMA NextSteps ==
    ASSUME [Next]_vars
    PROVE  \/ Tick \/ StandDown \/ Wait \/ CutPower \/ RestorePower
           \/ NotDue \/ NothingToCheck \/ WifiDown \/ NoTarget \/ TargetUp
           \/ StillDown \/ Arm \/ LockOut
           \/ \E on \in BOOLEAN : Command(on)
           \/ \E on \in BOOLEAN : UdpCommand(on)
           \/ HubCycleBegins \/ HubCycleEnds
           \/ \E p \in Profiles : SaveConfig(p)
           \/ \E p \in Profiles : HubConfig(p)
           \/ \E recover \in BOOLEAN, p \in Profiles : Boot(recover, p)
           \/ UNCHANGED vars
  BY DEF Next, Loop, Watching, Commands, Reboot

\* Timers stay timers.
LEMMA RestartedType ==
    ASSUME age \in [Timers -> Nat], NEW started
    PROVE  Restarted(started) \in [Timers -> Nat]
  BY DEF Restarted

\* The timers of a boot are timers.
LEMMA FreshAges ==
    [t \in Timers |-> IF t = "check" THEN Cap["check"] ELSE 0] \in [Timers -> Nat]
  BY MonitorAssumption DEF Timers

-------------------------------------------------------------------------------
\* Type correctness

\* The ways through MonitorEngine::loop that check or wait with no cycle on.
Checks == NotDue \/ NothingToCheck \/ WifiDown \/ NoTarget \/ TargetUp
          \/ StillDown \/ Arm \/ LockOut

\* Counts and timers keep their types.
LEMMA CountsStep == TypeOK /\ [Next]_vars => CountsOK'
  <1> SUFFICES ASSUME TypeOK, [Next]_vars PROVE CountsOK'
      OBVIOUS
  <1> USE MonitorAssumption DEF TypeOK, CountsOK, evidence
  <1>1. CASE Tick
        <2>1. age' \in [Timers -> Nat]
              BY <1>1 DEF Tick
        <2>2. badFor' \in Nat \union {-1}
              BY <1>1 DEF Tick
        <2> QED BY <1>1, <2>1, <2>2 DEF Tick, watchdog
  <1>2. CASE StandDown
        BY <1>2 DEF StandDown
  <1>3. HourlyNow \in Nat /\ IncidentNow \in Nat
        BY DEF HourlyNow, IncidentNow
  <1>4. CASE Wait
        BY <1>3, <1>4, RestartedType DEF Wait
  <1>5. CASE CutPower \/ RestorePower
        BY <1>3, <1>5, RestartedType DEF CutPower, RestorePower, Pass
  <1>6. CASE NotDue \/ NothingToCheck
        BY <1>3, <1>6, RestartedType DEF NotDue, NothingToCheck, Watch, Pass
  <1>7. CASE WifiDown \/ NoTarget \/ TargetUp
        BY <1>3, <1>7, RestartedType DEF WifiDown, NoTarget, TargetUp, Check, Watch, Pass
  <1>8. CASE StillDown \/ Arm \/ LockOut
        BY <1>3, <1>8, RestartedType
        DEF StillDown, Arm, LockOut, TargetDown, Check, Watch, Pass
  <1>9. CASE \E on \in BOOLEAN : Command(on) \/ UdpCommand(on)
        BY <1>9 DEF Command, UdpCommand, watchdog
  <1>10. CASE HubCycleBegins \/ HubCycleEnds
        BY <1>10 DEF HubCycleBegins, HubCycleEnds, watchdog
  <1>11. CASE \E p \in Profiles : SaveConfig(p) \/ HubConfig(p)
        BY <1>11 DEF SaveConfig, HubConfig, Configure, Save, watchdog
  <1>12. CASE \E recover \in BOOLEAN, p \in Profiles : Boot(recover, p)
        BY <1>12, FreshAges DEF Boot
  <1>13. CASE UNCHANGED vars
        BY <1>13 DEF vars, watchdog
  <1> QED BY NextSteps, <1>1, <1>2, <1>4, <1>5, <1>6, <1>7, <1>8, <1>9, <1>10,
             <1>11, <1>12, <1>13
\* Type and phase of the flags are preserved together.
LEMMA FlagsStep ==
    TypeOK /\ PhasesExclusive /\ [Next]_vars => (OutletOK /\ WatchdogOK /\ PhasesExclusive)'
  <1> SUFFICES ASSUME TypeOK, PhasesExclusive, [Next]_vars
               PROVE  (OutletOK /\ WatchdogOK /\ PhasesExclusive)'
      OBVIOUS
  <1> USE DEF TypeOK, OutletOK, WatchdogOK, PhasesExclusive, InCharge, evidence
  <1>1. CASE Tick
        BY <1>1 DEF Tick, watchdog, outlet
  <1>2. CASE StandDown
        BY <1>2 DEF StandDown, outlet
  <1>3. CASE Wait
        BY <1>3 DEF Wait, outlet
  <1>4. CASE CutPower
        BY <1>4 DEF CutPower, Pass
  <1>5. CASE RestorePower
        BY <1>5 DEF RestorePower, Pass
  <1>6. CASE NotDue
        BY <1>6 DEF NotDue, Watch, Pass, FailingNow
  <1>7. CASE NothingToCheck
        BY <1>7 DEF NothingToCheck, Watch, Pass
  <1>8. CASE WifiDown
        BY <1>8 DEF WifiDown, Check, Watch, Pass
  <1>9. CASE NoTarget
        BY <1>9 DEF NoTarget, Check, Watch, Pass, FailingNow
  <1>10. CASE TargetUp
        BY <1>10 DEF TargetUp, Check, Watch, Pass
  <1>11. CASE StillDown
        BY <1>11 DEF StillDown, TargetDown, Check, Watch, Pass
  <1>12. CASE Arm
        BY <1>12 DEF Arm, TargetDown, Check, Watch, Pass
  <1>13. CASE LockOut
        BY <1>13 DEF LockOut, TargetDown, Check, Watch, Pass
  <1>14. CASE \E on \in BOOLEAN : Command(on)
    <2>1. OutletOK'
          BY <1>14 DEF Command, Save, watchdog
    <2>2. WatchdogOK' /\ PhasesExclusive'
          BY <1>14 DEF Command, Save, watchdog
    <2> QED BY <2>1, <2>2
  <1>15. CASE \E on \in BOOLEAN : UdpCommand(on)
    <2>1. OutletOK'
          BY <1>15 DEF UdpCommand, watchdog
    <2>2. WatchdogOK' /\ PhasesExclusive'
          BY <1>15 DEF UdpCommand, watchdog
    <2> QED BY <2>1, <2>2
  <1>16. CASE HubCycleBegins
        BY <1>16 DEF HubCycleBegins, Save, watchdog
  <1>17. CASE HubCycleEnds
        BY <1>17 DEF HubCycleEnds, Save, watchdog
  <1>18. CASE \E p \in Profiles : SaveConfig(p)
    <2>1. OutletOK'
          BY <1>18 DEF SaveConfig, Configure, Save
    <2>2. WatchdogOK'
          BY <1>18 DEF SaveConfig, Configure, Save
    <2>3. PhasesExclusive'
          BY <1>18 DEF SaveConfig, Configure, Save
    <2> QED BY <2>1, <2>2, <2>3
  <1>19. CASE \E p \in Profiles : HubConfig(p)
        BY <1>19 DEF HubConfig, Configure, Save, watchdog, outlet
  <1>20. CASE \E recover \in BOOLEAN, p \in Profiles : Boot(recover, p)
        BY <1>20, MonitorAssumption DEF Boot, InitialRelay
  <1>21. CASE UNCHANGED vars
        BY <1>21 DEF vars, watchdog, outlet
  <1> QED BY NextSteps, <1>1, <1>2, <1>3, <1>4, <1>5, <1>6, <1>7, <1>8, <1>9, <1>10,
             <1>11, <1>12, <1>13, <1>14, <1>15, <1>16, <1>17, <1>18, <1>19, <1>20, <1>21

MonitorInv == TypeOK /\ PhasesExclusive

\* The invariant holds at first.
LEMMA InitMonitorInv == Init => MonitorInv
  <1> SUFFICES ASSUME Init PROVE MonitorInv
      OBVIOUS
  <1>1. OutletOK
        BY DEF Init, OutletOK
  <1>2. WatchdogOK
        BY DEF Init, WatchdogOK
  <1>3. CountsOK
        BY MonitorAssumption, FreshAges DEF Init, CountsOK
  <1>4. PhasesExclusive
        BY DEF Init, PhasesExclusive
  <1> QED BY <1>1, <1>2, <1>3, <1>4 DEF MonitorInv, TypeOK

\* Types and phases hold throughout (MonitorEngine::loop).
THEOREM MonitorInvariant == Spec => []MonitorInv
  <1>1. MonitorInv /\ [Next]_vars => MonitorInv'
        BY CountsStep, FlagsStep DEF MonitorInv, TypeOK
  <1> QED BY InitMonitorInv, <1>1, PTL DEF Spec

\* Every reachable state of the watchdog is well formed; the counts of cycles and
\* the timers never go below zero (monitor_engine.h).
THEOREM TypeCorrect == Spec => []TypeOK
  <1>1. MonitorInv => TypeOK  BY DEF MonitorInv
  <1> QED BY MonitorInvariant, <1>1, PTL

\* Power cycle, holdoff and cooldown exclude each other (MonitorEngine::loop).
THEOREM OnePhaseAtATime == Spec => []PhasesExclusive
  <1>1. MonitorInv => PhasesExclusive  BY DEF MonitorInv
  <1> QED BY MonitorInvariant, <1>1, PTL

-------------------------------------------------------------------------------
\* The watchdog implements PowerCycle

\* Every step is one of PowerCycle, or none.
LEMMA PromiseStep == MonitorInv /\ [Next]_vars => [Promise!Next]_(Promise!vars)
  <1> SUFFICES ASSUME MonitorInv, [Next]_vars PROVE [Promise!Next]_(Promise!vars)
      OBVIOUS
  <1> USE DEF MonitorInv, TypeOK, OutletOK, WatchdogOK, PhasesExclusive, InCharge, Phase,
          Promise!vars
  <1>1. CASE Tick \/ StandDown \/ Wait \/ UNCHANGED vars
        BY <1>1 DEF Tick, StandDown, Wait, vars, watchdog, outlet
  <1>2. CASE CutPower
    <2>1. Promise!Cut
          BY <1>2 DEF CutPower, Pass, Promise!Cut
    <2> QED BY <2>1 DEF Promise!Next
  <1>3. CASE RestorePower
    <2>1. Promise!GiveBack
          BY <1>3 DEF RestorePower, Pass, Promise!GiveBack
    <2> QED BY <2>1 DEF Promise!Next
  <1>4. CASE NotDue \/ NothingToCheck \/ WifiDown \/ NoTarget \/ TargetUp \/ StillDown
    <2>1. Promise!Resume \/ UNCHANGED Promise!vars
          BY <1>4 DEF NotDue, NothingToCheck, WifiDown, NoTarget, TargetUp, StillDown,
                      TargetDown, Check, Watch, Pass, Promise!Resume
    <2> QED BY <2>1 DEF Promise!Next
  <1>5. CASE Arm
    <2>1. Promise!Arm
          BY <1>5 DEF Arm, Lasted, FailingNow, TargetDown, Check, Watch, Pass, Promise!Arm
    <2> QED BY <2>1 DEF Promise!Next
  <1>6. CASE LockOut
    <2>1. Promise!LockOut
          BY <1>6 DEF LockOut, Lasted, FailingNow, TargetDown, Check, Watch, Pass,
                      Promise!LockOut
    <2> QED BY <2>1 DEF Promise!Next
  <1>7. CASE \/ \E on \in BOOLEAN : Command(on)
             \/ \E on \in BOOLEAN : UdpCommand(on)
    <2>1. Promise!Command
          BY <1>7 DEF Command, UdpCommand, watchdog, Promise!Command
    <2> QED BY <2>1 DEF Promise!Next
  <1>8. CASE HubCycleBegins \/ HubCycleEnds
    <2>1. CASE HubCycleBegins
          BY <2>1 DEF HubCycleBegins, watchdog, Promise!Command, Promise!Next
    <2>2. CASE HubCycleEnds
          BY <2>2 DEF HubCycleEnds, watchdog, Promise!Command, Promise!Next
    <2> QED BY <1>8, <2>1, <2>2
  <1>9. CASE \/ \E p \in Profiles : SaveConfig(p)
             \/ \E p \in Profiles : HubConfig(p)
        BY <1>9 DEF SaveConfig, HubConfig, Configure, Save, watchdog, outlet
  <1>10. CASE \E recover \in BOOLEAN, p \in Profiles : Boot(recover, p)
    <2>1. Promise!Reboot
          BY <1>10, MonitorAssumption DEF Boot, InitialRelay, Promise!Reboot
    <2> QED BY <2>1 DEF Promise!Next
  <1> QED BY NextSteps, <1>1, <1>2, <1>3, <1>4, <1>5, <1>6, <1>7, <1>8, <1>9, <1>10

\* The watchdog, with all who interfere, cuts and gives back power only in the
\* order PowerCycle allows (MonitorEngine::loop, triggerPowerCycle).
THEOREM ImplementsPowerCycle == Spec => PromiseKept
  <1>1. Init => Promise!Init
        BY DEF Init, Promise!Init, Phase
  <1> QED BY <1>1, MonitorInvariant, PromiseStep, PTL DEF Spec, PromiseKept, Promise!Spec
-------------------------------------------------------------------------------
\* The outlet

\* What was asked for is in memory and on flash, except around a hub relay_cycle,
\* after a UDP switch and after a switch whose save failed; and an outlet that is
\* off without having been asked to is off in memory too.
KeptIsWanted ==
    /\ {kept, stored} # {wanted} => hubCycling \/ unsaved
    /\ hubCycling => wanted
    /\ Restore # "off" /\ ~relay => ~wanted \/ PowerIsCut \/ ~kept

\* Every step keeps what is saved and what was asked for together.
LEMMA KeptStep == MonitorInv /\ KeptIsWanted /\ [Next]_vars => KeptIsWanted'
  <1> SUFFICES ASSUME MonitorInv, KeptIsWanted, [Next]_vars PROVE KeptIsWanted'
      OBVIOUS
  <1> USE DEF MonitorInv, TypeOK, OutletOK, PhasesExclusive, KeptIsWanted, PowerIsCut, InCharge
  <1>1. CASE Tick \/ StandDown \/ Wait \/ UNCHANGED vars
        BY <1>1 DEF Tick, StandDown, Wait, vars, watchdog, outlet
  <1>2. CASE CutPower
        BY <1>2 DEF CutPower, Pass
  <1>3. CASE RestorePower
        BY <1>3 DEF RestorePower, Pass
  <1>4. CASE NotDue \/ NothingToCheck \/ WifiDown \/ NoTarget \/ TargetUp \/ StillDown
             \/ Arm \/ LockOut
        BY <1>4 DEF NotDue, NothingToCheck, WifiDown, NoTarget, TargetUp, StillDown, Arm,
                    LockOut, TargetDown, Check, Watch, Pass
  <1>5. CASE \E on \in BOOLEAN : Command(on)
        BY <1>5 DEF Command, Save
  <1>6. CASE \E on \in BOOLEAN : UdpCommand(on)
        BY <1>6 DEF UdpCommand
  <1>7. CASE HubCycleBegins
        BY <1>7 DEF HubCycleBegins, Save
  <1>8. CASE HubCycleEnds
        BY <1>8 DEF HubCycleEnds, Save
  <1>9. CASE \/ \E p \in Profiles : SaveConfig(p)
             \/ \E p \in Profiles : HubConfig(p)
        BY <1>9 DEF SaveConfig, HubConfig, Configure, Save, watchdog, outlet
  <1>10. CASE \E recover \in BOOLEAN, p \in Profiles : Boot(recover, p)
        BY <1>10, MonitorAssumption DEF Boot, InitialRelay
  <1> QED BY NextSteps, <1>1, <1>2, <1>3, <1>4, <1>5, <1>6, <1>7, <1>8, <1>9, <1>10

\* A device that restores its relay has its outlet off only for one of four
\* reasons, the last of which is a reboot after a switch that did not reach the
\* flash (MonitorEngine, persistRelayState, initialRelayStateFromConfig).
THEOREM OutletIsOffForAReason == Spec => []OffForAReason
  <1>1. Init => KeptIsWanted
        BY DEF Init, KeptIsWanted
  <1>2. MonitorInv /\ KeptIsWanted /\ [Next]_vars => KeptIsWanted'
        BY KeptStep
  <1>3. KeptIsWanted /\ TypeOK => OffForAReason
        BY DEF KeptIsWanted, OffForAReason, TypeOK, OutletOK
  <1> QED BY <1>1, <1>2, <1>3, MonitorInvariant, TypeCorrect, PTL DEF Spec

-------------------------------------------------------------------------------
\* The evidence

\* The failure being timed was seen at every look since it began.
Evidence ==
    failing => badFor # -1 /\ age["fail"] <= badFor

\* Every step keeps the timing of a failure within the looks that saw it.
LEMMA EvidenceStep == MonitorInv /\ Evidence /\ [Next]_vars => Evidence'
  <1> SUFFICES ASSUME MonitorInv, Evidence, [Next]_vars PROVE Evidence'
      OBVIOUS
  <1> USE MonitorAssumption DEF MonitorInv, TypeOK, CountsOK, Evidence, evidence
  <1>1. CASE Tick
        BY <1>1 DEF Tick, Timers, Running, watchdog
  <1>2. CASE StandDown \/ UNCHANGED vars
        BY <1>2 DEF StandDown, vars, watchdog
  <1>3. Restarted({})["fail"] = age["fail"] /\ Restarted({"check"})["fail"] = age["fail"]
      /\ Restarted({} \union {"check"})["fail"] = age["fail"]
        BY DEF Restarted, Timers
  <1>4. CASE Wait
        BY <1>3, <1>4 DEF Wait
  <1>5. CASE CutPower \/ RestorePower
    <2>1. age'["fail"] = age["fail"]
          BY <1>5 DEF CutPower, RestorePower, Pass, Restarted, Timers
    <2> QED BY <1>5, <2>1 DEF CutPower, RestorePower, Pass
  <1>6. CASE NotDue \/ NothingToCheck
        BY <1>3, <1>6 DEF NotDue, NothingToCheck, Watch, Pass, FailingNow
  <1>7. CASE WifiDown \/ TargetUp \/ Arm \/ LockOut
        BY <1>7 DEF WifiDown, TargetUp, Arm, LockOut
  <1>8. CASE NoTarget
        BY <1>3, <1>8 DEF NoTarget, Check, Watch, Pass, FailingNow
  <1>9. CASE StillDown
    <2>1. CASE FailingNow
      <3>1. age'["fail"] = age["fail"]
            BY <1>9, <2>1 DEF StillDown, TargetDown, Check, Watch, Pass, Restarted, Timers
      <3> QED BY <1>9, <2>1, <3>1
              DEF StillDown, TargetDown, Check, Watch, Pass, FailingNow
    <2>2. CASE ~FailingNow
      <3>1. age'["fail"] = 0
            BY <1>9, <2>2 DEF StillDown, TargetDown, Check, Watch, Pass, Restarted, Timers
      <3> QED BY <1>9, <3>1 DEF StillDown, TargetDown, Check, Watch, Pass
    <2> QED BY <2>1, <2>2
  <1>10. CASE \/ \E on \in BOOLEAN : Command(on)
              \/ \E on \in BOOLEAN : UdpCommand(on)
              \/ HubCycleBegins \/ HubCycleEnds
        BY <1>10 DEF Command, UdpCommand, HubCycleBegins, HubCycleEnds, watchdog
  <1>11. CASE \E p \in Profiles : SaveConfig(p)
        BY <1>11 DEF SaveConfig, Configure, Save
  <1>12. CASE \E p \in Profiles : HubConfig(p)
        BY <1>12 DEF HubConfig, Configure, Save, watchdog
  <1>13. CASE \E recover \in BOOLEAN, p \in Profiles : Boot(recover, p)
        BY <1>13 DEF Boot
  <1> QED BY NextSteps, <1>1, <1>2, <1>4, <1>5, <1>6, <1>7, <1>8, <1>9, <1>10, <1>11,
             <1>12, <1>13

\* The watchdog arms a cycle only after every look for the whole threshold found
\* the target down, however it was configured meanwhile
\* (runInternetWatchdogMode, runDeviceWatchdogMode, triggerPowerCycle).
THEOREM ArmsOnFreshEvidence == Spec => FreshEvidence
  <1>1. Init => Evidence
        BY DEF Init, Evidence
  <1>2. MonitorInv /\ Evidence /\ [Next]_vars => Evidence'
        BY EvidenceStep
  <1>3. MonitorInv /\ Evidence => [Arm => badFor >= cfg.threshold]_vars
    <2> SUFFICES ASSUME MonitorInv, Evidence, Arm PROVE badFor >= cfg.threshold
        OBVIOUS
    <2>1. failing /\ age["fail"] >= cfg.threshold
          BY DEF Arm, Lasted, FailingNow
    <2>2. age["fail"] \in Nat /\ cfg.threshold \in Nat /\ badFor \in Nat
          BY <2>1, MonitorAssumption
          DEF MonitorInv, TypeOK, CountsOK, Evidence, Timers, Profile
    <2> QED BY <2>1, <2>2 DEF Evidence
  <1> QED BY <1>1, <1>2, <1>3, MonitorInvariant, PTL DEF Spec, FreshEvidence
-------------------------------------------------------------------------------
\* The hour

\* The cycles counted by the hour that is running are at least those armed in it, and
\* those of the hour before were within the limit; no cycle is older than an hour.
HourInv ==
    /\ cuts \subseteq 0 .. Hour - 1
    /\ hourly <= cfg.maxHour
    /\ Cardinality(After) <= hourly
    /\ Cardinality(Before) <= cfg.maxHour
    /\ 0 \in cuts => age["hour"] < Hour

\* The numbers the invariant speaks of.
LEMMA HourTypes ==
    ASSUME TypeOK
    PROVE  /\ hourly \in Nat /\ cfg.maxHour \in Nat /\ cfg \in Profile
           /\ age \in [Timers -> Nat] /\ age["hour"] \in Nat
           /\ Hour \in Nat /\ Hour > 0 /\ Cap["hour"] \in Nat /\ Hour <= Cap["hour"]
  BY MonitorAssumption, HourAssumption DEF TypeOK, CountsOK, Profile, Timers

\* Ages of cycles are few.
LEMMA CutsFinite ==
    ASSUME NEW S \in SUBSET (0 .. Hour - 1)
    PROVE  IsFiniteSet(S) /\ Cardinality(S) \in Nat
  <1>1. IsFiniteSet(0 .. Hour - 1)
        BY FS_Interval, MonitorAssumption
  <1> QED BY <1>1, FS_Subset, FS_CardinalityType

\* A tick makes no cycles.
LEMMA OlderCuts ==
    ASSUME NEW S \in SUBSET (0 .. Hour - 1)
    PROVE  LET T == {c + 1 : c \in S}
           IN  IsFiniteSet(T) /\ Cardinality(T) <= Cardinality(S)
  <1> DEFINE T == {c + 1 : c \in S}
             f == [c \in S |-> c + 1]
  <1>1. f \in Surjection(S, T)
        BY DEF Surjection
  <1> HIDE DEF f, T
  <1>2. IsFiniteSet(T) /\ Cardinality(T) <= Cardinality(S)
        BY <1>1, CutsFinite, FS_Surjection
  <1> QED BY <1>2 DEF T

\* When the hourly count starts over, all that is remembered was armed under the old
\* one.
LEMMA AllAfter ==
    ASSUME TypeOK, HourInv, age["hour"] >= Hour
    PROVE  After = cuts /\ Before = {} /\ 0 \notin cuts /\ Cardinality(cuts) <= cfg.maxHour
  <1>1. \A c \in cuts : c \in Int /\ c <= age["hour"] /\ ~(c > age["hour"])
        BY HourTypes DEF HourInv
  <1>2. After = cuts /\ Before = {}
        BY <1>1 DEF After, Before
  <1>3. 0 \notin cuts
        BY HourTypes DEF HourInv
  <1>4. Cardinality(cuts) <= cfg.maxHour
    <2>1. Cardinality(cuts) \in Nat
          BY CutsFinite DEF HourInv
    <2> QED BY <1>2, <2>1, HourTypes DEF HourInv
  <1> QED BY <1>2, <1>3, <1>4

\* What a pass does to the hour, if it counts so many cycles.
HourPass(cycles) ==
    /\ cfg' = cfg
    /\ \/ ~HourOver /\ age'["hour"] = age["hour"] /\ hourly' = hourly + cycles
       \/ HourOver /\ age'["hour"] = 0 /\ hourly' = cycles

\* A pass restarts the hour when it is over, and no sooner.
LEMMA RestartedHour ==
    ASSUME TypeOK, NEW cycles \in Nat, NEW started, "hour" \notin started,
           cfg' = cfg, hourly' = HourlyNow + cycles, age' = Restarted(started)
    PROVE  HourPass(cycles)
  <1>1. age'["hour"] = IF HourOver THEN 0 ELSE age["hour"]
        BY DEF Restarted, Timers
  <1> QED BY <1>1, HourTypes DEF HourlyNow, HourPass

\* A pass that arms no cycle counts none.
LEMMA LoopHour ==
    ASSUME TypeOK, Loop, ~Arm
    PROVE  HourPass(0) \/ UNCHANGED <<cfg, age, hourly>>
  <1>1. CASE StandDown
        BY <1>1 DEF StandDown
  <1>2. CASE Wait
    <2>1. hourly' = HourlyNow + 0 /\ "hour" \notin {}
          BY <1>2, HourTypes DEF Wait, HourlyNow
    <2> QED BY <1>2, <2>1, RestartedHour DEF Wait
  <1>3. CASE CutPower \/ RestorePower
        BY <1>3, RestartedHour DEF CutPower, RestorePower, Pass
  <1>4. CASE NotDue \/ NothingToCheck
        BY <1>4, RestartedHour DEF NotDue, NothingToCheck, Watch, Pass
  <1>5. CASE WifiDown \/ NoTarget \/ TargetUp
    <2>1. "hour" \notin {} \union {"check"}
          OBVIOUS
    <2> QED BY <1>5, <2>1, RestartedHour DEF WifiDown, NoTarget, TargetUp, Check, Watch, Pass
  <1>6. CASE StillDown
    <2>1. "hour" \notin (IF FailingNow THEN {} ELSE {"fail"}) \union {"check"}
          OBVIOUS
    <2> QED BY <1>6, <2>1, RestartedHour DEF StillDown, TargetDown, Check, Watch, Pass
  <1>7. CASE LockOut
    <2>1. "hour" \notin {"cooldown"} \union {"check"}
          OBVIOUS
    <2> QED BY <1>7, <2>1, RestartedHour DEF LockOut, TargetDown, Check, Watch, Pass
  <1> QED BY <1>1, <1>2, <1>3, <1>4, <1>5, <1>6, <1>7 DEF Loop, Watching

\* A pass that arms one counts it, and the limit had room for it.
LEMMA ArmHour ==
    ASSUME TypeOK, Arm
    PROVE  HourPass(1) /\ (IF HourOver THEN 0 ELSE hourly) < cfg.maxHour
  <1>1. "hour" \notin {} \union {"check"}
        OBVIOUS
  <1>2. HourPass(1)
        BY <1>1, RestartedHour DEF Arm, TargetDown, Check, Watch, Pass
  <1>3. ~(HourlyNow >= cfg.maxHour)
        BY DEF Arm, CycleLimitReached
  <1> QED BY <1>2, <1>3, HourTypes DEF HourlyNow

\* A pass keeps the invariant, whether it arms a cycle or not.
LEMMA PassKeepsHour ==
    ASSUME TypeOK, TypeOK', HourInv, NEW cycles \in {0, 1}, HourPass(cycles),
           (IF HourOver THEN 0 ELSE hourly) + cycles <= cfg.maxHour,
           cuts' = cuts \union (IF cycles = 1 THEN {0} ELSE {})
    PROVE  HourInv'
  <1>1. cuts' \in SUBSET (0 .. Hour - 1)
        BY HourTypes DEF HourInv
  <1>2. hourly' <= cfg'.maxHour /\ cfg' = cfg /\ hourly' \in Nat
        BY HourTypes DEF HourPass
  <1>3. age'["hour"] \in Nat
        BY HourTypes DEF HourPass
  <1>4. CASE HourOver
    <2>1. After = cuts /\ 0 \notin cuts /\ Cardinality(cuts) <= cfg.maxHour
          BY <1>4, AllAfter DEF HourOver
    <2>2. age'["hour"] = 0 /\ hourly' = cycles
          BY <1>4 DEF HourPass
    <2>3. Before' = cuts
      <3>1. \A c \in cuts : c \in Nat /\ c > 0
            BY <2>1 DEF HourInv
      <3> QED BY <2>2, <3>1 DEF Before
    <2>4. After' = IF cycles = 1 THEN {0} ELSE {}
      <3>1. \A c \in cuts : c \in Nat /\ ~(c <= 0)
            BY <2>1 DEF HourInv
      <3> QED BY <2>2, <3>1 DEF After
    <2>5. Cardinality(After') <= hourly'
      <3>1. CASE cycles = 1
            BY <2>2, <2>4, <3>1, FS_Singleton
      <3>2. CASE cycles = 0
            BY <2>2, <2>4, <3>2, FS_EmptySet
      <3> QED BY <3>1, <3>2
    <2> QED BY <1>1, <1>2, <2>1, <2>2, <2>3, <2>5, HourTypes DEF HourInv
  <1>5. CASE ~HourOver
    <2>1. age'["hour"] = age["hour"] /\ hourly' = hourly + cycles /\ age["hour"] < Hour
          BY <1>5, HourTypes DEF HourPass, HourOver
    <2>2. Before' = Before
          BY <2>1, HourTypes DEF Before
    <2>3. After' = After \union (IF cycles = 1 THEN {0} ELSE {})
          BY <2>1, HourTypes DEF After
    <2>4. IsFiniteSet(After) /\ Cardinality(After) \in Nat
          BY CutsFinite DEF HourInv, After
    <2>5. Cardinality(After') <= Cardinality(After) + cycles
      <3>1. CASE cycles = 1
            BY <2>3, <2>4, <3>1, FS_AddElement
      <3>2. CASE cycles = 0
            BY <2>3, <2>4, <3>2
      <3> QED BY <3>1, <3>2
    <2>6. Cardinality(After') <= hourly'
      <3>1. Cardinality(After') \in Nat
            BY <1>1, CutsFinite DEF After
      <3> QED BY <2>1, <2>4, <2>5, <3>1, HourTypes DEF HourInv
    <2> QED BY <1>1, <1>2, <2>1, <2>2, <2>6, HourTypes DEF HourInv
  <1> QED BY <1>4, <1>5

\* So does a tick: all cycles grow older, and the hour with them.
LEMMA TickKeepsHour ==
    ASSUME TypeOK, HourInv, Tick, cuts' = {c + 1 : c \in {a \in cuts : a < Hour - 1}}
    PROVE  HourInv'
  <1>1. /\ cfg' = cfg /\ hourly' = hourly
        /\ age'["hour"] = IF age["hour"] < Cap["hour"] THEN age["hour"] + 1 ELSE age["hour"]
        BY DEF Tick, Running, Timers, watchdog
  <1>2. cuts \subseteq 0 .. Hour - 1 /\ cuts' \subseteq 1 .. Hour - 1
        BY HourTypes DEF HourInv
  <1>3. ASSUME NEW S \in SUBSET (0 .. Hour - 1), NEW T \in SUBSET {c + 1 : c \in S},
               NEW most \in Nat, Cardinality(S) <= most
        PROVE  Cardinality(T) <= most
    <2>1. IsFiniteSet({c + 1 : c \in S}) /\ Cardinality({c + 1 : c \in S}) <= Cardinality(S)
          BY OlderCuts
    <2>2. IsFiniteSet(T) /\ Cardinality(T) <= Cardinality({c + 1 : c \in S})
          BY <2>1, FS_Subset
    <2>3. /\ Cardinality(T) \in Nat /\ Cardinality(S) \in Nat
          /\ Cardinality({c + 1 : c \in S}) \in Nat
          BY <2>1, <2>2, CutsFinite, FS_CardinalityType
    <2> QED BY <1>3, <2>1, <2>2, <2>3
  <1>4. Before \in SUBSET (0 .. Hour - 1) /\ After \in SUBSET (0 .. Hour - 1)
        BY <1>2 DEF Before, After
  <1>5. After' \in SUBSET {c + 1 : c \in After}
    <2> SUFFICES ASSUME NEW d \in After' PROVE d \in {c + 1 : c \in After}
        OBVIOUS
    <2>1. PICK c \in cuts : d = c + 1 /\ c < Hour - 1
          BY DEF After
    <2>2. c + 1 <= age'["hour"]
          BY <2>1 DEF After
    <2>3. c <= age["hour"]
          BY <1>1, <1>2, <2>1, <2>2, HourTypes
    <2> QED BY <2>1, <2>3 DEF After
  <1>6. Before' \in SUBSET {c + 1 : c \in Before}
    <2> SUFFICES ASSUME NEW d \in Before' PROVE d \in {c + 1 : c \in Before}
        OBVIOUS
    <2>1. PICK c \in cuts : d = c + 1 /\ c < Hour - 1
          BY DEF Before
    <2>2. c + 1 > age'["hour"]
          BY <2>1 DEF Before
    <2>3. c > age["hour"]
          BY <1>1, <1>2, <2>1, <2>2, HourTypes
    <2> QED BY <2>1, <2>3 DEF Before
  <1>7. Cardinality(After') <= hourly'
        BY <1>1, <1>3, <1>4, <1>5, HourTypes DEF HourInv
  <1>8. Cardinality(Before') <= cfg'.maxHour
        BY <1>1, <1>3, <1>4, <1>6, HourTypes DEF HourInv
  <1>9. cuts' \subseteq 0 .. Hour - 1 /\ 0 \notin cuts'
        BY <1>2, HourTypes
  <1>10. hourly' <= cfg'.maxHour
        BY <1>1 DEF HourInv
  <1> QED BY <1>7, <1>8, <1>9, <1>10 DEF HourInv

\* All steps of an hour are steps of the watchdog and of those who interfere with it.
LEMMA HourIsMonitor == [HourNext]_<<vars, cuts>> => [Next]_vars
  BY DEF HourNext, Next, Loop, Watching

\* The invariant of the hour: what was armed before the count started over is bounded
\* by the limit once, what was armed since by the count itself.
LEMMA HourKept == TypeOK /\ TypeOK' /\ HourInv /\ [HourNext]_<<vars, cuts>> => HourInv'
  <1> SUFFICES ASSUME TypeOK, TypeOK', HourInv, [HourNext]_<<vars, cuts>> PROVE HourInv'
      OBVIOUS
  <1>1. ASSUME UNCHANGED <<cfg, age, hourly, cuts>> PROVE HourInv'
        BY <1>1 DEF HourInv, Before, After
  <1>2. CASE UNCHANGED <<vars, cuts>>
        BY <1>1, <1>2 DEF vars, watchdog
  <1>3. CASE Tick /\ cuts' = {c + 1 : c \in {a \in cuts : a < Hour - 1}}
        BY <1>3, TickKeepsHour
  <1>4. CASE Arm /\ cuts' = cuts \union {0}
    <2>1. HourPass(1) /\ (IF HourOver THEN 0 ELSE hourly) + 1 <= cfg.maxHour
          BY <1>4, ArmHour, HourTypes
    <2> QED BY <1>4, <2>1, PassKeepsHour
  <1>5. CASE Loop /\ ~Arm /\ UNCHANGED cuts
    <2>1. CASE HourPass(0)
      <3>1. (IF HourOver THEN 0 ELSE hourly) + 0 <= cfg.maxHour
            BY HourTypes DEF HourInv
      <3>2. cuts' = cuts \union (IF 0 = 1 THEN {0} ELSE {})
            BY <1>5
      <3> QED BY <2>1, <3>1, <3>2, PassKeepsHour
    <2> QED BY <1>1, <1>5, <2>1, LoopHour
  <1>6. CASE Commands /\ cfg' = cfg /\ UNCHANGED cuts
    <2>1. UNCHANGED <<age, hourly>>
          BY <1>6 DEF Commands, Command, UdpCommand, HubCycleBegins, HubCycleEnds, SaveConfig,
                      HubConfig, Configure, watchdog
    <2> QED BY <1>1, <1>6, <2>1
  <1> QED BY <1>2, <1>3, <1>4, <1>5, <1>6 DEF HourNext

\* The invariant of the hour holds throughout.
THEOREM HourInvariant == HourSpec => [](TypeOK /\ HourInv)
  <1>1. HourInit => HourInv
    <2> SUFFICES ASSUME HourInit PROVE HourInv
        OBVIOUS
    <2>1. cuts = {} /\ hourly = 0 /\ cfg.maxHour \in Nat
          BY MonitorAssumption DEF HourInit, Init, Profile
    <2>2. After = {} /\ Before = {} /\ Cardinality({}) = 0
          BY <2>1, FS_EmptySet DEF After, Before
    <2> QED BY <2>1, <2>2 DEF HourInv
  <1>2. HourSpec => Spec
    <2>1. HourInit => Init
          BY DEF HourInit
    <2> QED BY <2>1, HourIsMonitor, PTL DEF HourSpec, Spec
  <1> QED BY <1>1, <1>2, HourKept, TypeCorrect, PTL DEF HourSpec

\* In any hour at most twice as many cycles are armed as the configuration allows in
\* one (monitor_engine.cpp:42, rollHourlyWindow).
THEOREM TwiceTheLimit == HourSpec => []TwoWindows
  <1>1. TypeOK /\ HourInv => TwoWindows
    <2> SUFFICES ASSUME TypeOK, HourInv PROVE TwoWindows
        OBVIOUS
    <2>1. Before \in SUBSET (0 .. Hour - 1) /\ After \in SUBSET (0 .. Hour - 1)
          BY DEF HourInv, Before, After
    <2>2. cuts = Before \union After
      <3>1. \A c \in cuts : c \in Int
            BY DEF HourInv
      <3> QED BY <3>1, HourTypes DEF Before, After
    <2>3. /\ IsFiniteSet(Before) /\ Cardinality(Before) \in Nat
          /\ IsFiniteSet(After) /\ Cardinality(After) \in Nat
          BY <2>1, CutsFinite
    <2>4. Cardinality(cuts) <= Cardinality(Before) + Cardinality(After)
      <3>1. Cardinality(Before \intersect After) \in Nat
            BY <2>3, FS_Intersection, FS_CardinalityType
      <3>2. Cardinality(cuts) = Cardinality(Before) + Cardinality(After)
                                    - Cardinality(Before \intersect After)
            BY <2>2, <2>3, FS_Union
      <3> QED BY <2>3, <3>1, <3>2
    <2>5. Cardinality(cuts) \in Nat
          BY CutsFinite DEF HourInv
    <2> QED BY <2>3, <2>4, <2>5, HourTypes DEF HourInv, TwoWindows
  <1> QED BY <1>1, HourInvariant, PTL
===============================================================================
