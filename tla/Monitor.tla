-------------------------------- MODULE Monitor --------------------------------
(***************************************************************************)
(* The watchdog (MonitorEngine) and everything else that switches the      *)
(* relay: button and web API, hub commands, UDP packets, a reboot.         *)
(*                                                                         *)
(* MonitorEngine::loop is one action per way through it; the hour window   *)
(* rolls at the start of each.  Timers are ages, in ticks, saturating at   *)
(* Cap, where the code subtracts a stored millis() from the current one.   *)
(* The device is single threaded, so a hub relay_cycle, which waits in     *)
(* delay() with the outlet off, keeps the watchdog and all commands out.   *)
(* A save may fail, or the power may fail before it or in it; nobody looks *)
(* at its result.                                                          *)
(***************************************************************************)
EXTENDS Integers

CONSTANTS Profiles,       \* what the watchdog reads of a configuration
          FirstProfile,
          Restore,        \* relayRestoreBehavior: "previous", "on" or "off"
          Warmup,         \* bootWarmupSeconds
          Interval,       \* monitorIntervalSeconds
          Hour,           \* 3600 s
          Cap             \* where each timer saturates

Timers == {"boot", "hour", "check", "fail", "off", "holdoff", "cooldown"}

\* The active limits of a mode: SmartPlug uses those of the device watchdog.
Profile == [kind : {"plug", "internet", "device"},
            target : BOOLEAN,       \* is a target configured?
            threshold : Nat,        \* failureThresholdSeconds
            off : Nat,              \* powerOffSeconds
            holdoff : Nat,          \* postRebootHoldoffSeconds
            cooldown : Nat,         \* cooldownSeconds
            maxIncident : Nat, maxHour : Nat]

ASSUME MonitorAssumption ==
    /\ Profiles \subseteq Profile /\ FirstProfile \in Profiles
    /\ \A p \in Profiles : p.threshold > 0
    /\ Restore \in {"previous", "on", "off"}
    /\ Warmup \in Nat /\ Interval \in Nat /\ Hour \in Nat
    /\ Cap \in [Timers -> Nat]
    /\ Warmup <= Cap["boot"] /\ Interval <= Cap["check"] /\ Hour <= Cap["hour"]
    /\ \A p \in Profiles : /\ p.threshold <= Cap["fail"] /\ p.off <= Cap["off"]
                            /\ p.holdoff <= Cap["holdoff"] /\ p.cooldown <= Cap["cooldown"]

VARIABLES cfg,          \* the active profile
          kept,         \* lastRelayOn in g_config
          stored,       \* lastRelayOn on flash
          relay,        \* RelayController::relayOn_
          recovery,     \* g_status.recoveryMode, fixed at boot
          age,          \* millis() minus the start of each timer
          failing,      \* failureStartMs_ # 0
          cycling,      \* powerCycleActive_
          offIssued,    \* relayPowerOffIssued_
          inHoldoff, inCooldown,
          incident,     \* currentIncidentCycles
          hourly,       \* currentHourCycles
          hubCycling,   \* is a hub relay_cycle in its delay()?
          wanted,       \* history: the state somebody last asked for
          unsaved,      \* history: did that not reach the flash, because it came
                        \* by UDP, because a save failed or was cut short, or
                        \* because a reboot cut a relay_cycle short?
          badFor,       \* history: ticks since the first of the looks, in this
                        \* boot, that all found the target down; -1: none did
          switched      \* history: has the hub changed the configuration since
                        \* the failure being timed began?

watchdog == <<failing, cycling, offIssued, inHoldoff, inCooldown, incident, hourly>>
outlet   == <<kept, stored, relay, hubCycling, wanted, unsaved>>
evidence == <<badFor, switched>>
vars     == <<cfg, recovery, age, watchdog, outlet, evidence>>

OutletOK ==
    /\ kept \in BOOLEAN /\ stored \in BOOLEAN /\ relay \in BOOLEAN
    /\ hubCycling \in BOOLEAN /\ wanted \in BOOLEAN /\ unsaved \in BOOLEAN

WatchdogOK ==
    /\ recovery \in BOOLEAN /\ failing \in BOOLEAN
    /\ cycling \in BOOLEAN /\ offIssued \in BOOLEAN /\ switched \in BOOLEAN
    /\ inHoldoff \in BOOLEAN /\ inCooldown \in BOOLEAN

CountsOK ==
    /\ cfg \in Profiles
    /\ age \in [Timers -> Nat]
    /\ incident \in Nat /\ hourly \in Nat
    /\ badFor \in Nat \union {-1}

\* The type of the state.
TypeOK == OutletOK /\ WatchdogOK /\ CountsOK

Init ==
    /\ cfg = FirstProfile
    /\ kept = TRUE /\ stored = TRUE
    /\ relay = (Restore # "off") /\ wanted = TRUE
    /\ recovery = FALSE
    /\ age = [t \in Timers |-> IF t = "check" THEN Cap["check"] ELSE 0]
    /\ failing = FALSE /\ cycling = FALSE /\ offIssued = FALSE
    /\ inHoldoff = FALSE /\ inCooldown = FALSE
    /\ incident = 0 /\ hourly = 0
    /\ hubCycling = FALSE /\ unsaved = FALSE
    /\ badFor = -1 /\ switched = FALSE

-------------------------------------------------------------------------------
\* Time

Running(t) ==
    CASE t = "fail"     -> failing
      [] t = "off"      -> offIssued
      [] t = "holdoff"  -> inHoldoff
      [] t = "cooldown" -> inCooldown
      [] OTHER          -> TRUE

Tick ==
    /\ age' = [t \in Timers |-> IF Running(t) /\ age[t] < Cap[t] THEN age[t] + 1
                                ELSE age[t]]
    /\ badFor' = IF badFor \in 0 .. Cap["fail"] - 1 THEN badFor + 1 ELSE badFor
    /\ UNCHANGED <<cfg, recovery, watchdog, outlet, switched>>

-------------------------------------------------------------------------------
\* MonitorEngine::loop

HourOver == age["hour"] >= Hour

HourlyNow == IF HourOver THEN 0 ELSE hourly

\* The timers after a pass that restarts those of started.
Restarted(started) ==
    [t \in Timers |-> IF t \in started \/ (t = "hour" /\ HourOver) THEN 0 ELSE age[t]]

InCharge == ~recovery /\ ~hubCycling

CoolingDown == inCooldown /\ age["cooldown"] < cfg.cooldown

HoldingOff == inHoldoff /\ age["holdoff"] < cfg.holdoff

\* In recovery mode the watchdog forgets everything.
StandDown ==
    /\ recovery
    /\ failing' = FALSE /\ cycling' = FALSE /\ offIssued' = FALSE
    /\ inHoldoff' = FALSE /\ inCooldown' = FALSE
    /\ UNCHANGED <<cfg, recovery, age, incident, hourly, outlet, evidence>>

\* Mutant of Wait: the off time starts again with every pass.
WaitRestarts ==
    /\ InCharge
    /\ \/ CoolingDown
       \/ ~inCooldown /\ cycling /\ offIssued /\ age["off"] < cfg.off
       \/ ~inCooldown /\ ~cycling /\ HoldingOff
    /\ hourly' = HourlyNow
    /\ age' = Restarted({"off"})
    /\ UNCHANGED <<cfg, recovery, failing, cycling, offIssued, inHoldoff, inCooldown,
                   incident, outlet, evidence>>

\* Waiting for a cooldown, for the end of the off time, or for a holdoff.
Wait ==
    /\ InCharge
    /\ \/ CoolingDown
       \/ ~inCooldown /\ cycling /\ offIssued /\ age["off"] < cfg.off
       \/ ~inCooldown /\ ~cycling /\ HoldingOff
    /\ hourly' = HourlyNow
    /\ age' = Restarted({})
    /\ UNCHANGED <<cfg, recovery, failing, cycling, offIssued, inHoldoff, inCooldown,
                   incident, outlet, evidence>>

\* Holdoff and cooldown end with no failure pending.
FailingNow == failing /\ ~inCooldown /\ ~inHoldoff

\* A pass in no cooldown, or none any more: the timers it starts, and the cycles
\* it counts.
Pass(started, cycles) ==
    /\ InCharge /\ ~CoolingDown
    /\ hourly' = HourlyNow + cycles
    /\ age' = Restarted(started)
    /\ switched' = (switched /\ FailingNow)
    /\ UNCHANGED <<cfg, recovery, kept, stored, hubCycling, wanted, unsaved>>

\* Mutant of IncidentNow: it does not.
IncidentKept == incident

\* The end of a cooldown ends the incident.
IncidentNow == IF inCooldown THEN 0 ELSE incident

CutPower ==
    /\ Pass({"off"}, 0)
    /\ cycling /\ ~offIssued
    /\ relay' = FALSE
    /\ offIssued' = TRUE
    /\ inCooldown' = FALSE
    /\ incident' = IncidentNow
    /\ failing' = (failing /\ ~inCooldown)
    /\ UNCHANGED <<cycling, inHoldoff, badFor>>

\* Mutants of RestorePower: the relay is not switched; the cycle stays half open.
RestorePowerDark ==
    /\ Pass({"holdoff"}, 0)
    /\ cycling /\ offIssued /\ age["off"] >= cfg.off
    /\ cycling' = FALSE /\ offIssued' = FALSE
    /\ inHoldoff' = TRUE /\ inCooldown' = FALSE
    /\ incident' = IncidentNow
    /\ failing' = (failing /\ ~inCooldown)
    /\ UNCHANGED <<relay, badFor>>

RestorePowerOpen ==
    /\ Pass({"holdoff"}, 0)
    /\ cycling /\ offIssued /\ age["off"] >= cfg.off
    /\ relay' = TRUE
    /\ inHoldoff' = TRUE /\ inCooldown' = FALSE
    /\ incident' = IncidentNow
    /\ failing' = (failing /\ ~inCooldown)
    /\ UNCHANGED <<cycling, offIssued, badFor>>

RestorePower ==
    /\ Pass({"holdoff"}, 0)
    /\ cycling /\ offIssued /\ age["off"] >= cfg.off
    /\ relay' = TRUE
    /\ cycling' = FALSE /\ offIssued' = FALSE
    /\ inHoldoff' = TRUE /\ inCooldown' = FALSE
    /\ incident' = IncidentNow
    /\ failing' = (failing /\ ~inCooldown)
    /\ UNCHANGED badFor

\* A pass with no cycle under way and no holdoff, or none any more.
Watch(started, cycles) ==
    /\ Pass(started, cycles)
    /\ ~cycling /\ ~HoldingOff
    /\ inHoldoff' = FALSE
    /\ UNCHANGED <<relay, offIssued>>

Due == age["boot"] >= Warmup /\ age["check"] >= Interval

NotDue ==
    /\ Watch({}, 0)
    /\ ~Due
    /\ failing' = FailingNow /\ incident' = IncidentNow /\ inCooldown' = FALSE
    /\ UNCHANGED <<cycling, badFor>>

\* runSmartPlugMode
NothingToCheck ==
    /\ Watch({"check"}, 0)
    /\ Due
    /\ cfg.kind = "plug"
    /\ failing' = FALSE /\ incident' = IncidentNow /\ inCooldown' = FALSE
    /\ UNCHANGED <<cycling, badFor>>

\* What a look at the target finds in runInternetWatchdogMode and
\* runDeviceWatchdogMode, from here on.
Check(started, cycles) ==
    /\ Watch(started \union {"check"}, cycles)
    /\ Due
    /\ cfg.kind # "plug"

\* Mutant: an outage of the Wi-Fi does not end the failure being timed.
WifiDownKeepsFailing ==
    /\ Check({}, 0)
    /\ failing' = FailingNow /\ incident' = IncidentNow /\ inCooldown' = FALSE
    /\ badFor' = -1
    /\ UNCHANGED cycling

WifiDown ==
    /\ Check({}, 0)
    /\ failing' = FALSE /\ incident' = IncidentNow /\ inCooldown' = FALSE
    /\ badFor' = -1
    /\ UNCHANGED cycling

NoTarget ==
    /\ Check({}, 0)
    /\ cfg.kind = "device" /\ ~cfg.target
    /\ failing' = FailingNow /\ incident' = IncidentNow /\ inCooldown' = FALSE
    /\ UNCHANGED <<cycling, badFor>>

\* Mutant of TargetUp: a success undoes one cycle.
TargetUpUndoesOne ==
    /\ Check({}, 0)
    /\ cfg.target
    /\ failing' = FALSE /\ incident' = incident - 1 /\ inCooldown' = FALSE
    /\ badFor' = -1
    /\ UNCHANGED cycling

TargetUp ==
    /\ Check({}, 0)
    /\ cfg.target
    /\ failing' = FALSE /\ incident' = 0 /\ inCooldown' = FALSE
    /\ badFor' = -1
    /\ UNCHANGED cycling

\* No target of the internet mode answers, or there is none.
TargetDown(started, cycles) ==
    /\ Check(started, cycles)
    /\ cfg.kind = "internet" \/ cfg.target
    /\ badFor' = IF badFor = -1 THEN 0 ELSE badFor

Lasted == FailingNow /\ age["fail"] >= cfg.threshold

\* Mutant of CycleLimitReached: only the incident is limited.
IncidentLimitReached == IncidentNow >= cfg.maxIncident

CycleLimitReached == IncidentNow >= cfg.maxIncident \/ HourlyNow >= cfg.maxHour

StillDown ==
    /\ TargetDown(IF FailingNow THEN {} ELSE {"fail"}, 0)
    /\ ~Lasted
    /\ failing' = TRUE /\ incident' = IncidentNow /\ inCooldown' = FALSE
    /\ UNCHANGED cycling

\* triggerPowerCycle: power will be cut in the next pass, or a cooldown begins.
Arm ==
    /\ TargetDown({}, 1)
    /\ Lasted /\ ~CycleLimitReached
    /\ cycling' = TRUE
    /\ incident' = IncidentNow + 1
    /\ failing' = FALSE /\ inCooldown' = FALSE

LockOut ==
    /\ TargetDown({"cooldown"}, 0)
    /\ Lasted /\ CycleLimitReached
    /\ incident' = IncidentNow
    /\ failing' = FALSE /\ inCooldown' = TRUE
    /\ UNCHANGED cycling

Watching ==
    \/ NotDue
    \/ NothingToCheck
    \/ WifiDown
    \/ NoTarget
    \/ TargetUp
    \/ StillDown
    \/ Arm
    \/ LockOut

Loop == StandDown \/ Wait \/ CutPower \/ RestorePower \/ Watching

-------------------------------------------------------------------------------
\* The other hands on the relay and on the configuration

\* ConfigManager::save, the result of which is not used.
Save == stored' \in {stored, kept'}

\* Button, web API, hub relay_on, relay_off, relay_toggle: switched, then saved.
Command(on) ==
    /\ ~hubCycling
    /\ relay' = on /\ kept' = on /\ wanted' = on
    /\ UNCHANGED <<cfg, recovery, age, watchdog, hubCycling, evidence>>
    /\ Save
    /\ unsaved' = (stored' # on)

\* A UDP packet: switched, not saved.
UdpCommand(on) ==
    /\ ~hubCycling
    /\ relay' = on /\ wanted' = on /\ unsaved' = ({kept, stored} # {on})
    /\ UNCHANGED <<cfg, recovery, age, watchdog, kept, stored, hubCycling, evidence>>

\* Hub relay_cycle, up to its delay() and from there.
HubCycleBegins ==
    /\ InCharge
    /\ relay' = FALSE /\ kept' = FALSE
    /\ hubCycling' = TRUE
    /\ wanted' = TRUE /\ unsaved' = FALSE
    /\ UNCHANGED <<cfg, recovery, age, watchdog, evidence>>
    /\ Save

HubCycleEnds ==
    /\ hubCycling
    /\ relay' = TRUE /\ kept' = TRUE
    /\ hubCycling' = FALSE
    /\ UNCHANGED <<cfg, recovery, age, watchdog, wanted, evidence>>
    /\ Save
    /\ unsaved' = ~stored'

\* A new configuration, saved with the lastRelayOn of the last command, which may
\* make up for a save that failed.
Configure(p) ==
    /\ cfg' = p
    /\ UNCHANGED <<recovery, age, cycling, offIssued, inHoldoff, inCooldown, hourly,
                   kept, relay, hubCycling, wanted>>
    /\ Save
    /\ unsaved' = (unsaved /\ {kept, stored'} # {wanted})

\* POST /api/config/save ends the incident (resetIncident).
SaveConfig(p) ==
    /\ ~hubCycling
    /\ Configure(p)
    /\ failing' = FALSE /\ incident' = 0
    /\ badFor' = -1
    /\ UNCHANGED switched

\* Hub set_mode and apply_config do not.
HubConfig(p) ==
    /\ InCharge
    /\ Configure(p)
    /\ switched' = (switched \/ (failing /\ p # cfg))
    /\ UNCHANGED <<failing, incident, badFor>>

\* Mutant of InitialRelay: it forgets the saved state.
InitialRelayOff == Restore = "on"

InitialRelay ==
    CASE Restore = "on"  -> TRUE
      [] Restore = "off" -> FALSE
      [] OTHER           -> stored

\* A reset of any cause.  It may bring an earlier configuration back: a later one
\* did not reach the flash, or a recovery boot rolls back, all but lastRelayOn.
Boot(recover, p) ==
    /\ cfg' = p
    /\ kept' = stored
    /\ recovery' = recover
    /\ relay' = InitialRelay
    /\ age' = [t \in Timers |-> IF t = "check" THEN Cap["check"] ELSE 0]
    /\ failing' = FALSE /\ cycling' = FALSE /\ offIssued' = FALSE
    /\ inHoldoff' = FALSE /\ inCooldown' = FALSE
    /\ incident' = 0 /\ hourly' = 0
    /\ hubCycling' = FALSE
    /\ unsaved' = (unsaved \/ hubCycling)
    /\ badFor' = -1 /\ switched' = FALSE
    /\ UNCHANGED <<stored, wanted>>

Reboot == \E recover \in BOOLEAN, p \in Profiles : Boot(recover, p)

Commands ==
    \/ \E on \in BOOLEAN : Command(on)
    \/ \E on \in BOOLEAN : UdpCommand(on)
    \/ HubCycleBegins
    \/ HubCycleEnds
    \/ \E p \in Profiles : SaveConfig(p)
    \/ \E p \in Profiles : HubConfig(p)

Next == Tick \/ Loop \/ Commands \/ Reboot

Spec == Init /\ [][Next]_vars

\* Time passes, loop() keeps running, and a delay() ends.
FairSpec == Spec /\ WF_vars(Tick) /\ WF_vars(Loop) /\ WF_vars(HubCycleEnds)

-------------------------------------------------------------------------------
\* Properties

PowerIsCut == cycling /\ offIssued

\* The three ways of not watching - a power cycle, a holdoff, a cooldown - are
\* kept in flags of their own, set and cleared in different places; at most one
\* is ever set, and power is only cut inside a cycle (monitor_engine.cpp).
PhasesExclusive ==
    /\ ~(cycling /\ inHoldoff) /\ ~(cycling /\ inCooldown) /\ ~(inHoldoff /\ inCooldown)
    /\ offIssued => cycling
    /\ recovery => ~cycling /\ ~inHoldoff /\ ~inCooldown

\* Whatever crashes, cycles, commands, failing saves and configuration changes come
\* together, the outlet of a device that restores its relay is off only because
\* somebody asked, because a power cycle, of the watchdog or the hub, is under way,
\* or because a reboot found another state on flash than the one asked for: a UDP
\* switch is not saved (udp_control.cpp:196), a relay_cycle is saved half way
\* (central_client.cpp:1199), and for every other switch the relay is set first,
\* then saved, and the save may fail unnoticed (web_server_manager.cpp:168,
\* main.cpp:64, central_client.cpp:1016).
OffForAReason ==
    Restore # "off" /\ ~relay => ~wanted \/ PowerIsCut \/ hubCycling \/ unsaved

\* The watchdog arms a cycle only after every look for the whole threshold, in
\* this boot, found the target down: no outage of the Wi-Fi, of before the boot or
\* of before the last POST /api/config/save counts.
FreshEvidence == [][Arm => badFor >= cfg.threshold]_vars

\* They were looks at the present target (SPECS.md:150, "If target fails
\* continuously for at least X seconds, declare target down"): no change of mode
\* or target came in between.
OwnEvidence == [][Arm => ~switched]_vars

\* The watchdog keeps its promise about the outlet.
Phase ==
    IF cycling THEN IF offIssued THEN "off" ELSE "armed"
    ELSE IF inHoldoff THEN "holdoff"
    ELSE IF inCooldown THEN "lockout"
    ELSE "watching"

Promise == INSTANCE PowerCycle WITH phase <- Phase, outlet <- relay

\* The watchdog implements PowerCycle, under the mapping above.
PromiseKept == Promise!Spec

\* A cut is not for good: power returns, unless somebody switches the outlet off
\* or a reboot ends the cycle and finds another state on flash than the one asked
\* for.
PowerReturns == PowerIsCut ~> (relay \/ ~wanted \/ (unsaved /\ ~cycling))

\* While its target stays down and nobody interferes, the watchdog keeps cycling:
\* no limit and no cooldown stops it for good.
KeepsTrying ==
    <>[][Tick \/ Wait \/ CutPower \/ RestorePower \/ NotDue \/ StillDown \/ Arm \/ LockOut]_vars
      /\ <>[](InCharge /\ cfg.kind # "plug" /\ cfg.target)
    => []<>PowerIsCut
===============================================================================
