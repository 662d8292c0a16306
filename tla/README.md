# Rebooter firmware: specification and verification

TLA+ models of the firmware in `src/` (ESP8266 on a Sonoff S31: a plug that
power-cycles what hangs on it when the internet or a device stops answering, and
that a hub may manage), model-checked with TLC, with theorems checked by TLAPS.

1. [The system](#1-the-system)
2. [The modules and the code](#2-the-modules-and-the-code)
3. [What is checked](#3-what-is-checked)
4. [Fairness](#4-fairness)
5. [What is proved](#5-what-is-proved)
6. [Where code and documents disagree](#6-where-code-and-documents-disagree)
7. [What is not modelled](#7-what-is-not-modelled)
8. [Plan](#8-plan)

To check a run: `tlc -workers 2 -config MCMonitor.cfg MCMonitor.tla`; to check a
proof: `tlapm Monitor_proofs.tla`. `PROJECT.json` lists runs, the code each
definition stands for, the hazards and the theorems.

## 1. The system

One processor, no tasks: `setup()` once, then `loop()` calls every component in
turn. Concurrency is therefore not between threads but between **the firmware and
what happens to it**: resets in the middle of anything, flash operations that stop
half way, the hub and other machines sending what they like between two passes, and
**components that share state without knowing of each other** (one `g_config`, one
relay, four files) and are called in an order nobody states.

| component (source) | state it keeps | operations | what makes it correct |
|---|---|---|---|
| Boot record (`config_manager.cpp` 26-96) | `/bootstate.json`, `/bootstate.tmp` | load, save | a record is replaced in one instant, whatever cuts the save short |
| Configuration store (`config_manager.cpp` 274-601) | `/config.json`, `/config.lkg.json`, `/config.tmp`, `g_config` | load, save, reset, restoreLastKnownGood | a device boots with the last configuration it was given, or the one being stored |
| Boot health (`config_manager.cpp` 603-709, `main.cpp` setup) | strike count, in progress, planned restart, `/recovery.flag` | beginBootSession, markBootHealthy, prepareForPlannedRestart, requestRecoveryBoot, all that restarts | rollback in crash loops and only there; the device gets out of every crash loop |
| Watchdog (`monitor_engine.cpp`) | failure, off, holdoff and cooldown timers and flags, cycles per incident and hour | loop, resetIncident | power is cut on fresh evidence, comes back, and is cut again as long as the target stays down |
| Relay (`relay_controller.cpp`) | `relayOn_`, and `lastRelayOn` in the configuration | on, off, toggle from button, web, hub, UDP, watchdog, boot | the outlet is off only for a reason |
| Hub client (`central_client.cpp`) | registration, four next-attempt times, backoff, deferred command array | announce, register, heartbeat, poll, commands, results, firmware check | commands are carried out at least once and settled; a hub that is down is left alone, one that is up is heard from, whatever became of the tokens |
| Heap watch (`central_client_heap.cpp`) | ring of heap samples, debounce, time of the last proactive restart | sample, test, restart | a restart answers pressure that lasted, and restarts keep four hours apart |
| UDP control (`udp_control.cpp`) | token of the boot, ring of nonces | receive, check, switch | a request acts once, however often it is delivered |
| Web API (`web_server_manager.cpp`) | none of its own | relay, config/save, reboot, recovery, reset, OTA | a rejected request changes nothing |
| Wi-Fi (`wifi_manager.cpp`) | candidate list, reconnect state, portal | begin, loop, portal | every candidate is tried before the portal opens; the supervisor gets the device back on a network |
| Event log (`event_log.cpp`) | `/events.json` and its `.tmp`, ring of entries, dirty flag, numbers of events and boots | add, loop, flush, load | the two files are one history; what is said is stored in the end; the order survives every reset |
| Crash recorder, breadcrumb | RTC memory | exception handler, scopes | the crash is told from the reset |
| Power meter, time sync, discovery, notifications, login, LED, button, status payload, web assets, bootstrap loader | little or none | | see section 7 |

How they interact:

* **`g_config` is shared by reference.** Portal, web API, hub (registration,
  `set_mode`, `apply_config`), button and every relay command change it in place and
  call `save`. The watchdog reads it afresh in each pass; only the web API tells it
  (`resetIncident`).
* **The relay is shared.** The watchdog switches it without saving, UDP packets
  likewise; all others switch it first and save `lastRelayOn` then, without looking at what
  became of the save; the next boot restores what is on flash.
* **`g_status.recoveryMode` and `bootHealthyMarked`** gate watchdog and hub client.
* **Restarts** come from a dozen places. Each is supposed to announce itself in the boot
  record first; a crash announces nothing, and the difference is the strike count.
* **The hub** is called over HTTPS, one call at a time, blocking. Commands come with
  the answer to a poll or to a heartbeat, and the result of each is posted back.

Hard: a power loss between any two flash operations (including those of the repair
of the last one); a full flash; restarts racing the announcement of restarts;
configuration that changes under a running failure or cycle; lost results and
re-delivered commands; limits per incident and hour with cooldown and holdoff;
everything timed by a 32-bit `millis()`. The 40 places found so far are the
`hazards` of `PROJECT.json`, each at its line.

## 2. The modules and the code

    FlashFiles  <-  BootStateFile --implements--> AtomicCell     boot record
        ^
        +---------  ConfigStore      (MCConfigStore)             configuration
                    HeapWatch                                    heap restarts
                        ^-- MCPersistence: these three side by side
                    BootHealth                                   boots, restarts
                    Monitor          --implements--> PowerCycle  watchdog and relay
                        ^-- MCMonitor
                        ^-- HourWindow (MCMonitorHour)           cycles in an hour
                    HubCommands      --implements--> AtLeastOnce commands of the hub
        +---------  EventLog         --implements--> RecentEvents event log
                    HubLink          (MCHubLink)                 calls to the hub
                    WifiLink                                     Wi-Fi
                    UdpControl                                   UDP requests
                        ^-- MCServices: the last four side by side

The modules meet at interfaces: `BootHealth` treats the boot record as an atomic
variable because `BootStateFile` implements `AtomicCell`, and the configuration as
one because `ConfigStore` shows what a fault can make of it. `Monitor` has `Boot` as
one step because all of the watchdog's memory is lost in it. `HubLink` decides *when* a
call is made and what its answer does to tokens and timers; `HubCommands` takes that a
call is made, and looks at what it carries. `HeapWatch` decides a heap restart (`Fire`);
what its event and flush do is `SayLast` and `FlushLast` of `EventLog`. The network of
`HubLink` (`net`) is "offline" when the `link` of `WifiLink` is down. `WifiLink` opens
up the portal that is one step of `BootHealth`. `UdpControl` says which requests are
carried out, `UdpCommand` of `Monitor` what that does.

**MCServices** explores the last four side by side, **MCPersistence** the first three: none
reads a variable of another, so one behaviour of it is a behaviour of one of them (`part`)
while the others rest in an initial state. Interleaving them would add states and no
behaviour of any part.

**FlashFiles** is LittleFS as the code uses it: a function from paths to content,
`Absent` or `Torn`; open truncates, close makes the content visible, remove and
rename are atomic. A file that was opened and not closed is torn.

**BootStateFile** has one action per file operation of `loadBootStateRecord` and
`saveBootStateRecord`, with `PowerLoss` between any two and a close that a full
flash may cut short (the code only treats `written == 0` as failure). Its
refinement mapping to `AtomicCell` takes what the next load would return for the
cell.

**ConfigStore** has the same for the configuration: `load` with its two fallbacks
(which save), `save` through temporary file and last-known-good, `reset`,
`restoreLastKnownGood` with the overlay of networks and registration. A configuration
is a pair of settings and identity, the distinction the overlay makes; `validateConfig`
is any idempotent map on the settings. History: `legit`, the last configuration that was stored
whole and what the operations begun since were to store; `bare`, the older document that a
rollback or a reset cut short has uncovered, the one outcome that is neither; `faults`, how
many faults since the store was last at rest. What a device came up with is its own from
then on (`Adopted`).

**BootHealth** runs through the phases of `setup()`, with a crash possible between
any two steps, and has every restart of the code: reboot and recovery from web and
button, factory reset, upload, hub update, portal. Bad settings crash the device
outside recovery mode; images change. History counts the boots in a row that died
early on one image, independently of the record.

**Monitor** has one action per way through `MonitorEngine::loop`, plus all that
switches the relay or changes the configuration, plus reboots. A timer is an age in
ticks that saturates at `Cap`, where the code subtracts a stored `millis()`: ages
above the greatest threshold are indistinguishable to it. The outcome of a look at a
target is free. Each save may fail or be cut short (`Save`), so that `stored`, what is on flash
of `lastRelayOn`, can differ from `kept`, what `g_config` has, and both from the relay. That a boot may
come up with another profile covers a configuration whose save failed. `relay_cycle` takes two steps with everything else shut out, because
the code waits in `delay()`. **HourWindow** remembers when each cycle was armed, next to the
count of `Monitor`, which starts over at fixed times.

**HubCommands** has hub and device: issue, fetch by poll or with a heartbeat (put off
to the next pass), carry out in order, post each result, restart if asked. A
command is a number and a kind. The hub is *external*: it is assumed to number
commands in the order of issue and to hand out those whose result it has not got,
in that order (the assumption of the comment at `central_client_heap.cpp:207`), and
to keep them over a new registration. Announce, adoption and register are one
step. Button, UDP and watchdog do not act here (they do in `Monitor`), and
`relayRestoreBehavior` is RestorePrevious.

**EventLog** has one action per file operation of `load` and `persist`, a crash between any
two, a full flash that takes all, a part or nothing of a write, and the two thresholds of
free memory as free choices. An event is its text; of its time only the question whether
the newest may still suppress a repetition is kept (`recent`), of the debounce and the ten quiet
minutes whether they are over (`settled`). An earlier firmware may have left any file
whose printable entries are either unnumbered or numbered in order (`WellNumbered`).
History: `mine`, how many entries this boot added; `failed`, that its last write did not
store.

**HeapWatch** has a look (one pass of `sampleHeap` and `maybeHeapPressureRestart`) in five
outcomes: held by a gate, relaxed, counted, suppressed by the trend, fired. The largest
free block is a level that drifts freely, and a sample may be skipped (an HTTPS call has
just returned). The clock ticks half hours, which all gates are multiples of; there may
be any number of looks between two ticks. The uptime is `millis() / 1000` and wraps. Of the wall
clock only its distance from the stored time counts (`elapsed`): SNTP may set it at any
moment to any other time (`ClockStep`), also back behind the stored one, which then does not count
until the clock has caught up, or to none. The boot record keeps reason and time as
`BootStateFile` shows it does. History: the true age of the last restart, whether its time is on
flash, whether the clock was set since.

**HubLink** has one action per kind of answer to a call (failed, refused, put off, unusable,
and one for each success), each with what `loop()` does to the timers after the call returned. Timers
are the time left. The hub may withdraw tokens (`Revoke`), the operator give, take or
change them by `POST /api/config/save` (`SetTokens`), which moves no timer. A call takes no time if it reaches the hub at its first URL, and
`CallTime` otherwise. The hub works, or is behind a dead URL, or anything may answer
anything ("erratic").

**WifiLink** has the walk of `begin()` one attempt at a time, in the order a scan gives it
(`WalkOrder`: the permutation of the candidates that puts what was seen first and leaves the rest
in order), the second walk, the portal with what the operator enters, what `setup()` makes of it, and
the supervisor of `loop()`. Its clock is `millis()` and wraps. Radio, WiFiManager's page
and the access points are external: a network on the air with the right password can be
joined, a scan may miss any, and the SDK may bring a link back by itself.

**UdpControl** has requests that stay on the network for ever: each may be delivered at any
time, any number of times, and never. A request is its nonce, with an age by the device's
clock and the token it was made with; a packet of another length or with a wrong tag has no
effect and is left out. `begin` takes the token of that moment (`secret`); a new one
(`NewToken`) reaches it at the next boot. History: what was carried out, how long ago, how many
others and whether a restart came since.

`PROJECT.json` maps every definition to its lines.

## 3. What is checked

A run takes at most three minutes. Each of its properties is violated when the definition
its mutant names is replaced by the mutated form next to it in the module.

| run | states | shows |
|---|---|---|
| `persistence`, record | 1 013 669 in all | `CellSpec`: the two files are one atomic cell; only a full flash empties it, and it never goes back to an older record |
| `persistence`, configuration | | `BootsWithItsConfig`: the device boots with the last configuration stored whole or one that was being stored, but for one cut of rollback and of reset. `AlwaysRecoverable`: so it would in every intermediate state. `StoreInv`: the inductive invariant of the proof |
| `persistence`, heap | | `PressureLasted`: a restart follows a full row of low looks. `RestartsApart`: two of them within four hours need a restart of another kind in between *and* a stored time or a clock that is of no use. `ClosedByTheClock`: what the exception in `PressureLasted` comes from |
| `config_store_twice` | | **violation**: not with two faults (section 6) |
| `config_rollback_cut` | | **violation**: a rollback cut short takes networks and registration back as well |
| `boot_health` | 16 530 | `RecoveryIffCrashLoop`: recovery fires in exactly the crash loops. `PlannedIsEnded`. `OneSaveRollback`: the rollback of one bad save returns to proven settings. `CrashLoopEnds`: left alone, the device settles |
| `boot_health_reason` | | **violation**: a crash is reported as the restart that was planned |
| `monitor` | 103 856 | `PhasesExclusive`, `OffForAReason`, `FreshEvidence`, `PromiseKept` (implements `PowerCycle`), `PowerReturns`, `KeepsTrying` |
| `monitor_hub` | | **violation**: a failure of the internet is charged to the device that the hub has made the target since |
| `monitor_hour` | 2 228 428 | `TwoWindows`: any hour sees at most twice the configured cycles, whatever others do to the relay, and (its mutant) the limit is what makes it so |
| `hub_commands` | 636 602 | `RunsAccountedFor`: no run of a command without its one outcome. `DeliveredAtLeastOnce` (implements `AtLeastOnce`). `RelayAsOrdered`: restarts in mid array, crashes and new registrations do not change what commands lead to, unless a result is lost or a toggle cut off. `AllSettled` |
| `hub_commands_again` | | **violation**: a re-delivered command overrules a later one |
| `services`, log | 384 108 in all | `HistorySpec` (implements `RecentEvents`): the two files are one history, replaced in one instant. `CleanIsStored`: an entry is forgotten only if a write failed. `NumbersIncrease`, `OwnBoot`: the order of events, and whose boot they are of, across every crash. `WrittenInTheEnd`: a device that falls silent writes its log |
| `services`, hub | | `QuietAfterFailure`: no call shortly after one that failed, whatever the slot timer says and the hub does to the tokens. `InTouch`: once the hub stays up, heartbeats and polls come through for ever, however the tokens were lost |
| `services`, UDP | | `ActsOnce`: a duplicated or delayed request is carried out again only after a restart or a whole ring of others, and then only within twice the time window |
| `services`, Wi-Fi | | `TriedTwice`: the portal opens by itself only after two tries of every candidate. `EntriesKept`: what the operator entered is on flash. `PromptRejoin`, `Rejoins`: the supervisor does not wait for ever, but for the wrap of `millis()` |
| `hub_url` | | **violation**: a hub behind a URL beyond the first cycle's window is never tried |

Bounds, and why they are enough:

* `persistence`, record: four records (the default, one on flash, one being written, a stale
  one); power losses and full disks are not bounded at all.
* `persistence`, configuration, `config_store_twice`, `config_rollback_cut`: three settings, one of them clamped to another, so that a document
  that skipped `validateConfig` shows; three identities, so that the overlay can be
  told from both documents. `MaxFaults` = 1 between two moments at rest is what the
  design can bear; 2 refutes it. Over a run the number of faults is not bounded.
* `persistence`, heap: three levels, so that a sample can be low, lower and not low, and a drop
  of `Delta` can be told from a smaller one; a ring of three samples, of which two are needed;
  debounce 2; a cooldown of two ticks and an uptime that wraps at four, so that it outlasts the
  cooldown and closes the gates again. Nothing else is bounded: the ages saturate at the
  cooldown, beyond which the code does not tell them apart.
* `boot_health`: the threshold of the code, 2 (the proof is for any), two images,
  three settings. Nothing else is bounded; the history counters saturate.
* `monitor`: one to two ticks per timer, a limit of one cycle per incident and two per
  hour, three profiles of all three modes, so that every limit is met and every timer
  can run out before, with and after every other. `Cap` is at least each threshold
  (an assumption TLC evaluates), where saturation is exact. `monitor_hub` has two profiles with a
  target each, one for each mode, so that old and new target differ.
* `monitor_hour`: the hour is 14 ticks and a cycle takes four, so that twice the bound (4
  cycles of 2 per window) is reached within it, and more would fit. Button, hub and UDP act on
  the relay as they like; the configuration stays and the device does not reboot, for both
  change what the count is compared with or start it over, and then nothing holds of the hour.
* `hub_commands`: three commands of any of seven kinds, two faults (crash, lost result,
  lost registration, no memory to parse). Three are needed for a restart with commands before and after
  it. `MaxRuns` bounds the history counter; it is never reached, or `AllSettled` would
  fail.

* `services`, log: two texts, two entries held, files of up to four entries, of which three
  are accepted: a torn entry, an unnumbered file, one that is too long and one longer than
  the ring all occur. `MaxSeq` = 3 bounds the numbers given (a log that starts empty fills
  its ring and drops an entry); crashes and full disks are not bounded.
* `services`, hub, and `hub_url`: three URLs of which two are tried, so that the window is
  smaller than the list; the delays are short, and differ where the order matters (the firmware
  check comes less often than heartbeat and poll, and is put off for longer); the backoff
  reaches its cap. The theorem is for any delays. Restarts, changes of tokens and of the network
  are not bounded.
* `services`, Wi-Fi: one built-in network and one that the operator may enter; the clock wraps
  after seven ticks, more than twice timeout and interval together.
* `services`, UDP: three requests, one with an unknown command, which takes a place in the ring
  all the same, and a ring of two: two others evict a request. Window and clock error are one
  second each, so that a request can be used at both ends of its window, and what is twice the
  window apart can be told from what is more. Reboots and duplicates are not bounded; one new
  token (`MaxToken`).

Deadlock is checked in every run: none of these systems may stop.

## 4. Fairness

`loop()` runs for ever and calls each component in each pass: weak fairness of what
a pass does when it can (`Loop`, `SetupStep`, `Drain`, `Heartbeat`, `Poll`, `Execute`,
`Post`, `Register`). Time passes: `Tick`, the healthy mark, the end of a `delay()`. An
announced restart happens. Bad settings do crash the device: that is what makes
them bad, and without it `CrashLoopEnds` would be vacuous.

No fairness is assumed of people, of the hub's commands, or of faults ending by
themselves: `CrashLoopEnds` and `KeepsTrying` say "if from some time on nobody interferes",
`AllSettled` "if the hub client stays switched on"; its faults are bounded by
`MaxFaults`. `AllSettled` does assume of the hub and the network that a call gets
through between faults (`WF` of `Heartbeat`, `Poll` and `Post`), and of the operator
that a device that lost its registration is adopted again (`WF` of `Register`).

In `services` (UDP has only a safety property; neither has any part of `persistence`): the steps of boot, `persist`, debounce and flush happen (`LogFairness`; memory is
not short for ever, or `flush()` returns for ever), a pass of the hub client that can do
something does it and the clock goes on (`LinkFairness`), and so for the Wi-Fi
(`WifiFairness`). None is assumed of the portal's operator: a device in the portal may stay
there, and `Rejoins` says so. The liveness properties name what must end: crashes and new
events (`WrittenInTheEnd`), restarts, withdrawn tokens and tokens changed by hand (`InTouch`), restarts
(`Rejoins`).
`InTouch` and `EveryUrlReachable` assume the hub up from some time on, never that it is up
when called.

## 5. What is proved

Every theorem is proved for all values of the constants, from the named
assumptions of the modules. No obligation is left out.

| module | theorem | argument |
|---|---|---|
| `BootStateFile_proofs` | `TypeCorrect`, `RecordInvariant`, `ImplementsCell` | `RecordInv` says what the temporary file can be at each point: gone before a save starts, torn while written, and exactly the new record when the primary is removed. With it each file operation is a step of the cell or a stutter |
| `ConfigStore_proofs` | `TypeCorrect`, `StoreInvariant`, `OneFaultIsSurvived`, `RecoverableThroughout` | what each file holds at each `pc`, as long as no fault is pending, and that one fault leaves a document that loads, which is in `legit`, or in `bare` after the two cuts that uncover an older one. All but the first assume `MaxFaults = 1`, without which they are false |
| `BootHealth_proofs` | `BootInvariant`, `TypeCorrect`, `CrashLoopsAreFound`, `PlannedBranchIsDead`, `OneSaveCanBeUndone` | `BootInv` ties the record to history: strikes on flash equal the boots that died early in a row, phase by phase (before `beginBootSession`, between it and the mark, after an announced restart), and last-known-good is proven while at most one save came since |
| `Monitor_proofs` | `TypeCorrect`, `OnePhaseAtATime`, `ImplementsPowerCycle`, `OutletIsOffForAReason`, `ArmsOnFreshEvidence`, `HourInvariant`, `TwiceTheLimit` | `PhasesExclusive` with the type is inductive; the refinement follows. For the outlet: what both copies of `lastRelayOn`, in memory and on flash, say of what was asked for (`KeptIsWanted`). For the evidence: while a failure is being timed, the looks have been bad for at least as long. For the hour: `HourInv` splits the cycles of the last hour into those armed before the count started over (`Before`), which are within the limit, and those armed since (`After`), which are within the count; when the count starts over, all of `After` becomes `Before` and the old `Before` has aged out |
| `HubCommands_proofs` | `TypeCorrect`, `CommandInvariant`, `EveryRunHasAnOutcome`, `ImplementsDelivery`, `SettledInOrder`, `RelayEndsAsOrdered` | the property alone is not inductive: `Held` adds that what the device still has to do is in the hub's queue, that deferred array and running array are never both there, and that the command in hand is not in the array; `UnissuedIdle` that only issued commands ran. For the relay: `InOrder` says that there is a course `f` of the relay through the commands, each carried out once, and a place `d` on it, such that the queue is what follows `d` without a gap, every array held starts at `d + 1`, and relay and flash are at `f[d]` or at `f[d + 1]`, according to the stage of the command in hand. The course is a witness, extended by each new command, so that no induction over commands is needed |
| `EventLog_proofs` | `LogInvHolds`, `LogTypeCorrect`, `NumbersAlwaysIncrease`, `BootsToldApart`, `CleanIsAlwaysStored`, `LogIsOneHistory` | the properties say nothing of the files, so they are not inductive: `LogInv` adds that what a boot can read of *either* file is numbered in order (`FilesOK`), and so are the entries in memory (`NumbersOK`), that the entries of this boot are the last ones (`OwnTail`), and that there are none before it has read the file (`NotYet`); `Progress` what the temporary file holds at each operation of `persist`. With both, `load` is one `Read` of `RecentEvents`, and the removal of the old log (or the rename, if there was none) one `Store`, or `Lose` if the temporary file is torn; all else but what is said stutters. `Clean` extends `CleanIsStored` to the places of the restart in between |
| `CentralClient_proofs`, heap | `WatchTypeCorrect`, `GatesHold`, `ClosedOnlyByTheClock`, `PressureHasLasted`, `DistanceHolds`, `RestartsKeepApart` | `Gates`: pressure is counted at most as often as there were low looks in a row, unless it was interrupted (`CountsLooks`), and a clock is behind the stored time only if it was set (`BehindIfStepped`); with the second, each way the gates can close is one of the three. `Distance`: as long as nothing was set or lost, the stored time tells the age of the last restart (`StampTellsFire`); a boot that follows one is younger than it (`YoungerThanFire`); a restart is decided behind open gates (`DecidedApart`) |
| `CentralClient_proofs`, hub | `LinkTypeCorrect`, `QuietAfterEveryFailure` | `QuietInv`: the timer of every call that tokens and schedule admit (`Relevant`) is at least what is left of the lull, and a device that has a token and no schedule failed no call (`QuietStart`). A failure puts off *all* calls that may follow it, which is what makes the overwritten slot harmless. An operator who redirects the device to another call ends the lull, which is what the code does to it |
| `Services_proofs`, Wi-Fi | `WifiBaseHolds`, `WifiTypeCorrect`, `PortalAfterTwoWalks`, `EntriesAreKept`, `RejoinsPromptly` | `Tries`: in round `r` of a walk each candidate has been tried at least `r - 1` times, and at least `r` times once it is off the list. `Entries`: what is owed to the operator is among `saved`, and a list that has no more entries than the flash has the same names. `Timely` and `InTime`: the ticks since the last attempt, with those that remain to the next by both comparisons of `loop()` (`Remaining`), are within the patience, as long as the clock has not wrapped since |
| `Services_proofs`, UDP | `UdpTypeCorrect`, `ActsAtMostOnce` | `StillInRing`: a request carried out in this boot stands in the ring at the place that the number of requests behind it says, until they fill the ring. `AgedSince`: the age of a request is at least the time since it was carried out less the window, unless it is already past the window |
| `Services_proofs`, all | `ServicesKeepToThemselves`, `ServicesTypeCorrect` | `MCServices` leaves the variables of three of its parts alone in each step, so that it implements each |

Assumptions: `RecordsAssumption`, `ConfigAssumption` (among them that `validateConfig` is
idempotent), `BootAssumption` (the defaults do not crash), `MonitorAssumption`
(thresholds are positive, as `validateConfig` clamps them; saturation above every
threshold), `HourAssumption` (an hour takes time), `CommandAssumption`, `LogAssumption` (the ring fits into a file that loads; what an
earlier firmware left), `WatchAssumption` (the uptime wraps later than the
cooldown ends), `LinkAssumption` (the first retry delay is longer than a
call takes, and its double is within both caps), `WifiAssumption` (there is a built-in network, as
in `include/dev_wifi_config.h:14`; attempts take time; the clock wraps later than twice timeout and
interval), `UdpAssumption` (the window and the clock error are numbers, the ring has a slot, there
is a token). TLC evaluates each.

Every safety property of the passing runs is proved: all invariants, all action properties and
all refinements, those of a part of `persistence` or `services` of the part's own specification
(`PersistentTypeOK` conjunct by conjunct). Only model-checked is liveness (`CrashLoopEnds`, `PowerReturns`, `KeepsTrying`,
`AllSettled`, `WrittenInTheEnd`, `InTouch`, `Rejoins`): it needs fairness and `ENABLED`, which are
beyond the prover. So are the effects of the mutants, and the violations of section 6, which are
counterexamples of TLC.

## 6. Where code and documents disagree

Shown by a run (`findings` in `PROJECT.json`):

* **The repair of a save is not atomic** (`config_manager.cpp:542`): a power loss in a save
  and another in the repair at the next boot lose the configuration.
* **A rollback cut short takes back what it means to keep** (`config_manager.cpp:596`): a power loss
  between the removal of `/config.json` and the rename of its replacement makes the next boot
  promote last-known-good without the networks and the registration laid over it, against the
  comments at lines 513 and 590.
* **A crash can be reported as a planned restart** (`central_client.cpp:1130`), which the
  comments there mean to exclude.
* **A failure timed for one target can cut power for another** (`central_client.cpp:1242`,
  `SPECS.md:105, 150`): hub changes do not reset the incident.
* **Re-delivery is not harmless** (`central_client.cpp:1000`, comment at
  `central_client_heap.cpp:207`): a re-delivered command overrules later ones.
* **Not every hub URL is reachable** (`central_client.cpp:50`): the starting point of the search
  does not rotate, it moves only when a URL answers.

Exceptions that a property states, because the code has them:

* `BootsWithItsConfig`, `AlwaysRecoverable`: the cut of a rollback just named, and a factory reset
  cut between its two removes (`config_manager.cpp:575`), after which the configuration that was
  being erased is back.
* `OffForAReason`, `PowerReturns`: a switch that did not reach the flash is undone by the next
  reboot: one by UDP, half of a `relay_cycle`, and any whose save failed, was cut, or had not
  begun (`web_server_manager.cpp:168`, `main.cpp:64`, `central_client.cpp:1016`).
* `CleanIsStored`: a write that failed (`event_log.cpp:244`) is not tried again until the next event.
* `PressureLasted`, `ClosedByTheClock`: the count of low looks survives a recovery when the gates
  close on it, although `central_client.h:116` says it resets "the moment mfb recovers". They close when
  SNTP answers late or with another time, when a clock that was behind the stored time catches up with it,
  and when the uptime wraps after 49.7 days (`central_client_heap.cpp:134, 176, 190`).
* `RestartsApart`: with a crash or another restart in between, the four hours
  (`central_client_heap.cpp:150, 161`) do not hold if the time of the first restart is not on flash
  (no clock then, or a save that failed), if there is no clock at the second, or if the clock was
  set forward, or back behind the stored time, in between (line 182 names the last).
* `QuietAfterFailure`: a poll whose command's result could not be posted comes back at its usual
  interval, for `loop()` sets its timer last. An operator who gives or takes tokens
  (`web_server_manager.cpp:597-617`) so that another call is the next one makes that call
  due at once if the last failure put off only its own: an announce answered with an error, a
  register with 429. So does one who gives a device token, whose schedule starts anew.
* `PromptRejoin`, `Rejoins`: `now < nextReconnectAttemptMs_` (`wifi_manager.cpp:374`) holds for weeks
  after the wrap of `millis()`; a link lost just before it is, in a corner, never tried again.
* `Rejoins`: a device whose portal opened at boot waits there for an operator for ever, also
  when its network comes back (`CONFIG_PORTAL_TIMEOUT_SECONDS` is 0).
* `EntriesKept` is about names: a corrected password for a known network is not saved
  (`wifi_manager.cpp:342`); after a forced recovery the device restarts at once without it.
* `HistorySpec`: what is said of a crash before `eventLog.begin()` (`main.cpp:113`) is always lost.

Seen while reading, and not shown by a run:

* `SPECS.md:126, 168` ask for a *rolling* hour; the code has fixed windows. `TwoWindows`
  says what holds.
* `config_manager.cpp:82-83, 301-302` take a full flash for a failed write; only a write of
  zero bytes is.
* The planned-restart branch at `main.cpp:133` cannot be reached (`PlannedBranchIsDead`).
* `central_client.cpp:1504` and its likes overwrite the slot delay that a failed call has
  just scheduled (`QuietAfterFailure` says what holds all the same); a failed update does not
  move `nextFirmwareCheckAt_` and is tried again at every slot, against the comment at lines
  25-30 (`InTouch` holds all the same).
* The comment at `wifi_manager.cpp:377` says one candidate per tick; all are tried in one
  pass, which blocks `loop()` for a timeout each. The candidates are those of the boot: a network
  added later is not among them until the next.
* `event_log.cpp:272-273` promises that a known-good file stays until a complete new one exists; on
  a full flash a short write replaces it. A file longer than the ring loses its newest entries
  in `load`, its oldest in `trimToLimit`.
* The event that announces a heap restart is lost when less than 12 000 bytes are free, which
  is when the restart is likely (`event_log.cpp:236`).
* `central_client.cpp:777-778, 887-888` take intervals from the hub unclamped.
* `relay_cycle` ignores `post_reboot_holdoff_seconds` and any range of
  `power_off_seconds` (`docs/CENTRAL_SERVER_SPEC.md:597-602`).
* The ring of heap samples is emptied by each heartbeat (`central_client_heap.cpp:331`), so
  that "30s of trajectory data is always available at fire time" (line 269) does not hold.
* `config/save` changes the running configuration before it answers 400
  (`web_server_manager.cpp:514`).
* `setSecret` of UDP control, declared for the rotation of the token (`udp_control.h:21`), is never
  called: until the next restart requests made with a new token are dropped.
* `recoveryStabilitySeconds` is configured, clamped and stored, and never read by the watchdog.

## 7. What is not modelled

* **Power meter**: a decoder of serial frames and averages of floats.
* **Discovery, time sync, diagnostics, notifications, LED, status payload, web assets**:
  they send or show, and no other component depends on what they keep (time sync is an
  input of the heap watch).
* **Login**: a comparison of hashes.
* **Button**: debouncing; its presses are inputs of `BootHealth` and `Monitor`.
* **Bootstrap loader**: a separate first image, one retry loop.
* Partly modelled: the field-by-field parsing of the web API; the chunks of an upload; of
  the hub client, when the reported configuration goes along, recovery mode, and changes of the
  list of URLs and of the intervals (by operator or hub); of the heap watch, the latch between full and compact heartbeats; of the
  Wi-Fi, changes of the saved networks after boot. The records of an exception
  (`crash_recorder`) are not modelled.
* `Monitor` leaves out factory reset (it ends in `Boot` with the defaults, as a change of
  profile does) and keeps `relayRestoreBehavior` constant over a run.
* `UdpControl` has no clock that is set back; its time stamps age as the clock goes.
* Wrapping of `millis()`: it is modelled in `WifiLink` and `HeapWatch`. Ages in `Monitor` saturate, where 32-bit differences are right up to
  49 days; the comparisons that are *not* differences are hazards without a property.

## 8. Plan

In the order of what matters most; each with its run, mutants and, where given,
theorems.

Done since the first version of this plan: HubLink, HeapWatch, EventLog, WifiLink, UdpControl,
HourWindow, all with proofs of their safety, and the relay as ordered in HubCommands.

1. **ConfigHandlers** (`web_server_manager.cpp`, `config_manager.cpp` 90-272): config/save field by
   field, with its early returns, and `validateConfig` on a copy; running and stored
   configuration agree after each accepted request.
2. **Clock**: the remaining comparisons of `millis()` over the wrap (`central_client.cpp:1466`,
   `monitor_engine.cpp:93`).
3. Composition: `HubLink` refining the `Register` of `HubCommands`; `WifiLink` driving the
   `net` of `HubLink`.
4. Theorems: `OneSaveRollback` over `ConfigStore` instead of the atomic configuration;
   `RecoveryIffCrashLoop` over `BootStateFile` instead of the atomic record.
