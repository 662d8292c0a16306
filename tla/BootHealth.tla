------------------------------ MODULE BootHealth ------------------------------
(***************************************************************************)
(* How a device decides, at boot, whether it is in a crash loop            *)
(* (ConfigManager::beginBootSession and its callers; setup() and loop() of *)
(* main.cpp).  The boot record and the configuration are written in one    *)
(* step each: BootStateFile proves that of the record, ConfigStore says    *)
(* when it is so of the configuration.  Between any two steps the device   *)
(* may crash.                                                              *)
(*                                                                         *)
(* A boot passes through the phases                                        *)
(*   off  loaded  session  rolled  wifi  [portal]  running                 *)
(* and a commanded restart through "stopping".  Time is abstracted: the    *)
(* healthy mark (90 s after boot, 15 s in recovery mode) comes some time   *)
(* after the loop has started.                                             *)
(***************************************************************************)
EXTENDS Naturals

CONSTANTS Settings,       \* behavioural configurations
          BadSettings,    \* those that crash the device outside recovery mode
          FirstSettings,  \* the defaults
          NoSettings,     \* no last-known-good document
          Firmwares,      \* image versions
          FirstFirmware,
          NoFirmware,     \* last_firmware_version of a fresh record
          Threshold       \* AUTO_RECOVERY_BOOT_THRESHOLD

ASSUME BootAssumption ==
    /\ BadSettings \subseteq Settings /\ FirstSettings \in Settings \ BadSettings
    /\ NoSettings \notin Settings
    /\ FirstFirmware \in Firmwares /\ NoFirmware \notin Firmwares
    /\ Threshold \in Nat \ {0}

VARIABLES rec,       \* /bootstate.json
          flag,      \* is there a /recovery.flag?
          cfg, lkg,  \* settings in the primary and the last-known-good document
          slot,      \* the image the boot loader starts next
          phase,
          fw,        \* the running image
          autoRec,   \* bootHealth.autoRecoveryTriggered, a constant of the boot
          explicit,  \* explicitRecoveryRequested of this boot
          reason,    \* does this boot report a planned-restart reason?
          healthy,   \* g_bootMarkedHealthy
          fails,     \* history: boots in a row that died early, on one image
          loop,      \* history: had fails reached Threshold when this boot began?
          commanded, \* history: was the last end of a boot a commanded restart?
          proven,    \* history: settings some boot ran healthy with
          saves      \* history: saves since a boot was last healthy (0, 1, 2 for
                     \* many, and 2 also once a rollback undid something else
                     \* than one save)

flash   == <<rec, flag, cfg, lkg, slot>>
memory  == <<fw, autoRec, explicit, reason, healthy>>
history == <<fails, loop, commanded, proven, saves>>
vars    == <<flash, phase, memory, history>>

Record == [strikes : 0 .. Threshold, inProgress : BOOLEAN, planned : BOOLEAN,
           fw : Firmwares \union {NoFirmware}]

FreshRecord == [strikes |-> 0, inProgress |-> FALSE, planned |-> FALSE,
                fw |-> NoFirmware]

FlashOK ==
    /\ rec \in Record
    /\ flag \in BOOLEAN
    /\ cfg \in Settings /\ lkg \in Settings \union {NoSettings}
    /\ slot \in Firmwares

MemoryOK ==
    /\ phase \in {"off", "loaded", "session", "rolled", "wifi", "portal",
                  "provisioned", "running", "flagging", "updating", "wiped",
                  "stopping"}
    /\ fw \in Firmwares
    /\ autoRec \in BOOLEAN /\ explicit \in BOOLEAN /\ reason \in BOOLEAN
    /\ healthy \in BOOLEAN

HistoryOK ==
    /\ fails \in 0 .. Threshold
    /\ loop \in BOOLEAN /\ commanded \in BOOLEAN
    /\ proven \subseteq Settings
    /\ saves \in 0 .. 2

\* The type of the state: the device always has settings, and a strike count in range.
TypeOK == FlashOK /\ MemoryOK /\ HistoryOK

Init ==
    /\ rec = FreshRecord /\ flag = FALSE
    /\ cfg = FirstSettings /\ lkg = NoSettings
    /\ slot = FirstFirmware /\ fw = FirstFirmware
    /\ phase = "off"
    /\ autoRec = FALSE /\ explicit = FALSE /\ reason = FALSE /\ healthy = FALSE
    /\ fails = 0 /\ loop = FALSE /\ commanded = FALSE
    /\ proven = {FirstSettings} /\ saves = 0

RecoveryMode == autoRec \/ explicit

-------------------------------------------------------------------------------
\* setup()

PowerOn ==
    /\ phase = "off"
    /\ phase' = "loaded"
    /\ fw' = slot
    /\ autoRec' = FALSE /\ explicit' = FALSE /\ reason' = FALSE /\ healthy' = FALSE
    /\ loop' = FALSE
    /\ UNCHANGED <<flash, fails, commanded, proven, saves>>

\* Mutants of Counted: a new image inherits the strikes of the old one; each
\* boot only looks at the one before it.
CountedAnyFirmware(r, image) ==
    IF ~r.inProgress \/ r.planned THEN 0
    ELSE r.strikes + 1

CountedOnce(r, image) ==
    IF ~r.inProgress \/ r.planned THEN 0
    ELSE IF r.fw # NoFirmware /\ r.fw # image THEN 0
    ELSE 1

\* The strikes this boot counts, from the record the last one left.
Counted(r, image) ==
    IF ~r.inProgress THEN 0
    ELSE IF r.planned THEN 0
    ELSE IF r.fw # NoFirmware /\ r.fw # image THEN 0
    ELSE r.strikes + 1

BeginBootSession ==
    /\ phase = "loaded"
    /\ phase' = "session"
    /\ LET strikes == Counted(rec, fw)
           trigger == strikes >= Threshold
       IN  /\ autoRec' = trigger
           /\ rec' = [strikes    |-> IF trigger THEN 0 ELSE strikes,
                      inProgress |-> TRUE,
                      planned    |-> FALSE,
                      fw         |-> fw]
    /\ reason' = rec.planned
    /\ loop' = (fails >= Threshold)
    /\ fails' = IF fails >= Threshold THEN 0 ELSE fails
    /\ UNCHANGED <<flag, cfg, lkg, slot, fw, explicit, healthy, commanded,
                   proven, saves>>

\* Mutant: the document is not looked for first.
RollbackUnchecked ==
    /\ phase = "session"
    /\ phase' = "rolled"
    /\ cfg' = IF autoRec THEN lkg ELSE cfg
    /\ UNCHANGED <<rec, flag, lkg, slot, memory, history>>

\* restoreLastKnownGood, if auto-recovery fired and there is a document.
Rollback ==
    /\ phase = "session"
    /\ phase' = "rolled"
    /\ IF autoRec /\ lkg # NoSettings
       THEN /\ cfg' = lkg
            /\ saves' = IF saves = 1 THEN 1 ELSE 2
       ELSE UNCHANGED <<cfg, saves>>
    /\ UNCHANGED <<rec, flag, lkg, slot, memory, fails, loop, commanded, proven>>

ConsumeRecoveryBootRequest ==
    /\ phase = "rolled"
    /\ phase' = "wifi"
    /\ explicit' = flag
    /\ flag' = FALSE
    /\ UNCHANGED <<rec, cfg, lkg, slot, fw, autoRec, reason, healthy, history>>

\* A saved network answers: setup() completes.
JoinWifi ==
    /\ phase = "wifi"
    /\ ~explicit
    /\ phase' = "running"
    /\ UNCHANGED <<flash, memory, history>>

\* An explicit recovery forces the setup portal, and without a network that
\* answers the device falls back to it.  It has no timeout: setup() waits there.
OpenPortal ==
    /\ phase = "wifi"
    /\ phase' = "portal"
    /\ UNCHANGED <<flash, memory, history>>

\* Mutant: the primary document is moved aside after it was replaced.
SavedLate(s) ==
    /\ cfg' = s
    /\ lkg' = s
    /\ saves' = IF saves = 0 THEN 1 ELSE 2

\* What a save leaves: the previous document becomes last-known-good.
Saved(s) ==
    /\ cfg' = s
    /\ lkg' = cfg
    /\ saves' = IF saves = 0 THEN 1 ELSE 2

\* The record of a boot marked healthy.
Ended == [strikes |-> 0, inProgress |-> FALSE, planned |-> FALSE, fw |-> rec.fw]

\* Somebody provisions a network; if that changed the configuration it is saved.
\* In an explicit recovery boot it ends the recovery: the boot is marked healthy
\* and the device restarts.
Provision ==
    /\ phase = "portal"
    /\ Saved(cfg) \/ UNCHANGED <<cfg, lkg, saves>>
    /\ IF explicit
       THEN /\ phase' = "provisioned"
            /\ rec' = Ended
       ELSE /\ phase' = "running"
            /\ UNCHANGED rec
    /\ UNCHANGED <<flag, slot, memory, fails, loop, commanded, proven>>

-------------------------------------------------------------------------------
\* loop() and the handlers it calls

\* A device with bad settings does not live to see its healthy mark, except in
\* recovery mode, where watchdog, hub client and power monitor stay off.
Doomed == cfg \in BadSettings /\ ~RecoveryMode

MarkBootHealthy ==
    /\ phase = "running"
    /\ ~healthy
    /\ ~Doomed
    /\ healthy' = TRUE
    /\ rec' = Ended
    /\ proven' = IF RecoveryMode THEN proven ELSE proven \union {cfg}
    /\ saves' = IF RecoveryMode THEN saves ELSE 0
    /\ UNCHANGED <<flag, cfg, lkg, slot, phase, fw, autoRec, explicit, reason,
                   fails, loop, commanded>>

\* Any save: an operator's new settings, or the same ones with a new relay
\* state or registration.
Save(s) ==
    /\ phase = "running"
    /\ Saved(s)
    /\ UNCHANGED <<rec, flag, slot, phase, memory, fails, loop, commanded,
                   proven>>

\* Mutant: the restart is announced, the boot is not ended.
PreparedOpen == [rec EXCEPT !.strikes = 0, !.planned = TRUE]

\* The record of a boot about to end by command.
Prepared == [strikes |-> 0, inProgress |-> FALSE, planned |-> TRUE, fw |-> rec.fw]

PrepareForPlannedRestart ==
    /\ phase' = "stopping"
    /\ rec' = Prepared
    /\ UNCHANGED <<flag, cfg, lkg, slot, memory, history>>

\* Reboot by button, web API, hub command, heap pressure or uploaded image.
Reboot == phase = "running" /\ PrepareForPlannedRestart

\* The end of a provisioning and of a factory reset.
RebootAfterwards == phase \in {"provisioned", "wiped"} /\ PrepareForPlannedRestart

\* Recovery boot by button or web API: the record first, then the flag.
EnterRecoveryMode ==
    /\ phase = "running"
    /\ phase' = "flagging"
    /\ rec' = Prepared
    /\ UNCHANGED <<flag, cfg, lkg, slot, memory, history>>

RequestRecoveryBoot ==
    /\ phase = "flagging"
    /\ phase' = "stopping"
    /\ flag' = TRUE
    /\ UNCHANGED <<rec, cfg, lkg, slot, memory, history>>

\* reset(): every document and the record are gone.
FactoryReset ==
    /\ phase = "running"
    /\ phase' = "wiped"
    /\ rec' = FreshRecord /\ flag' = FALSE
    /\ cfg' = FirstSettings /\ lkg' = NoSettings
    /\ saves' = 0
    /\ UNCHANGED <<slot, memory, fails, loop, commanded, proven>>

\* An image uploaded through the web API starts at the next reset, whatever
\* causes it.
UploadImage(f) ==
    /\ phase = "running"
    /\ slot' = f
    /\ UNCHANGED <<rec, flag, cfg, lkg, phase, memory, history>>

\* The hub assigns an image (only to a healthy device): the restart is prepared
\* before the download, which restarts by itself when it succeeds.
StartUpdate ==
    /\ phase = "running"
    /\ healthy /\ ~RecoveryMode
    /\ phase' = "updating"
    /\ rec' = Prepared
    /\ UNCHANGED <<flag, cfg, lkg, slot, memory, history>>

UpdateSucceeds(f) ==
    /\ phase = "updating"
    /\ phase' = "stopping"
    /\ slot' = f
    /\ UNCHANGED <<rec, flag, cfg, lkg, memory, history>>

\* HTTP_UPDATE_FAILED or HTTP_UPDATE_NO_UPDATES: clearPlannedRestart.
UpdateFails ==
    /\ phase = "updating"
    /\ phase' = "running"
    /\ rec' = [rec EXCEPT !.planned = FALSE]
    /\ UNCHANGED <<flag, cfg, lkg, slot, memory, history>>

\* ESP.restart()
Restart ==
    /\ phase = "stopping"
    /\ phase' = "off"
    /\ fails' = 0
    /\ commanded' = TRUE
    /\ UNCHANGED <<flash, memory, loop, proven, saves>>

\* The boot ends without a command.  It died early if its session had begun and
\* nothing had excused it: not the healthy mark, not a restart or reset under way.
DiedEarly ==
    /\ phase \in {"session", "rolled", "wifi", "portal", "running"}
    /\ ~healthy

End ==
    /\ phase' = "off"
    /\ commanded' = FALSE
    /\ fails' = IF phase = "loaded" THEN fails
                ELSE IF DiedEarly /\ slot = fw THEN fails + 1
                ELSE 0
    /\ UNCHANGED <<flash, memory, loop, proven, saves>>

\* Power loss, watchdog, exception: any time.
Crash == phase # "off" /\ End

\* Bad settings do it every time.
BadCrash == phase = "running" /\ Doomed /\ ~healthy /\ End

SetupStep ==
    \/ PowerOn
    \/ BeginBootSession
    \/ Rollback
    \/ ConsumeRecoveryBootRequest
    \/ JoinWifi
    \/ OpenPortal

Operator ==
    \/ \E s \in Settings : Save(s)
    \/ Reboot
    \/ EnterRecoveryMode
    \/ FactoryReset
    \/ \E f \in Firmwares : UploadImage(f)
    \/ StartUpdate

\* What follows without anybody's help, once begun.
Afterwards ==
    \/ RequestRecoveryBoot
    \/ RebootAfterwards
    \/ \E f \in Firmwares : UpdateSucceeds(f)
    \/ UpdateFails
    \/ Restart

Next ==
    \/ SetupStep
    \/ Provision
    \/ MarkBootHealthy
    \/ Operator
    \/ Afterwards
    \/ Crash
    \/ BadCrash

Spec == Init /\ [][Next]_vars

\* The processor runs; bad settings crash; the healthy mark comes.
FairSpec ==
    /\ Spec
    /\ WF_vars(SetupStep)
    /\ WF_vars(Afterwards)
    /\ WF_vars(BadCrash)
    /\ WF_vars(MarkBootHealthy)

-------------------------------------------------------------------------------
\* Properties

Booted == phase \notin {"off", "loaded"}

\* Auto-recovery fires exactly in a crash loop: when Threshold boots in a row of
\* the same image, whatever their settings and whatever else happened between
\* them, ended early and uncommanded (beginBootSession, main.cpp:118-129).
RecoveryIffCrashLoop == Booted => (autoRec <=> loop)

\* No boot is on record as both in progress and about to be restarted: the
\* branch "Previous boot ended during a planned restart" (main.cpp:133) never
\* runs, and neither does the first branch of beginBootSession's strike count.
PlannedIsEnded == rec.planned => ~rec.inProgress

\* A healthy boot, one save, a crash loop: the rollback returns to settings that
\* some boot ran healthy with (restoreLastKnownGood).
OneSaveRollback ==
    [][Rollback /\ autoRec /\ saves = 1 => cfg' \in proven]_vars

\* However the settings got into the primary document, if nobody touches the
\* device any more and nothing but its settings crashes it, it settles: in a
\* boot marked healthy, or in the setup portal of an explicit recovery boot.
CrashLoopEnds ==
    <>[][~Operator /\ (Crash => BadCrash)]_vars => <>[](healthy \/ phase = "portal")

\* A boot reports the reason of a planned restart only if that restart is how
\* the last one ended (config_manager.cpp:665, central_client.cpp:1122).
ReasonTruthful == phase = "session" => (reason => commanded)
===============================================================================
