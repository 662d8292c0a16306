------------------------------ MODULE ConfigStore ------------------------------
(***************************************************************************)
(* The device configuration on flash, one LittleFS operation per step      *)
(* (ConfigManager in src/src/config_manager.cpp): the primary document,    *)
(* the last-known-good copy and the temporary file a save goes through.    *)
(*                                                                         *)
(*   boot      load: primary, else last-known-good, else the defaults;     *)
(*             the last two are saved at once                              *)
(*   booted    setup() may roll back to last-known-good (auto-recovery)    *)
(*   up        portal, web API, hub, button and registration save          *)
(*                                                                         *)
(* Faults: the power may fail between any two steps, a file may fail to    *)
(* open, and the flash may be full when a file is closed.                  *)
(***************************************************************************)
EXTENDS FlashFiles, Naturals, FiniteSets

CONSTANTS Behaviors,        \* watchdog, relay, power and UI settings
          Identities,       \* saved Wi-Fi networks and hub registration
          DefaultBehavior,
          NoIdentity,       \* no networks, not registered
          Clamp,            \* validateConfig, on the settings it clamps
          MaxFaults         \* faults between two moments at rest

Configs == [beh : Behaviors, net : Identities]
Default == [beh |-> Clamp[DefaultBehavior], net |-> NoIdentity]

\* validateConfig: every write and every load goes through it.
Clean(c) == [c EXCEPT !.beh = Clamp[@]]
CleanConfigs == {Clean(c) : c \in Configs}

ASSUME ConfigAssumption ==
    /\ DefaultBehavior \in Behaviors /\ NoIdentity \in Identities
    /\ Clamp \in [Behaviors -> Behaviors]
    /\ \A b \in Behaviors : Clamp[Clamp[b]] = Clamp[b]
    /\ Absent \notin Configs /\ Torn \notin Configs /\ Absent # Torn
    /\ MaxFaults \in Nat

VARIABLES files,    \* the flash
          pc,       \* the next file operation
          caller,   \* which of load, save and restore is writing
          doc,      \* the document being written
          ram,      \* g_config
          legit,    \* history: the last configuration stored whole, and what
                    \* the operations begun since were to store
          bare,     \* history: the older document that a rollback or reset
                    \* cut short has uncovered
          faults    \* history: faults since the store was last at rest

vars == <<files, pc, caller, doc, ram, legit, bare, faults>>

Config == "/config.json"
Lkg    == "/config.lkg.json"
Temp   == "/config.tmp"
Paths  == {Config, Lkg, Temp}

\* The type of the state: no document on flash or being written is unvalidated.
TypeOK ==
    /\ files \in [Paths -> CleanConfigs \union {Absent, Torn}]
    /\ pc \in {"off", "booted", "up", "open", "writing", "dropLkg", "demote",
               "promote", "dropPrimary", "wipePrimary", "wipeLkg", "wipeTemp"}
    /\ caller \in {"load", "save", "restore"}
    /\ doc \in CleanConfigs
    /\ ram \in Configs
    /\ legit \subseteq CleanConfigs /\ bare \subseteq CleanConfigs
    /\ faults \in 0 .. MaxFaults

\* What load() would come up with from these files.
Loaded(fs) ==
    IF Readable(fs, Config) THEN fs[Config]
    ELSE IF Readable(fs, Lkg) THEN fs[Lkg]
    ELSE Default

Init ==
    /\ files = [p \in Paths |-> Absent]
    /\ pc = "off"
    /\ caller = "load"
    /\ doc = Default
    /\ ram = Default
    /\ legit = {Default}
    /\ bare = {}
    /\ faults = 0

\* Between two file operations of a rollback (config_manager.cpp:596) and of a
\* reset (574) the last-known-good document is all there is, as it is: not the
\* merge the rollback made of it.
Exposed ==
    IF (pc = "promote" /\ caller = "restore") \/ pc = "wipeLkg"
    THEN {files[Lkg]} \intersect CleanConfigs
    ELSE {}

\* History: an operation is over and left these files.  It is at rest once the
\* primary document is readable again.
Settle(fs) ==
    /\ legit' = legit \intersect {Loaded(fs)}
    /\ bare' = (bare \union Exposed) \intersect {Loaded(fs)}
    /\ faults' = IF Readable(fs, Config) THEN 0 ELSE faults

Return == pc' = IF caller = "load" THEN "booted" ELSE "up"

-------------------------------------------------------------------------------
\* load() and the file operations of save() and restoreLastKnownGood().

\* Mutant: a missing primary means defaults, as before 0.2.25.
LoadNoFallback ==
    /\ pc = "off"
    /\ UNCHANGED files
    /\ caller' = "load"
    /\ IF Readable(files, Config)
       THEN /\ pc' = "booted"
            /\ ram' = files[Config]
            /\ UNCHANGED doc
            /\ Settle(files)
       ELSE /\ pc' = "open"
            /\ ram' = Default
            /\ doc' = Default
            /\ UNCHANGED <<legit, bare, faults>>

Load ==
    /\ pc = "off"
    /\ UNCHANGED files
    /\ caller' = "load"
    /\ ram' = Clean(Loaded(files))
    /\ IF Readable(files, Config)
       THEN /\ pc' = "booted"
            /\ UNCHANGED doc
            /\ Settle(files)
       ELSE /\ pc' = "open"
            /\ doc' = ram'
            /\ UNCHANGED <<legit, bare, faults>>

\* A caller changed g_config in place and saves it.  The file gets the clamped
\* values, g_config keeps what it was given.
Save(c) ==
    /\ pc = "up"
    /\ pc' = "open"
    /\ caller' = "save"
    /\ ram' = c
    /\ doc' = Clean(c)
    /\ legit' = legit \union {Clean(c)}
    /\ UNCHANGED <<files, bare, faults>>

\* History: what the device came up with is its own from then on.
Adopted == legit \union bare

\* The rollback takes behaviour from the last-known-good document and keeps
\* networks and registration of the configuration that just loaded
\* (overlayRecoveryPreservedState).
Rollback == Clean([beh |-> files[Lkg].beh, net |-> ram.net])

RestoreLastKnownGood ==
    /\ pc = "booted"
    /\ Readable(files, Lkg)
    /\ pc' = "open"
    /\ caller' = "restore"
    /\ doc' = Rollback
    /\ legit' = Adopted \union {Rollback}
    /\ bare' = {}
    /\ UNCHANGED <<files, ram, faults>>

SetupDone ==
    /\ pc = "booted"
    /\ pc' = "up"
    /\ legit' = Adopted
    /\ bare' = {}
    /\ UNCHANGED <<files, caller, doc, ram, faults>>

OpenTemp ==
    /\ pc = "open"
    /\ files' = Opened(files, Temp)
    /\ pc' = "writing"
    /\ UNCHANGED <<caller, doc, ram, legit, bare, faults>>

\* writeConfigToPath returns false: nothing was touched.
OpenFails ==
    /\ pc = "open"
    /\ Return
    /\ Settle(files)
    /\ UNCHANGED <<files, caller, doc, ram>>

\* Mutant: the document is written as it was given, not validated.
CloseTempRaw ==
    /\ pc = "writing"
    /\ pc' = IF caller = "restore" THEN "dropPrimary" ELSE "dropLkg"
    /\ files' = Closed(files, Temp, ram)
    /\ UNCHANGED <<caller, doc, ram, legit, bare, faults>>

\* serializeJsonPretty and close; nobody looks at what was really written.
CloseTemp ==
    /\ pc = "writing"
    /\ pc' = IF caller = "restore" THEN "dropPrimary" ELSE "dropLkg"
    /\ \/ /\ files' = Closed(files, Temp, doc)
          /\ UNCHANGED faults
       \/ /\ faults < MaxFaults
          /\ faults' = faults + 1
          /\ UNCHANGED files
    /\ UNCHANGED <<caller, doc, ram, legit, bare>>

DropLkg ==
    /\ pc = "dropLkg"
    /\ files' = Removed(files, Lkg)
    /\ pc' = "demote"
    /\ UNCHANGED <<caller, doc, ram, legit, bare, faults>>

\* Mutant: the old primary is removed, as restoreLastKnownGood does, instead of
\* becoming the last-known-good document.
DemoteRemoves ==
    /\ pc = "demote"
    /\ files' = Removed(files, Config)
    /\ pc' = "promote"
    /\ UNCHANGED <<caller, doc, ram, legit, bare, faults>>

\* The primary becomes the last-known-good document.  (The rename leaves no
\* primary, so the remove that follows it in the code has nothing to do.)
Demote ==
    /\ pc = "demote"
    /\ files' = Renamed(files, Config, Lkg)
    /\ pc' = "promote"
    /\ UNCHANGED <<caller, doc, ram, legit, bare, faults>>

DropPrimary ==
    /\ pc = "dropPrimary"
    /\ files' = Removed(files, Config)
    /\ pc' = "promote"
    /\ UNCHANGED <<caller, doc, ram, legit, bare, faults>>

Promote ==
    /\ pc = "promote"
    /\ files' = Renamed(files, Temp, Config)
    /\ Return
    /\ ram' = IF caller = "restore" THEN doc ELSE ram
    /\ Settle(files')
    /\ UNCHANGED <<caller, doc>>

-------------------------------------------------------------------------------
\* reset(): factory reset by button, web API or hub, then a restart.

FactoryReset ==
    /\ pc = "up"
    /\ pc' = "wipePrimary"
    /\ legit' = legit \union {Default}
    /\ UNCHANGED <<files, caller, doc, ram, bare, faults>>

WipePrimary ==
    /\ pc = "wipePrimary"
    /\ files' = Removed(files, Config)
    /\ pc' = "wipeLkg"
    /\ UNCHANGED <<caller, doc, ram, legit, bare, faults>>

\* Mutant: the last-known-good document survives a factory reset.
WipeLkgForgets ==
    /\ pc = "wipeLkg"
    /\ UNCHANGED files
    /\ pc' = "wipeTemp"
    /\ UNCHANGED <<caller, doc, ram, legit, bare, faults>>

WipeLkg ==
    /\ pc = "wipeLkg"
    /\ files' = Removed(files, Lkg)
    /\ pc' = "wipeTemp"
    /\ UNCHANGED <<caller, doc, ram, legit, bare, faults>>

WipeTemp ==
    /\ pc = "wipeTemp"
    /\ files' = Removed(files, Temp)
    /\ pc' = "off"
    /\ legit' = {Default}
    /\ bare' = {}
    /\ faults' = 0
    /\ UNCHANGED <<caller, doc, ram>>

-------------------------------------------------------------------------------
AtRest == pc \in {"off", "booted", "up"}

\* Power loss, watchdog, exception or restart.  Outside an operation it is no
\* fault of the store's concern.
PowerLoss ==
    /\ pc # "off"
    /\ \/ AtRest /\ UNCHANGED faults
       \/ ~AtRest /\ faults < MaxFaults /\ faults' = faults + 1
    /\ pc' = "off"
    /\ ram' = Default
    /\ doc' = Default
    /\ bare' = bare \union Exposed
    /\ UNCHANGED <<files, caller, legit>>

Step ==
    \/ Load
    \/ \E c \in Configs : Save(c)
    \/ RestoreLastKnownGood
    \/ SetupDone
    \/ OpenTemp
    \/ OpenFails
    \/ CloseTemp
    \/ DropLkg
    \/ Demote
    \/ DropPrimary
    \/ Promote
    \/ FactoryReset
    \/ WipePrimary
    \/ WipeLkg
    \/ WipeTemp

Next == Step \/ PowerLoss

Spec == Init /\ [][Next]_vars

-------------------------------------------------------------------------------
\* PROPERTY.  A device comes up with the last configuration that was stored
\* whole, or one that a save, rollback or reset cut short since (by a power loss
\* or a full flash) was to store.  One exception: after a rollback or a reset that
\* lost the primary document and went no further it comes up with the older one
\* under it.  Holds for one fault between two moments at rest (load(),
\* config_manager.cpp:532); not for two: re-promoting the last-known-good document
\* (line 542) goes through save(), which deletes it before the copy is in place.
BootsWithItsConfig == pc = "booted" => ram \in legit \union bare

\* PROPERTY.  While no fault is pending, a power loss right now would be survived:
\* in every intermediate state of save() (line 562) the flash still loads to the
\* old configuration or the new one, and in every one of restoreLastKnownGood()
\* (583) and reset() (573) to one of those or, in one state of each, to the older
\* document under the primary.
AlwaysRecoverable ==
    faults = 0 => Loaded(files) \in legit \union bare \union Exposed

\* PROPERTY (of line 513: "so a recovery does not strand the device on a network
\* it can no longer reach"; line 590: "keep the freshest low-risk operational
\* identity").  A boot after a rollback, completed or cut short, has the networks
\* and the registration of a configuration the device had or was to have.
RollbackKeepsIdentity ==
    [][Load /\ caller = "restore" => ram'.net \in {c.net : c \in legit}]_vars

\* The parts of an invariant of the store that is inductive for one fault at a
\* time.
Writing == pc \in {"open", "writing", "dropLkg", "demote", "promote",
                   "dropPrimary"}

\* Losing the last-known-good document would not change what a reboot loads.
LkgSpare == Readable(files, Config) \/ ~Readable(files, Lkg)

\* The one window in which a second fault would be fatal: the last-known-good
\* document is gone and the complete copy is still in the temporary file.
Repromoting ==
    /\ faults = 1
    /\ pc \in {"demote", "promote"}
    /\ caller # "restore"
    /\ files[Temp] = doc

\* PROPERTY.  What every operation on the documents leaves, step by step; the two
\* properties above follow from it.
StoreInv ==
    /\ faults <= 1
    /\ Loaded(files) \in legit \union bare \union Exposed \/ Repromoting
    /\ Writing => doc \in legit \union bare
    /\ pc \in {"dropLkg", "demote", "promote", "dropPrimary"}
          => files[Temp] \in {doc, Torn}
    /\ pc \in {"dropLkg", "demote"} => caller # "restore"
    /\ pc = "dropPrimary" => caller = "restore"
    /\ pc = "demote" => files[Lkg] = Absent
    /\ pc = "promote" => files[Config] = Absent
    /\ pc = "writing" => files[Temp] = Torn
    /\ pc \in {"dropLkg", "demote", "promote", "dropPrimary"}
          /\ files[Temp] = Torn => faults = 1
    /\ pc = "dropLkg" /\ files[Temp] = Torn => LkgSpare
    /\ faults = 0 /\ pc \in {"off", "booted", "up", "open", "writing", "dropLkg",
                             "dropPrimary"} => LkgSpare
    /\ caller = "restore" /\ Writing => Readable(files, Lkg)
    /\ caller = "load" /\ Writing
          => ram = doc /\ (Repromoting \/ Loaded(files) = doc)
    /\ pc \in {"wipePrimary", "wipeLkg", "wipeTemp"} => Default \in legit
    /\ pc = "wipeLkg" => files[Config] = Absent
    /\ pc = "wipeTemp" => files[Config] = Absent /\ files[Lkg] = Absent
    /\ BootsWithItsConfig
===============================================================================
