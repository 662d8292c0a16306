-------------------------- MODULE ConfigStore_proofs --------------------------
(***************************************************************************)
(* ConfigStore survives any single fault, for every set of settings,       *)
(* networks and clamping function.  StoreInv is the inductive invariant:   *)
(* it says which files may be missing at each point of a save, a rollback  *)
(* and a reset, and that the only moment at which the flash does not load  *)
(* to a legitimate configuration is the one after a first fault, while the *)
(* complete copy waits in the temporary file.                              *)
(***************************************************************************)
EXTENDS ConfigStore, TLAPS

\* validateConfig maps configurations to clean ones and leaves those alone.
LEMMA CleanFacts ==
    /\ CleanConfigs \subseteq Configs
    /\ Default \in CleanConfigs
    /\ \A c \in Configs : Clean(c) \in CleanConfigs
    /\ \A c \in CleanConfigs : Clean(c) = c
    /\ Absent \notin CleanConfigs /\ Torn \notin CleanConfigs
<1> USE ConfigAssumption
<1>1. \A c \in Configs : Clean(c) \in Configs /\ Clean(Clean(c)) = Clean(c)
  BY DEF Configs, Clean
<1>2. Default \in Configs /\ Clean(Default) = Default
  BY DEF Default, Configs, Clean
<1>3. QED
  BY <1>1, <1>2 DEF CleanConfigs

\* The merge of the rollback is a configuration.
LEMMA RollbackIsConfig ==
  ASSUME TypeOK, Readable(files, Lkg)
  PROVE  Rollback \in CleanConfigs
<1>1. files[Lkg] \in Configs /\ ram \in Configs
  BY CleanFacts DEF TypeOK, Paths, Lkg, Readable
<1>2. [beh |-> files[Lkg].beh, net |-> ram.net] \in Configs
  BY <1>1 DEF Configs
<1>3. QED
  BY <1>2, CleanFacts DEF Rollback

\* Whatever is on flash, load() comes up with a clean configuration.
LEMMA LoadedIsConfig ==
  ASSUME TypeOK PROVE Loaded(files) \in CleanConfigs
BY CleanFacts DEF TypeOK, Loaded, Readable, Paths, Config, Lkg, Temp

\* Every variable keeps its type; what is on flash is validated.
LEMMA TypeStep == TypeOK /\ [Next]_vars => TypeOK'
<1> SUFFICES ASSUME TypeOK, [Next]_vars PROVE TypeOK'
  OBVIOUS
<1> USE CleanFacts, ConfigAssumption
    DEF TypeOK, Paths, Config, Lkg, Temp, Settle, Return, Exposed, Adopted
<1>1. CASE Load
  BY <1>1, LoadedIsConfig DEF Load
<1>2. ASSUME NEW c \in Configs, Save(c) PROVE TypeOK'
  BY <1>2 DEF Save
<1>3. CASE RestoreLastKnownGood
  BY <1>3, RollbackIsConfig DEF RestoreLastKnownGood, Readable
<1>4. CASE SetupDone
  BY <1>4 DEF SetupDone
<1>5. CASE OpenTemp
  BY <1>5 DEF OpenTemp, Opened
<1>6. CASE OpenFails
  BY <1>6 DEF OpenFails
<1>7. CASE CloseTemp
  BY <1>7 DEF CloseTemp, Closed
<1>8. CASE DropLkg
  BY <1>8 DEF DropLkg, Removed
<1>9. CASE Demote
  BY <1>9 DEF Demote, Renamed, Exists
<1>10. CASE DropPrimary
  BY <1>10 DEF DropPrimary, Removed
<1>11. CASE Promote
  BY <1>11 DEF Promote, Renamed, Exists
<1>12. CASE FactoryReset
  BY <1>12 DEF FactoryReset
<1>13. CASE WipePrimary
  BY <1>13 DEF WipePrimary, Removed
<1>14. CASE WipeLkg
  BY <1>14 DEF WipeLkg, Removed
<1>15. CASE WipeTemp
  BY <1>15 DEF WipeTemp, Removed
<1>16. CASE PowerLoss
  BY <1>16 DEF PowerLoss
<1>17. CASE UNCHANGED vars
  BY <1>17 DEF vars
<1>18. QED
  BY <1>1, <1>2, <1>3, <1>4, <1>5, <1>6, <1>7, <1>8, <1>9, <1>10, <1>11,
     <1>12, <1>13, <1>14, <1>15, <1>16, <1>17 DEF Next, Step

\* Type correctness; in particular every document on flash has been through
\* validateConfig.
THEOREM TypeCorrect == Spec => []TypeOK
<1>1. Init => TypeOK
  BY CleanFacts, ConfigAssumption DEF Init, TypeOK
<1>2. QED
  BY <1>1, TypeStep, PTL DEF Spec

-------------------------------------------------------------------------------
\* One fault at a time: each step keeps StoreInv.
LEMMA StoreInvStep ==
  ASSUME MaxFaults = 1, TypeOK, StoreInv, [Next]_vars
  PROVE  StoreInv'
<1> USE CleanFacts, ConfigAssumption
    DEF TypeOK, StoreInv, Paths, Config, Lkg, Temp, Settle, Return, Loaded,
        Readable, Writing, LkgSpare, Repromoting, BootsWithItsConfig, Exposed,
        Adopted
<1>1. CASE Load
  BY <1>1 DEF Load
<1>2. ASSUME NEW c \in Configs, Save(c) PROVE StoreInv'
  BY <1>2 DEF Save
<1>3. CASE RestoreLastKnownGood
  BY <1>3, RollbackIsConfig DEF RestoreLastKnownGood
<1>4. CASE SetupDone
  BY <1>4 DEF SetupDone
<1>5. CASE OpenTemp
  BY <1>5 DEF OpenTemp, Opened
<1>6. CASE OpenFails
  BY <1>6 DEF OpenFails
<1>7. CASE CloseTemp
  <2>1. CASE files' = Closed(files, Temp, doc) /\ faults' = faults
    BY <1>7, <2>1 DEF CloseTemp, Closed
  <2>2. CASE faults = 0 /\ faults' = 1 /\ files' = files
    BY <1>7, <2>2 DEF CloseTemp
  <2>3. QED
    BY <1>7, <2>1, <2>2 DEF CloseTemp
<1>8. CASE DropLkg
  BY <1>8 DEF DropLkg, Removed
<1>9. CASE Demote
  BY <1>9 DEF Demote, Renamed, Exists
<1>10. CASE DropPrimary
  BY <1>10 DEF DropPrimary, Removed
<1>11. CASE Promote
  BY <1>11 DEF Promote, Renamed, Exists
<1>12. CASE FactoryReset
  BY <1>12 DEF FactoryReset
<1>13. CASE WipePrimary
  BY <1>13 DEF WipePrimary, Removed
<1>14. CASE WipeLkg
  BY <1>14 DEF WipeLkg, Removed
<1>15. CASE WipeTemp
  BY <1>15 DEF WipeTemp, Removed
<1>16. CASE PowerLoss
  BY <1>16 DEF PowerLoss, AtRest
<1>17. CASE UNCHANGED vars
  BY <1>17 DEF vars
<1>18. QED
  BY <1>1, <1>2, <1>3, <1>4, <1>5, <1>6, <1>7, <1>8, <1>9, <1>10, <1>11,
     <1>12, <1>13, <1>14, <1>15, <1>16, <1>17 DEF Next, Step

\* What the three files hold at each point of save, rollback and reset, while at
\* most one fault hits between two moments at rest (writeConfigToPath, save, load).
THEOREM StoreInvariant == ASSUME MaxFaults = 1 PROVE Spec => []StoreInv
<1>1. Init => StoreInv
  BY CleanFacts, ConfigAssumption
     DEF Init, StoreInv, Paths, Config, Lkg, Temp, Loaded, Readable, Writing,
         LkgSpare, Repromoting, BootsWithItsConfig, Exposed
<1>2. TypeOK /\ StoreInv /\ [Next]_vars => StoreInv'
  BY StoreInvStep
<1>3. QED
  BY <1>1, <1>2, TypeCorrect, PTL DEF Spec

\* With one fault between two moments at rest a device boots with the last
\* configuration stored whole or one it was storing since, or, after a rollback or
\* a reset that lost the primary document and went no further, with the older
\* document under it.
THEOREM OneFaultIsSurvived ==
  ASSUME MaxFaults = 1 PROVE Spec => []BootsWithItsConfig
<1>1. StoreInv => BootsWithItsConfig
  BY DEF StoreInv
<1>2. QED
  BY <1>1, StoreInvariant, PTL

\* At every point of every operation that no fault has hit yet, the flash loads
\* to one of these.
THEOREM RecoverableThroughout ==
  ASSUME MaxFaults = 1 PROVE Spec => []AlwaysRecoverable
<1>1. StoreInv => AlwaysRecoverable
  BY DEF StoreInv, AlwaysRecoverable, Repromoting
<1>2. QED
  BY <1>1, StoreInvariant, PTL
===============================================================================
