-------------------------- MODULE BootHealth_proofs --------------------------
(***************************************************************************)
(* Proofs about BootHealth, for any settings, images and threshold.        *)
(***************************************************************************)
EXTENDS BootHealth, TLAPS

\* The boots whose early end is a strike.
Counting == phase \in {"session", "rolled", "wifi", "portal", "running"} /\ ~healthy

\* The boots whose end is excused, because the record says they are over.
Excused ==
    \/ phase \in {"provisioned", "flagging", "updating", "wiped", "stopping"}
    \/ phase = "running" /\ healthy

\* The strikes on record are the early ends seen so far.
StrikesAreFails ==
    /\ phase = "off" => fails = Counted(rec, slot)
    /\ phase = "loaded" => fw = slot /\ fails = Counted(rec, fw)
    /\ Counting => /\ rec.inProgress /\ ~rec.planned
                   /\ rec.fw = fw /\ rec.strikes = fails /\ fails < Threshold
    /\ Excused => ~rec.inProgress
    /\ phase \in {"loaded", "session", "rolled", "wifi", "portal"} => ~healthy
    /\ phase = "updating" => healthy

\* What the documents hold, by the number of saves since a healthy boot.
DocumentsProven ==
    /\ FirstSettings \in proven
    /\ saves = 0 => cfg \in proven
    /\ saves = 1 => lkg \in proven

BootInv ==
    /\ TypeOK
    /\ PlannedIsEnded
    /\ RecoveryIffCrashLoop
    /\ StrikesAreFails
    /\ DocumentsProven

-------------------------------------------------------------------------------

\* A record that says its boot is over counts no strike, for any image.
LEMMA OverCountsNothing ==
    ASSUME NEW r, NEW image, ~r.inProgress
    PROVE  Counted(r, image) = 0
  BY DEF Counted

\* The record of a device that has none is a record, of no boot in progress.
LEMMA FreshFacts == FreshRecord \in Record /\ FreshRecord.inProgress = FALSE
                    /\ FreshRecord.planned = FALSE
  BY BootAssumption DEF Record, FreshRecord

\* A record whose boot has ended is a record.
LEMMA EndedFacts ==
    ASSUME rec \in Record
    PROVE  Ended \in Record /\ Ended.inProgress = FALSE /\ Ended.planned = FALSE
  BY BootAssumption DEF Record, Ended

\* So is one that announces a restart.
LEMMA PreparedFacts ==
    ASSUME rec \in Record
    PROVE  Prepared \in Record /\ Prepared.inProgress = FALSE
  BY BootAssumption DEF Record, Prepared

\* The invariant holds at first.
LEMMA InitBootInv == Init => BootInv
  <1> SUFFICES ASSUME Init PROVE BootInv
      OBVIOUS
  <1>1. TypeOK
        <2>1. FlashOK
              BY BootAssumption, FreshFacts DEF Init, FlashOK
        <2>2. MemoryOK
              BY BootAssumption DEF Init, MemoryOK
        <2>3. HistoryOK
          <3>1. fails \in 0 .. Threshold /\ saves \in 0 .. 2
                BY BootAssumption DEF Init
          <3>2. loop \in BOOLEAN /\ commanded \in BOOLEAN /\ proven \subseteq Settings
                BY BootAssumption DEF Init
          <3> QED BY <3>1, <3>2 DEF HistoryOK
        <2> QED BY <2>1, <2>2, <2>3 DEF TypeOK
  <1>2. PlannedIsEnded /\ RecoveryIffCrashLoop
        BY FreshFacts DEF Init, PlannedIsEnded, RecoveryIffCrashLoop, Booted
  <1>3. StrikesAreFails
        BY FreshFacts, OverCountsNothing
        DEF Init, StrikesAreFails, Counting, Excused
  <1>4. DocumentsProven
        BY DEF Init, DocumentsProven
  <1> QED BY <1>1, <1>2, <1>3, <1>4 DEF BootInv

\* Every step keeps it.
LEMMA BootInvStep == BootInv /\ [Next]_vars => BootInv'
  <1> SUFFICES ASSUME BootInv, [Next]_vars PROVE BootInv'
      OBVIOUS
  <1> USE BootAssumption DEF BootInv, TypeOK, FlashOK, MemoryOK, HistoryOK, Record, PlannedIsEnded,
      RecoveryIffCrashLoop, Booted, StrikesAreFails, Counting, Excused, Counted,
      DocumentsProven, flash, memory, history
  <1>1. CASE PowerOn
        BY <1>1 DEF PowerOn
  <1>2. CASE BeginBootSession
        BY <1>2 DEF BeginBootSession
  <1>3. CASE Rollback
        BY <1>3 DEF Rollback
  <1>4. CASE ConsumeRecoveryBootRequest
        BY <1>4 DEF ConsumeRecoveryBootRequest
  <1>5. CASE JoinWifi
        BY <1>5 DEF JoinWifi
  <1>6. CASE OpenPortal
        BY <1>6 DEF OpenPortal
  <1>7. CASE Provision
        <2>1. FlashOK'
              BY <1>7, EndedFacts DEF Provision, Saved
        <2>2. MemoryOK'
              BY <1>7, EndedFacts DEF Provision, Saved
        <2>3. HistoryOK'
              BY <1>7, EndedFacts DEF Provision, Saved
        <2>4. PlannedIsEnded' /\ RecoveryIffCrashLoop'
              BY <1>7, EndedFacts DEF Provision, Saved
        <2>5. StrikesAreFails'
              BY <1>7, EndedFacts, OverCountsNothing DEF Provision, Saved
        <2>6. DocumentsProven'
              BY <1>7, EndedFacts DEF Provision, Saved
        <2> QED BY <2>1, <2>2, <2>3, <2>4, <2>5, <2>6
  <1>8. CASE MarkBootHealthy
        <2>1. FlashOK'
              BY <1>8, EndedFacts DEF MarkBootHealthy
        <2>2. MemoryOK'
              BY <1>8, EndedFacts DEF MarkBootHealthy
        <2>3. HistoryOK'
              BY <1>8, EndedFacts DEF MarkBootHealthy
        <2>4. PlannedIsEnded' /\ RecoveryIffCrashLoop'
              BY <1>8, EndedFacts DEF MarkBootHealthy
        <2>5. StrikesAreFails'
              BY <1>8, EndedFacts, OverCountsNothing DEF MarkBootHealthy
        <2>6. DocumentsProven'
              BY <1>8, EndedFacts DEF MarkBootHealthy
        <2> QED BY <2>1, <2>2, <2>3, <2>4, <2>5, <2>6
  <1>9. CASE \E s \in Settings : Save(s)
        <2>1. FlashOK'
              BY <1>9 DEF Save, Saved
        <2>2. MemoryOK'
              BY <1>9 DEF Save, Saved
        <2>3. HistoryOK'
              BY <1>9 DEF Save, Saved
        <2>4. PlannedIsEnded' /\ RecoveryIffCrashLoop'
              BY <1>9 DEF Save, Saved
        <2>5. StrikesAreFails'
              BY <1>9 DEF Save, Saved
        <2>6. DocumentsProven'
              BY <1>9 DEF Save, Saved
        <2> QED BY <2>1, <2>2, <2>3, <2>4, <2>5, <2>6
  <1>10. CASE Reboot
        <2>1. FlashOK'
              BY <1>10, PreparedFacts DEF Reboot, PrepareForPlannedRestart
        <2>2. MemoryOK'
              BY <1>10, PreparedFacts DEF Reboot, PrepareForPlannedRestart
        <2>3. HistoryOK'
              BY <1>10, PreparedFacts DEF Reboot, PrepareForPlannedRestart
        <2>4. PlannedIsEnded' /\ RecoveryIffCrashLoop'
              BY <1>10, PreparedFacts DEF Reboot, PrepareForPlannedRestart
        <2>5. StrikesAreFails'
              BY <1>10, PreparedFacts, OverCountsNothing DEF Reboot, PrepareForPlannedRestart
        <2>6. DocumentsProven'
              BY <1>10, PreparedFacts DEF Reboot, PrepareForPlannedRestart
        <2> QED BY <2>1, <2>2, <2>3, <2>4, <2>5, <2>6
  <1>11. CASE EnterRecoveryMode
        <2>1. FlashOK'
              BY <1>11, PreparedFacts DEF EnterRecoveryMode
        <2>2. MemoryOK'
              BY <1>11, PreparedFacts DEF EnterRecoveryMode
        <2>3. HistoryOK'
              BY <1>11, PreparedFacts DEF EnterRecoveryMode
        <2>4. PlannedIsEnded' /\ RecoveryIffCrashLoop'
              BY <1>11, PreparedFacts DEF EnterRecoveryMode
        <2>5. StrikesAreFails'
              BY <1>11, PreparedFacts, OverCountsNothing DEF EnterRecoveryMode
        <2>6. DocumentsProven'
              BY <1>11, PreparedFacts DEF EnterRecoveryMode
        <2> QED BY <2>1, <2>2, <2>3, <2>4, <2>5, <2>6
  <1>12. CASE FactoryReset
        <2>1. FlashOK'
              BY <1>12, FreshFacts DEF FactoryReset
        <2>2. MemoryOK'
              BY <1>12, FreshFacts DEF FactoryReset
        <2>3. HistoryOK'
              BY <1>12, FreshFacts DEF FactoryReset
        <2>4. PlannedIsEnded' /\ RecoveryIffCrashLoop'
              BY <1>12, FreshFacts DEF FactoryReset
        <2>5. StrikesAreFails'
              BY <1>12, FreshFacts, OverCountsNothing DEF FactoryReset
        <2>6. DocumentsProven'
              BY <1>12, FreshFacts DEF FactoryReset
        <2> QED BY <2>1, <2>2, <2>3, <2>4, <2>5, <2>6
  <1>13. CASE \E f \in Firmwares : UploadImage(f)
        BY <1>13 DEF UploadImage
  <1>14. CASE StartUpdate
        <2>1. FlashOK'
              BY <1>14, PreparedFacts DEF StartUpdate
        <2>2. MemoryOK'
              BY <1>14, PreparedFacts DEF StartUpdate
        <2>3. HistoryOK'
              BY <1>14, PreparedFacts DEF StartUpdate
        <2>4. PlannedIsEnded' /\ RecoveryIffCrashLoop'
              BY <1>14, PreparedFacts DEF StartUpdate
        <2>5. StrikesAreFails'
              BY <1>14, PreparedFacts, OverCountsNothing DEF StartUpdate
        <2>6. DocumentsProven'
              BY <1>14, PreparedFacts DEF StartUpdate
        <2> QED BY <2>1, <2>2, <2>3, <2>4, <2>5, <2>6
  <1>15. CASE RequestRecoveryBoot
        BY <1>15 DEF RequestRecoveryBoot
  <1>16. CASE RebootAfterwards
        <2>1. FlashOK'
              BY <1>16, PreparedFacts DEF RebootAfterwards, PrepareForPlannedRestart
        <2>2. MemoryOK'
              BY <1>16, PreparedFacts DEF RebootAfterwards, PrepareForPlannedRestart
        <2>3. HistoryOK'
              BY <1>16, PreparedFacts DEF RebootAfterwards, PrepareForPlannedRestart
        <2>4. PlannedIsEnded' /\ RecoveryIffCrashLoop'
              BY <1>16, PreparedFacts DEF RebootAfterwards, PrepareForPlannedRestart
        <2>5. StrikesAreFails'
              BY <1>16, PreparedFacts, OverCountsNothing DEF RebootAfterwards, PrepareForPlannedRestart
        <2>6. DocumentsProven'
              BY <1>16, PreparedFacts DEF RebootAfterwards, PrepareForPlannedRestart
        <2> QED BY <2>1, <2>2, <2>3, <2>4, <2>5, <2>6
  <1>17. CASE \E f \in Firmwares : UpdateSucceeds(f)
        BY <1>17 DEF UpdateSucceeds
  <1>18. CASE UpdateFails
        BY <1>18 DEF UpdateFails
  <1>19. CASE Restart
        BY <1>19 DEF Restart
  <1>20. CASE Crash \/ BadCrash
        <2>1. FlashOK'
              BY <1>20 DEF Crash, BadCrash, End, DiedEarly
        <2>2. MemoryOK'
              BY <1>20 DEF Crash, BadCrash, End, DiedEarly
        <2>3. HistoryOK'
          <3>1. (fails \in 0 .. Threshold)'
                BY <1>20 DEF Crash, BadCrash, End, DiedEarly
          <3>2. (loop \in BOOLEAN /\ proven \subseteq Settings /\ saves \in 0 .. 2)'
                BY <1>20 DEF Crash, BadCrash, End
          <3>3. (commanded \in BOOLEAN)'
                BY <1>20 DEF Crash, BadCrash, End
          <3> QED BY <3>1, <3>2, <3>3
        <2>4. PlannedIsEnded' /\ RecoveryIffCrashLoop'
              BY <1>20 DEF Crash, BadCrash, End, DiedEarly
        <2>5. StrikesAreFails'
              BY <1>20, OverCountsNothing DEF Crash, BadCrash, End, DiedEarly
        <2>6. DocumentsProven'
              BY <1>20 DEF Crash, BadCrash, End, DiedEarly
        <2> QED BY <2>1, <2>2, <2>3, <2>4, <2>5, <2>6
  <1>21. CASE UNCHANGED vars
        BY <1>21 DEF vars
  <1> QED BY <1>1, <1>2, <1>3, <1>4, <1>5, <1>6, <1>7, <1>8, <1>9, <1>10, <1>11,
             <1>12, <1>13, <1>14, <1>15, <1>16, <1>17, <1>18, <1>19, <1>20, <1>21
          DEF Next, SetupStep, Operator, Afterwards

\* The inductive invariant holds of every reachable state.
THEOREM BootInvariant == Spec => []BootInv
  BY InitBootInv, BootInvStep, PTL DEF Spec

\* Every reachable state of the boot logic is well formed; in particular the
\* strike count never passes the threshold (ConfigManager::beginBootSession).
THEOREM TypeCorrect == Spec => []TypeOK
  <1>1. BootInv => TypeOK  BY DEF BootInv
  <1> QED BY BootInvariant, <1>1, PTL

\* Auto-recovery fires in exactly the boots that follow Threshold early ends in
\* a row on one image (ConfigManager::beginBootSession).
THEOREM CrashLoopsAreFound == Spec => []RecoveryIffCrashLoop
  <1>1. BootInv => RecoveryIffCrashLoop  BY DEF BootInv
  <1> QED BY BootInvariant, <1>1, PTL

\* The planned-restart branches of beginBootSession and setup() are never taken.
THEOREM PlannedBranchIsDead == Spec => []PlannedIsEnded
  <1>1. BootInv => PlannedIsEnded  BY DEF BootInv
  <1> QED BY BootInvariant, <1>1, PTL

\* A rollback that undoes one save returns to settings a boot ran healthy with
\* (ConfigManager::restoreLastKnownGood).
THEOREM OneSaveCanBeUndone == Spec => OneSaveRollback
  <1>1. BootInv => [Rollback /\ autoRec /\ saves = 1 => cfg' \in proven]_vars
    <2> SUFFICES ASSUME BootInv, Rollback, autoRec, saves = 1 PROVE cfg' \in proven
        OBVIOUS
    <2>1. lkg \in proven /\ proven \subseteq Settings
          BY DEF BootInv, DocumentsProven, TypeOK, HistoryOK
    <2>2. lkg # NoSettings
          BY <2>1, BootAssumption
    <2> QED BY <2>1, <2>2 DEF Rollback
  <1> QED BY BootInvariant, <1>1, PTL DEF Spec, OneSaveRollback
===============================================================================
