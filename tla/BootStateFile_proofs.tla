------------------------- MODULE BootStateFile_proofs -------------------------
(***************************************************************************)
(* The two files of BootStateFile implement one atomic cell, for every set *)
(* of records and any number of power losses and full disks.  The          *)
(* argument: RecordInv says what the temporary file holds at each point of *)
(* load ; change ; save.  With it, exactly one step of a save changes what *)
(* a load would return: the close of the temporary file when there is no   *)
(* primary, else the removal of the primary.  It changes it to the record  *)
(* being saved, or, if the temporary file is torn, to the default.         *)
(***************************************************************************)
EXTENDS BootStateFile, TLAPS

\* Every variable keeps its type (StoredBootState, config_manager.cpp:14).
THEOREM TypeCorrect == RecordSpec => []RecordTypeOK
<1>1. RecordInit => RecordTypeOK
  BY RecordsAssumption DEF RecordInit, RecordTypeOK
<1>2. RecordTypeOK /\ [RecordNext]_recordVars => RecordTypeOK'
  <2> SUFFICES ASSUME RecordTypeOK, [RecordNext]_recordVars PROVE RecordTypeOK'
    OBVIOUS
  <2> USE RecordsAssumption DEF RecordTypeOK, RecordPaths, Primary, Tmp
  <2>1. CASE LoadAdopt
    BY <2>1 DEF LoadAdopt, Renamed, Removed, Exists
  <2>2. CASE LoadRead
    BY <2>2 DEF LoadRead, Removed, Parsed
  <2>3. ASSUME NEW r \in Records, SaveBegin(r) PROVE RecordTypeOK'
    BY <2>3 DEF SaveBegin, Removed
  <2>4. CASE SaveOpen
    BY <2>4 DEF SaveOpen, Opened
  <2>5. CASE SaveOpenFails
    BY <2>5 DEF SaveOpenFails
  <2>6. CASE SaveClose
    BY <2>6 DEF SaveClose, Closed
  <2>7. CASE SaveDiscard
    BY <2>7 DEF SaveDiscard, Removed
  <2>8. CASE SaveRemove
    BY <2>8 DEF SaveRemove, Removed
  <2>9. CASE SaveRename
    BY <2>9 DEF SaveRename, Renamed, Exists
  <2>10. CASE RecordPowerLoss
    BY <2>10 DEF RecordPowerLoss
  <2>11. CASE UNCHANGED recordVars
    BY <2>11 DEF recordVars
  <2>12. QED
    BY <2>1, <2>2, <2>3, <2>4, <2>5, <2>6, <2>7, <2>8, <2>9, <2>10, <2>11
       DEF RecordNext, RecordStep
<1>3. QED
  BY <1>1, <1>2, PTL DEF RecordSpec

\* RecordInv is inductive.
LEMMA RecordInvStep ==
  ASSUME RecordTypeOK, RecordInv, [RecordNext]_recordVars
  PROVE  RecordInv'
<1> USE RecordsAssumption DEF RecordTypeOK, RecordInv, RecordPaths, Primary, Tmp
<1>1. CASE LoadAdopt
  BY <1>1 DEF LoadAdopt, Renamed, Removed, Exists
<1>2. CASE LoadRead
  BY <1>2 DEF LoadRead, Removed, Parsed
<1>3. ASSUME NEW r \in Records, SaveBegin(r) PROVE RecordInv'
  BY <1>3 DEF SaveBegin, Removed
<1>4. CASE SaveOpen
  BY <1>4 DEF SaveOpen, Opened
<1>5. CASE SaveOpenFails
  BY <1>5 DEF SaveOpenFails
<1>6. CASE SaveClose
  BY <1>6 DEF SaveClose, Closed
<1>7. CASE SaveDiscard
  BY <1>7 DEF SaveDiscard, Removed
<1>8. CASE SaveRemove
  BY <1>8 DEF SaveRemove, Removed
<1>9. CASE SaveRename
  BY <1>9 DEF SaveRename, Renamed, Exists
<1>10. CASE RecordPowerLoss
  BY <1>10 DEF RecordPowerLoss
<1>11. CASE UNCHANGED recordVars
  BY <1>11 DEF recordVars
<1>12. QED
  BY <1>1, <1>2, <1>3, <1>4, <1>5, <1>6, <1>7, <1>8, <1>9, <1>10, <1>11
     DEF RecordNext, RecordStep

\* What the temporary file holds at each point of a save.
THEOREM RecordInvariant == RecordSpec => []RecordInv
<1>1. RecordInit => RecordInv
  BY RecordsAssumption DEF RecordInit, RecordInv, RecordPaths, Primary, Tmp
<1>2. RecordTypeOK /\ RecordInv /\ [RecordNext]_recordVars => RecordInv'
  BY RecordInvStep
<1>3. QED
  BY <1>1, <1>2, TypeCorrect, PTL DEF RecordSpec

\* Each step of the two files is a step of the cell, or none of its business.
LEMMA CellStep ==
  ASSUME RecordTypeOK, RecordInv, [RecordNext]_recordVars
  PROVE  [Cell!Next]_Cell!vars
<1> DEFINE Cutting == recordPc \in {"closed", "rename"} /\ recordFiles[Tmp] = Torn
<1> USE RecordsAssumption
    DEF RecordTypeOK, RecordInv, RecordPaths, Primary, Tmp, Surviving, Saving, Exists
<1>1. CASE LoadAdopt
  <2>1. Surviving' = Surviving /\ ~Saving /\ ~Saving' /\ ~Cutting /\ ~Cutting' /\ recordOk' = recordOk
    BY <1>1 DEF LoadAdopt, Renamed, Removed, Parsed
  <2>2. QED
    BY <2>1 DEF Cell!vars
<1>2. CASE LoadRead
  <2>1. Surviving' = Surviving /\ ~Saving /\ ~Saving' /\ ~Cutting /\ ~Cutting' /\ recordOk' = recordOk
    BY <1>2 DEF LoadRead, Removed, Parsed
  <2>2. QED
    BY <2>1 DEF Cell!vars
<1>3. ASSUME NEW r \in Records, SaveBegin(r) PROVE Cell!Next
  <2>1. /\ Surviving' = Surviving /\ ~Saving /\ Saving' /\ recordOk' = recordOk /\ record' = r
        /\ ~Cutting /\ ~Cutting'
    BY <1>3 DEF SaveBegin, Removed, Parsed
  <2>2. Cell!Begin(r)
    BY <2>1 DEF Cell!Begin
  <2>3. QED
    BY <2>2 DEF Cell!Next
<1>4. CASE SaveOpen
  <2>1. /\ Surviving' = Surviving /\ Saving /\ Saving' /\ recordOk' = recordOk /\ record' = record
        /\ ~Cutting /\ ~Cutting'
    BY <1>4 DEF SaveOpen, Opened, Parsed
  <2>2. QED
    BY <2>1 DEF Cell!vars
<1>5. CASE SaveOpenFails
  <2>1. Surviving' = Surviving /\ ~Saving' /\ recordOk' = FALSE /\ ~Cutting'
    BY <1>5 DEF SaveOpenFails
  <2>2. QED
    BY <2>1 DEF Cell!Abandon, Cell!Next
<1>6. CASE SaveClose
  <2>1. Saving /\ Saving' /\ recordOk' = recordOk /\ record' = record /\ record # NoWrite /\ ~Cutting
    BY <1>6 DEF SaveClose
  <2>2. CASE recordFiles' = Closed(recordFiles, Tmp, record) /\ recordPc' = "closed"
    <3>1. Surviving' \in {Surviving, record} /\ ~Cutting'
      BY <1>6, <2>2 DEF SaveClose, Closed, Parsed
    <3>2. QED
      BY <2>1, <3>1 DEF Cell!vars, Cell!Commit, Cell!Next
  <2>3. CASE recordFiles' = recordFiles
    <3>1. Surviving' = Surviving /\ Cutting' \in BOOLEAN
      BY <1>6, <2>3 DEF SaveClose, Parsed
    <3>2. QED
      BY <2>1, <3>1 DEF Cell!vars, Cell!Cut, Cell!Next
  <2>4. QED
    BY <1>6, <2>2, <2>3 DEF SaveClose
<1>7. CASE SaveDiscard
  <2>1. Surviving' = Surviving /\ ~Saving' /\ recordOk' = FALSE /\ ~Cutting'
    BY <1>7 DEF SaveDiscard, Removed, Parsed
  <2>2. QED
    BY <2>1 DEF Cell!Abandon, Cell!Next
<1>8. CASE SaveRemove
  <2>1. /\ Saving /\ Saving' /\ recordOk' = recordOk /\ record' = record /\ record # NoWrite
        /\ Cutting' = Cutting
    BY <1>8 DEF SaveRemove, Removed
  <2>2. Surviving' = IF Cutting THEN NoRecord ELSE record
    BY <1>8 DEF SaveRemove, Removed, Parsed
  <2>3. QED
    BY <2>1, <2>2 DEF Cell!Commit, Cell!Lose, Cell!Next
<1>9. CASE SaveRename
  <2>1. Surviving' = Surviving /\ Surviving = IF Cutting THEN NoRecord ELSE record
    BY <1>9 DEF SaveRename, Renamed, Parsed
  <2>2. Saving /\ ~Saving' /\ recordOk' = TRUE /\ record # NoWrite /\ ~Cutting'
    BY <1>9 DEF SaveRename
  <2>3. QED
    BY <2>1, <2>2 DEF Cell!Return, Cell!Next
<1>10. CASE RecordPowerLoss
  <2>1. Surviving' = Surviving /\ ~Saving' /\ recordOk' = FALSE /\ ~Cutting'
    BY <1>10 DEF RecordPowerLoss
  <2>2. QED
    BY <2>1 DEF Cell!Abandon, Cell!Next
<1>11. CASE UNCHANGED recordVars
  BY <1>11 DEF recordVars, Cell!vars
<1>12. QED
  BY <1>1, <1>2, <1>3, <1>4, <1>5, <1>6, <1>7, <1>8, <1>9, <1>10, <1>11
     DEF RecordNext, RecordStep

\* The remove/rename dance of saveBootStateRecord and the adoption in
\* loadBootStateRecord (config_manager.cpp:26 to 96) are an atomic replacement.
THEOREM ImplementsCell == RecordSpec => CellSpec
<1>1. RecordInit => Cell!Init
  BY RecordsAssumption
     DEF RecordInit, Cell!Init, Surviving, Saving, Parsed, Exists, RecordPaths, Primary, Tmp
<1>2. RecordTypeOK /\ RecordInv /\ [RecordNext]_recordVars => [Cell!Next]_Cell!vars
  BY CellStep
<1>3. QED
  BY <1>1, <1>2, TypeCorrect, RecordInvariant, PTL DEF RecordSpec, CellSpec, Cell!Spec
===============================================================================
