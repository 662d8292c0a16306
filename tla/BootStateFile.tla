---------------------------- MODULE BootStateFile ----------------------------
(***************************************************************************)
(* /bootstate.json, the record that counts failed boots, one LittleFS      *)
(* operation per step (src/src/config_manager.cpp, loadBootStateRecord and *)
(* saveBootStateRecord).  Every user of the record loads it, changes it    *)
(* and saves it; what the change is does not matter here and BootHealth    *)
(* models it.  The power may fail between any two steps, and the flash may *)
(* be full when a file is closed.                                          *)
(***************************************************************************)
EXTENDS FlashFiles

CONSTANTS Records,     \* the contents of StoredBootState
          NoRecord,    \* its default, StoredBootState()
          NoWrite      \* no save is under way

ASSUME RecordsAssumption ==
    /\ NoRecord \in Records
    /\ Absent \notin Records /\ Torn \notin Records /\ NoWrite \notin Records
    /\ Absent # Torn

VARIABLES recordFiles,  \* the flash
          record,       \* the StoredBootState the call works on
          recordPc,     \* where in load ; change ; save the firmware is
          recordOk      \* what the last save returned

recordVars == <<recordFiles, record, recordPc, recordOk>>

Primary     == "/bootstate.json"
Tmp         == "/bootstate.json.tmp"
RecordPaths == {Primary, Tmp}

\* The type of the state: the caller never gets an unreadable record.
RecordTypeOK ==
    /\ recordFiles \in [RecordPaths -> Records \union {Absent, Torn}]
    /\ record \in Records
    /\ recordPc \in {"idle", "adopted", "loaded", "open", "writing", "discard",
                     "closed", "rename"}
    /\ recordOk \in BOOLEAN

RecordInit ==
    /\ recordFiles = [p \in RecordPaths |-> Absent]
    /\ record = NoRecord
    /\ recordPc = "idle"
    /\ recordOk = FALSE

Parsed(content) == IF content \in Records THEN content ELSE NoRecord

\* Mutant of LoadAdopt: discards the temporary file in every case, the bug that
\* config_manager.cpp:28 describes.
LoadAdoptForgets ==
    /\ recordPc = "idle"
    /\ recordFiles' = Removed(recordFiles, Tmp)
    /\ recordPc' = "adopted"
    /\ UNCHANGED <<record, recordOk>>

\* A save that was cut between remove and rename left the whole record in the
\* temporary file: adopt it; otherwise a temporary file is a leftover.
LoadAdopt ==
    /\ recordPc = "idle"
    /\ recordFiles' = IF ~Exists(recordFiles, Primary)
                      THEN Renamed(recordFiles, Tmp, Primary)
                      ELSE Removed(recordFiles, Tmp)
    /\ recordPc' = "adopted"
    /\ UNCHANGED <<record, recordOk>>

\* Mutant: the caller gets what is in the file, whatever it is.
LoadReadRaw ==
    /\ recordPc = "adopted"
    /\ record' = recordFiles[Primary]
    /\ UNCHANGED <<recordFiles, recordOk>>
    /\ recordPc' = "loaded"

\* Read it; a zero-byte or oversized file is removed, one that does not parse
\* stays; either way the caller gets the default.
LoadRead ==
    /\ recordPc = "adopted"
    /\ record' = Parsed(recordFiles[Primary])
    /\ \/ UNCHANGED recordFiles
       \/ recordFiles[Primary] = Torn /\ recordFiles' = Removed(recordFiles, Primary)
    /\ recordPc' = "loaded"
    /\ UNCHANGED recordOk

\* The caller has changed the record to r and calls saveBootStateRecord.
SaveBegin(r) ==
    /\ recordPc = "loaded"
    /\ record' = r
    /\ recordFiles' = Removed(recordFiles, Tmp)
    /\ recordPc' = "open"
    /\ UNCHANGED recordOk

SaveOpen ==
    /\ recordPc = "open"
    /\ recordFiles' = Opened(recordFiles, Tmp)
    /\ recordPc' = "writing"
    /\ UNCHANGED <<record, recordOk>>

\* if (!file) return false
SaveOpenFails ==
    /\ recordPc = "open"
    /\ recordPc' = "idle"
    /\ recordOk' = FALSE
    /\ UNCHANGED <<recordFiles, record>>

\* serializeJson and close.  On a full flash the serializer reports bytes that
\* never reach the file, or none at all; only "none" is noticed.
SaveClose ==
    /\ recordPc = "writing"
    /\ \/ recordFiles' = Closed(recordFiles, Tmp, record) /\ recordPc' = "closed"
       \/ recordPc' \in {"closed", "discard"} /\ UNCHANGED recordFiles
    /\ UNCHANGED <<record, recordOk>>

SaveDiscard ==
    /\ recordPc = "discard"
    /\ recordFiles' = Removed(recordFiles, Tmp)
    /\ recordPc' = "idle"
    /\ recordOk' = FALSE
    /\ UNCHANGED record

SaveRemove ==
    /\ recordPc = "closed"
    /\ recordFiles' = Removed(recordFiles, Primary)
    /\ recordPc' = "rename"
    /\ UNCHANGED <<record, recordOk>>

SaveRename ==
    /\ recordPc = "rename"
    /\ recordFiles' = Renamed(recordFiles, Tmp, Primary)
    /\ recordPc' = "idle"
    /\ recordOk' = TRUE
    /\ UNCHANGED record

\* Power loss, watchdog, exception, ESP.restart(): RAM is gone.
RecordPowerLoss ==
    /\ recordPc' = "idle"
    /\ record' = NoRecord
    /\ recordOk' = FALSE
    /\ UNCHANGED recordFiles

RecordStep ==
    \/ LoadAdopt
    \/ LoadRead
    \/ \E r \in Records : SaveBegin(r)
    \/ SaveOpen
    \/ SaveOpenFails
    \/ SaveClose
    \/ SaveDiscard
    \/ SaveRemove
    \/ SaveRename

RecordNext == RecordStep \/ RecordPowerLoss

RecordSpec == RecordInit /\ [][RecordNext]_recordVars

-------------------------------------------------------------------------------
\* What the next loadBootStateRecord would return.
Surviving ==
    Parsed(IF Exists(recordFiles, Primary) THEN recordFiles[Primary] ELSE recordFiles[Tmp])

Saving == recordPc \in {"open", "writing", "discard", "closed", "rename"}

\* For the proofs: what the temporary file is at each point of load ; change ; save,
\* whatever crashes came before: gone before a save begins, and never anything
\* but the record being saved, or a torn file, when it replaces the primary.
RecordInv ==
    /\ recordPc \in {"adopted", "loaded", "open"} => recordFiles[Tmp] = Absent
    /\ recordPc \in {"writing", "discard"} => recordFiles[Tmp] = Torn
    /\ recordPc \in {"closed", "rename"} => recordFiles[Tmp] \in {record, Torn}
    /\ recordPc = "rename" => recordFiles[Primary] = Absent

Cell == INSTANCE AtomicCell WITH
            Values  <- Records,
            Initial <- NoRecord,
            cell    <- Surviving,
            writing <- IF Saving THEN record ELSE NoWrite,
            cut     <- recordPc \in {"closed", "rename"} /\ recordFiles[Tmp] = Torn,
            ok      <- recordOk

\* PROPERTY.  Over any interleaving of saves, power losses and full disks the two
\* files behave as one cell that is replaced in one instant: no sequence of
\* crashes inside saveBootStateRecord (config_manager.cpp:65) loses the record,
\* mixes two of them or brings an older one back.  Only a full flash costs the
\* record, then and there, because nobody looks at what the close wrote (line 90
\* notices no more than an empty serialization): line 82 promises otherwise.
CellSpec == Cell!Spec
===============================================================================
