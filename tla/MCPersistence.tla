----------------------------- MODULE MCPersistence -----------------------------
(***************************************************************************)
(* The two objects that ConfigManager keeps on flash, the configuration    *)
(* with its last-known-good copy and the boot record, and the heap watch,  *)
(* which remembers its last restart in that record.  None reads a variable *)
(* of another here, so that interleaving them adds no behaviour to any:    *)
(* they are explored side by side, one to a behaviour, and the others rest *)
(* in their initial states.                                                *)
(***************************************************************************)
EXTENDS MCConfigStore, BootStateFile, HeapWatch

VARIABLE part \* whose behaviour it is

persistenceVars == <<part, vars, recordVars, watchVars>>

PersistenceInit ==
    /\ Init /\ RecordInit /\ WatchInit
    /\ part \in {"config", "record", "watch"}

PersistenceNext ==
    /\ UNCHANGED part
    /\ \/ part = "config" /\ Next /\ UNCHANGED <<recordVars, watchVars>>
       \/ part = "record" /\ RecordNext /\ UNCHANGED <<vars, watchVars>>
       \/ part = "watch" /\ WatchNext /\ UNCHANGED <<vars, recordVars>>

PersistenceSpec == PersistenceInit /\ [][PersistenceNext]_persistenceVars

\* The type of the state.
PersistentTypeOK == TypeOK /\ RecordTypeOK /\ WatchTypeOK
===============================================================================
