----------------------------- MODULE MCConfigStore -----------------------------
(***************************************************************************)
(* Instance of ConfigStore: three settings, one of which validateConfig    *)
(* clamps to another, and two identities besides none.                     *)
(***************************************************************************)
EXTENDS ConfigStore

MCBehaviors == {"factory", "tuned", "outOfRange"}
MCClamp == [b \in MCBehaviors |-> IF b = "outOfRange" THEN "factory" ELSE b]
===============================================================================
