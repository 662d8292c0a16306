------------------------------ MODULE PowerCycle ------------------------------
(***************************************************************************)
(* What the watchdog promises about the outlet.  It cuts power only in a   *)
(* cycle it armed, gives power back in that cycle, then holds off before   *)
(* it watches again; it locks itself out only from watching, with no cycle *)
(* under way.  Commands may switch the outlet at any time, and a reboot    *)
(* may drop everything.                                                    *)
(***************************************************************************)
VARIABLES phase,  \* "watching", "armed", "off", "holdoff" or "lockout"
          outlet  \* is it powered?

vars == <<phase, outlet>>

Init == phase = "watching" /\ outlet \in BOOLEAN

Arm == phase = "watching" /\ phase' = "armed" /\ UNCHANGED outlet

Cut == phase = "armed" /\ phase' = "off" /\ outlet' = FALSE

GiveBack == phase = "off" /\ phase' = "holdoff" /\ outlet' = TRUE

LockOut == phase = "watching" /\ phase' = "lockout" /\ UNCHANGED outlet

Resume == phase \in {"holdoff", "lockout"} /\ phase' = "watching" /\ UNCHANGED outlet

Command == outlet' \in BOOLEAN /\ UNCHANGED phase

Reboot == phase' = "watching" /\ outlet' \in BOOLEAN

Next == Arm \/ Cut \/ GiveBack \/ LockOut \/ Resume \/ Command \/ Reboot

Spec == Init /\ [][Next]_vars
===============================================================================
