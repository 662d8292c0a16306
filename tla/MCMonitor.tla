------------------------------ MODULE MCMonitor ------------------------------
(***************************************************************************)
(* Small profiles and timers for Monitor.                                  *)
(***************************************************************************)
EXTENDS Monitor

MCInternet == [kind |-> "internet", target |-> TRUE, threshold |-> 2, off |-> 1,
               holdoff |-> 1, cooldown |-> 2, maxIncident |-> 1, maxHour |-> 2]

MCUnset == [kind |-> "device", target |-> FALSE, threshold |-> 1, off |-> 2,
            holdoff |-> 1, cooldown |-> 1, maxIncident |-> 2, maxHour |-> 1]

MCPlug == [MCUnset EXCEPT !.kind = "plug"]

MCProfiles == {MCInternet, MCPlug, MCUnset}

\* Two modes with a target each.
MCDevice == [MCInternet EXCEPT !.kind = "device"]

MCTargets == {MCInternet, MCDevice}

MCCap == [boot |-> 1, hour |-> 4, check |-> 1, fail |-> 2, off |-> 2,
          holdoff |-> 1, cooldown |-> 2]
===============================================================================
