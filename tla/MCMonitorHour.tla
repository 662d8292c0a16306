----------------------------- MODULE MCMonitorHour -----------------------------
(***************************************************************************)
(* Values for HourWindow: a watchdog that needs one failed look to arm a   *)
(* cycle, and may arm two an hour.                                         *)
(***************************************************************************)
EXTENDS HourWindow

MCHasty == [kind |-> "internet", target |-> TRUE, threshold |-> 1, off |-> 1,
            holdoff |-> 1, cooldown |-> 1, maxIncident |-> 3, maxHour |-> 2]

MCProfiles == {MCHasty}

MCCap == [boot |-> 1, hour |-> 14, check |-> 1, fail |-> 1, off |-> 1,
          holdoff |-> 1, cooldown |-> 1]
===============================================================================
