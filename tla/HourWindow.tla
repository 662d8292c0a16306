-------------------------------- MODULE HourWindow --------------------------------
(***************************************************************************)
(* How many cycles of the watchdog fit in an hour, whichever hour: counted *)
(* by remembering when each began, next to the count of Monitor, which     *)
(* starts over at fixed times.                                             *)
(***************************************************************************)
EXTENDS Monitor, FiniteSets

ASSUME HourAssumption == Hour > 0

VARIABLE cuts  \* history: the ages of the cycles armed in the last Hour ticks

HourInit == Init /\ cuts = {}

\* The configuration stays, and the device does not reboot.
HourNext ==
    \/ Tick /\ cuts' = {c + 1 : c \in {a \in cuts : a < Hour - 1}}
    \/ Arm /\ cuts' = cuts \union {0}
    \/ Loop /\ ~Arm /\ UNCHANGED cuts
    \/ Commands /\ cfg' = cfg /\ UNCHANGED cuts

HourSpec == HourInit /\ [][HourNext]_<<vars, cuts>>

-------------------------------------------------------------------------------
\* Properties

\* The cycles of the last hour that were armed before the hourly count started over,
\* and those armed since.
Before == {c \in cuts : c > age["hour"]}
After  == {c \in cuts : c <= age["hour"]}

\* The hourly count starts over at fixed times (monitor_engine.cpp:42), so what
\* holds of any hour is not the configured bound (SPECS.md:126, "Max cycles per
\* rolling hour") but twice as many.
TwoWindows == Cardinality(cuts) <= 2 * cfg.maxHour
===============================================================================
