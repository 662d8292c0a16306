------------------------------- MODULE MCServices -------------------------------
(***************************************************************************)
(* The event log, the link to the hub, the Wi-Fi and UDP control.  None    *)
(* reads a variable of another here, so that interleaving them adds no     *)
(* behaviour to any: they are explored side by side, one to a behaviour,   *)
(* and the others rest in their initial states.                            *)
(***************************************************************************)
EXTENDS EventLog, MCHubLink, WifiLink, UdpControl

VARIABLE part \* whose behaviour it is

vars == <<part, logVars, linkVars, wifiVars, udpVars>>

MCEntry(n, b, e, p) == [seq |-> n, boot |-> b, ev |-> e, printable |-> p]

\* Left by an earlier firmware: numbered, with a torn entry and without; not
\* numbered; and too long.
MCGood == <<MCEntry(1, 1, "a", TRUE), MCEntry(2, 1, "b", TRUE), MCEntry(3, 2, "a", TRUE)>>

MCFirst == {MCGood,
            <<MCEntry(1, 1, "a", FALSE)>> \o Tail(MCGood),
            <<MCEntry(0, 0, "a", TRUE), MCEntry(0, 0, "b", TRUE)>>,
            Append(MCGood, MCEntry(4, 2, "a", TRUE))}

MCBuiltin == <<"bench">>

\* A part that rests has one initial state.
AtRest(p) ==
    /\ p # "log"  => fs = [q \in Paths |-> Absent]
    /\ p # "hub"  => device = "none" /\ enrollment = "none"
    /\ p # "wifi" => kept = <<>>
    /\ p # "udp"  => deviceToken = NoToken

Init ==
    /\ LogInit /\ LinkInit /\ WifiInit /\ UdpInit
    /\ part \in {"log", "hub", "wifi", "udp"}
    /\ AtRest(part)

In(p) == part = p /\ part' = p

Rests(p) ==
    /\ p # "log"  => UNCHANGED logVars
    /\ p # "hub"  => UNCHANGED linkVars
    /\ p # "wifi" => UNCHANGED wifiVars
    /\ p # "udp"  => UNCHANGED udpVars

Next ==
    \/ In("log") /\ LogNext /\ Rests("log")
    \/ In("hub") /\ LinkNext /\ Rests("hub")
    \/ In("wifi") /\ WifiNext /\ Rests("wifi")
    \/ In("udp") /\ UdpNext /\ Rests("udp")

\* The fairness of each part.
Fairness ==
    /\ WF_vars(In("log") /\ BootStep /\ Rests("log"))
    /\ WF_vars(In("log") /\ PersistStep /\ Rests("log"))
    /\ WF_vars(In("log") /\ Settle /\ Rests("log"))
    /\ WF_vars(In("log") /\ LoopPersist /\ Rests("log"))
    /\ WF_vars(In("log") /\ (\E spare \in BOOLEAN : FlushLast(spare)) /\ Rests("log"))
    /\ WF_vars(In("hub") /\ Pass /\ Rests("hub"))
    /\ WF_vars(In("hub") /\ LinkTick /\ Rests("hub"))
    /\ WF_vars(In("wifi") /\ WifiSteps /\ Rests("wifi"))
    /\ WF_vars(In("wifi") /\ WifiTick /\ Rests("wifi"))

Spec == Init /\ [][Next]_vars /\ Fairness

\* The type of the state.
TypeOK == LogTypeOK /\ LinkTypeOK /\ WifiTypeOK /\ UdpTypeOK
===============================================================================
