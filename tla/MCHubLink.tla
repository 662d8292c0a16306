------------------------------- MODULE MCHubLink --------------------------------
\* Values of HubLink's constants that a configuration cannot write down.
EXTENDS HubLink

MCFirstAfter == [c \in Steady |-> 1]

MCEvery == [heartbeat |-> 3, poll |-> 3, firmware |-> 4]
===============================================================================
