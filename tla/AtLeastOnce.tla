------------------------------ MODULE AtLeastOnce ------------------------------
(***************************************************************************)
(* Delivery of commands at least once: a command that is not settled may   *)
(* be carried out, any number of times; one that was carried out may be    *)
(* settled, and is never carried out again.                                *)
(***************************************************************************)
EXTENDS Naturals

CONSTANT Ids

VARIABLES open,   \* the issued commands that are not settled
          runs    \* how often each was carried out

vars == <<open, runs>>

Init == open = {} /\ runs = [i \in Ids |-> 0]

Issue(i) == i \notin open /\ runs[i] = 0 /\ open' = open \union {i} /\ UNCHANGED runs

CarryOut(i) == i \in open /\ runs' = [runs EXCEPT ![i] = @ + 1] /\ UNCHANGED open

Settle(i) == i \in open /\ runs[i] > 0 /\ open' = open \ {i} /\ UNCHANGED runs

Next == \E i \in Ids : Issue(i) \/ CarryOut(i) \/ Settle(i)

Spec == Init /\ [][Next]_vars
===============================================================================
