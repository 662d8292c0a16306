----------------------------- MODULE RecentEvents -----------------------------
(***************************************************************************)
(* What the event log promises, without files, sequence numbers or         *)
(* timers: a short history of what the device said, held in memory, and a  *)
(* stored copy of it that is replaced in one instant, never mixed with the *)
(* one before, and that the next boot reads.                               *)
(***************************************************************************)
EXTENDS Sequences, Naturals

CONSTANTS Events,   \* what can be said
          Capacity, \* events held
          First     \* the histories the flash may hold at first

VARIABLES stored,   \* the history on the flash
          held,     \* the history in memory
          reading   \* has this boot read the flash?

vars == <<stored, held, reading>>

\* The newest, and the oldest, events of s that fit.
Newest(s) == IF Len(s) > Capacity
             THEN SubSeq(s, Len(s) - Capacity + 1, Len(s)) ELSE s
Oldest(s) == IF Len(s) > Capacity THEN SubSeq(s, 1, Capacity) ELSE s

Init ==
    /\ stored \in First
    /\ held = <<>>
    /\ reading = FALSE

\* A boot that cannot read or parse the history starts an empty one.
Read ==
    /\ ~reading
    /\ reading' = TRUE
    /\ held' \in {<<>>, Oldest(stored)}
    /\ UNCHANGED stored

Say(e) ==
    /\ reading
    /\ held' = Newest(Append(held, e))
    /\ UNCHANGED <<stored, reading>>

Store ==
    /\ reading
    /\ stored' = held
    /\ UNCHANGED <<held, reading>>

\* The flash is full, and nobody notices.
Lose ==
    /\ reading
    /\ stored' = <<>>
    /\ UNCHANGED <<held, reading>>

Stop ==
    /\ held' = <<>>
    /\ reading' = FALSE
    /\ UNCHANGED stored

Next ==
    \/ Read
    \/ \E e \in Events : Say(e)
    \/ Store
    \/ Lose
    \/ Stop

Spec == Init /\ [][Next]_vars
===============================================================================
