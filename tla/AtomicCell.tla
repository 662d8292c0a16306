------------------------------ MODULE AtomicCell ------------------------------
(***************************************************************************)
(* What the firmware promises of a document it keeps on flash: a cell that *)
(* is replaced in one step.  Between the call and the return of a write    *)
(* the new value takes effect at most once, at one instant; a write that   *)
(* returns success has taken effect; a power loss abandons the write       *)
(* either before or after that instant, and changes nothing else.          *)
(* Only a flash that is full breaks the promise: a write it cuts short may *)
(* lose the value, though never to an older one, and still return success. *)
(***************************************************************************)
CONSTANTS Values,    \* the documents
          Initial,   \* what is read when nothing was ever written
          NoWrite    \* no write is under way

VARIABLES cell,      \* what a reader of the flash would get now
          writing,   \* the document a call is writing, or NoWrite
          cut,       \* did a full flash cut that write short?
          ok         \* what the last write that ended returned

vars == <<cell, writing, cut, ok>>

Init ==
    /\ cell = Initial
    /\ writing = NoWrite
    /\ cut = FALSE
    /\ ok = FALSE

Begin(v) ==
    /\ writing = NoWrite
    /\ writing' = v
    /\ UNCHANGED <<cell, cut, ok>>

Commit ==
    /\ writing # NoWrite /\ ~cut
    /\ cell' = writing
    /\ UNCHANGED <<writing, cut, ok>>

\* The flash is full, and nobody notices.
Cut ==
    /\ writing # NoWrite
    /\ cut' = TRUE
    /\ UNCHANGED <<cell, writing, ok>>

Lose ==
    /\ cut
    /\ cell' = Initial
    /\ UNCHANGED <<writing, cut, ok>>

\* The call returns true: the value must be in the cell, unless it was lost.
Return ==
    /\ writing # NoWrite
    /\ cell = IF cut THEN Initial ELSE writing
    /\ writing' = NoWrite
    /\ cut' = FALSE
    /\ ok' = TRUE
    /\ UNCHANGED cell

\* The call returns false, or the power fails (in or outside a write).
Abandon ==
    /\ writing' = NoWrite
    /\ cut' = FALSE
    /\ ok' = FALSE
    /\ UNCHANGED cell

Next ==
    \/ \E v \in Values : Begin(v)
    \/ Commit
    \/ Cut
    \/ Lose
    \/ Return
    \/ Abandon

Spec == Init /\ [][Next]_vars
===============================================================================
