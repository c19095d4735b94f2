--------------------------- MODULE DurableRegister ---------------------------
(***************************************************************************)
(* What a state file promises to its users: a register that is written and *)
(* read whole, whose writers may fail or be killed at any instant, and     *)
(* which loses at most its last write to a power cut.                      *)
(***************************************************************************)
CONSTANT Value

VARIABLES
    stored,  \* what a reader finds
    safe     \* what a power cut may fall back to

Init == stored \in Value /\ safe = stored

\* The write before this one is safe by then, if it was not already.
Write(v) == stored' = v /\ safe' = stored

Settle == safe' = stored /\ UNCHANGED stored

PowerCut == stored' = safe /\ UNCHANGED safe

Next == (\E v \in Value : Write(v)) \/ Settle \/ PowerCut

Spec == Init /\ [][Next]_<<stored, safe>>
=============================================================================
