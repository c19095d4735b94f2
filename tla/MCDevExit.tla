------------------------------ MODULE MCDevExit ------------------------------
(* Instances of DevExit for TLC; a unit is one second. *)
EXTENDS DevExit

Limits(f) == [k \in Limited |-> IF k \in DOMAIN f THEN f[k] ELSE 0]

\* Three presses, so that the second may meet the timer of the first.
ChordBound == Limits([presses |-> 3, repeats |-> 1, lost |-> 1, undelivered |-> 1])

LostClaim == Limits([presses |-> 2, lost |-> 1])
=============================================================================
