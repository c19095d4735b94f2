--------------------------- MODULE MCStationCore ----------------------------
(* Instances of StationCore for TLC: small sets and bounds for its runs. *)
EXTENDS StationCore

CONSTANTS b1, b2, c1, c2

OneBatch == {b1}
TwoBatches == {b1, b2}
OneChip == {c1}
TwoChips == {c1, c2}

TotalOne == [b \in Batches |-> 1]

\* Every kind of event that is not named does not happen in a run.
Limits(f) == [k \in Limited |-> IF k \in DOMAIN f THEN f[k] ELSE 0]

\* Three taps let one chip reach its third strike; two shifts let an old shift be
\* on disk while a new one runs.
LineBound == Limits([taps |-> 3, shifts |-> 2, crashes |-> 1, faults |-> 1])

\* A conformance process with a sim console under policy "block": reset at any time, and
\* an error of the batch source or a broken disk between taps.
ConsoleBound == Limits([taps |-> 2, shifts |-> 1, crashes |-> 1, outages |-> 1,
                        resets |-> 1, faults |-> 1, blips |-> 1])

\* An end of shift among page loads, a broken disk and a kill.
LiveBound == Limits([taps |-> 1, shifts |-> 1, ends |-> 1, faults |-> 1, crashes |-> 1])

\* The least that shows where a claim of the documentation fails.
SwapClaim == Limits([taps |-> 1])
BlockClaim == Limits([taps |-> 2, shifts |-> 1, crashes |-> 1])
=============================================================================
