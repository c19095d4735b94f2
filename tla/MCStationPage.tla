---------------------------- MODULE MCStationPage ----------------------------
(* Instances of StationPage for TLC. *)
EXTENDS StationPage

Limits(f) == [k \in Limited |-> IF k \in DOMAIN f THEN f[k] ELSE 0]

\* Any three events, of each kind one or two.
PageBound == Limits([changes |-> 2, selects |-> 1, flips |-> 1, ends |-> 2, unloads |-> 2,
                     fallbacks |-> 1, resets |-> 1, drops |-> 1, all |-> 3])

\* The least that shows where a claim of the documentation fails.
RaceClaim == Limits([changes |-> 1, selects |-> 1, all |-> 2])
EndClaim == Limits([ends |-> 1, unloads |-> 1, all |-> 2])
=============================================================================
