---------------------------- MODULE MCReaderGate -----------------------------
(* An instance of ReaderGate for TLC. *)
EXTENDS ReaderGate

CONSTANTS r1, r2

OneReader == {r1}
TwoReaders == {r1, r2}

Limits(f) == [k \in Limited |-> IF k \in DOMAIN f THEN f[k] ELSE 0]

\* What the operator is asked for, and one thing more.
GateBound == Limits([placements |-> 2, pulls |-> 2, outages |-> 1, all |-> 4])
=============================================================================
