---------------------------- MODULE MCSimKeying ------------------------------
(* Instances of SimKeying for TLC: a word of two bits. *)
EXTENDS SimKeying

CONSTANTS c1

OneChip == {c1}

W(k, r, p) == [n \in WeightNames |-> CASE n = "keyed" -> k [] n = "recoverable" -> r
                                       [] n = "permanent" -> p]

\* All zero; one of each alone; sums that wrap to zero, in the first and the second
\* addition, and past zero; the default's shape, which does not wrap.
SomeWeights == {W(0, 0, 0), W(0, 0, 2), W(0, 3, 0), W(3, 1, 0), W(0, 3, 1), W(2, 3, 0),
                W(1, 1, 1)}

AllWeights == [WeightNames -> 0 .. Word - 1]
=============================================================================
