--------------------------- MODULE MCReaderMonitor ---------------------------
(* Instances of ReaderMonitor for TLC. *)
EXTENDS ReaderMonitor

CONSTANTS r1, r2

OneReader == {r1}
TwoReaders == {r1, r2}

Limits(f) == [k \in Limited |-> IF k \in DOMAIN f THEN f[k] ELSE 0]

\* Two cards, and any three events that come between them and the core, with a queue of
\* one message.
MonitorBound == Limits([placements |-> 2, pulls |-> 1, outages |-> 1, others |-> 1,
                        kills |-> 1, all |-> 3])

\* The least that shows where a claim of the module's comment fails.
ReplugClaim == Limits([placements |-> 1, pulls |-> 1, all |-> 2])
=============================================================================
