---------------------------- MODULE MCPersistence ----------------------------
(* Instances of Persistence for TLC. *)
EXTENDS Persistence

Limits(f) == [k \in Limited |-> IF k \in DOMAIN f THEN f[k] ELSE 0]
LogLimits(f) == [k \in LogLimited |-> IF k \in DOMAIN f THEN f[k] ELSE 0]

\* Three saves and three records around a power cut, a start that cannot read, an
\* interrupted append, and kills at will.
FilesBound == Limits([sessions |-> 3, cuts |-> 1, unreadable |-> 1])
RecordsBound == LogLimits([records |-> 3, interruptions |-> 1, cuts |-> 1])

\* The least that shows where a claim of the documentation fails.
NoSaves == Limits(<<>>)
NoRecords == LogLimits([cuts |-> 1])
CutClaim == Limits([sessions |-> 1, cuts |-> 1])
TailClaim == LogLimits([records |-> 2, interruptions |-> 1])
=============================================================================
