----------------------------- MODULE MCWatchdog ------------------------------
(* An instance of Watchdog for TLC, with the constants of the code in units of *)
(* ten seconds.                                                               *)
EXTENDS Watchdog

Limits(f) == [k \in Limited |-> IF k \in DOMAIN f THEN f[k] ELSE 0]

\* More failures than the cap admits.
StormBound == Limits([hangs |-> 1, renderers |-> 1, browsers |-> 1, others |-> 1,
                      reloads |-> 1, windows |-> 1])
=============================================================================
