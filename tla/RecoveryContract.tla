-------------------------- MODULE RecoveryContract --------------------------
(***************************************************************************)
(* The recovery contract that the commit of src-tauri/src/core/actor.rs    *)
(* keeps, without queues, steps, files or a line that pauses: a shift      *)
(* counts verdicts in memory, and a copy of it survives the process.  A    *)
(* verdict is counted only when the copy has all the others, and a process *)
(* that starts takes up the copy as it is.  StationCore implements it.     *)
(***************************************************************************)
EXTENDS Naturals

CONSTANT Volatile  \* processes start with nothing (a --conformance process)

VARIABLES
    live,     \* the running shift
    durable,  \* the one a restart resumes
    begun,    \* shifts begun
    resets    \* requests to forget everything

ZeroCounts == [done |-> 0, failed |-> 0]
NoShift == [state |-> "none", id |-> 0, counts |-> ZeroCounts]

Init == live = NoShift /\ durable = NoShift /\ begun = 0 /\ resets = 0

Begin ==
    /\ begun' = begun + 1
    /\ live' = [state |-> "running", id |-> begun + 1, counts |-> ZeroCounts]
    /\ UNCHANGED <<durable, resets>>

Count(what) ==
    /\ live.state = "running" /\ durable = live
    /\ live' = [live EXCEPT !.counts[what] = @ + 1]
    /\ UNCHANGED <<durable, begun, resets>>

Save == durable' = live /\ UNCHANGED <<live, begun, resets>>

\* The copy may outlive a reset that could not write.
Reset ==
    /\ resets' = resets + 1
    /\ live' = NoShift /\ durable' \in {durable, NoShift}
    /\ UNCHANGED begun

Restart ==
    /\ IF Volatile THEN live' = NoShift /\ durable' \in {durable, NoShift}
                   ELSE live' = durable /\ UNCHANGED durable
    /\ UNCHANGED <<begun, resets>>

Next == Begin \/ (\E what \in {"done", "failed"} : Count(what)) \/ Save \/ Reset \/ Restart

Spec == Init /\ [][Next]_<<live, durable, begun, resets>>
=============================================================================
