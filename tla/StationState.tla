---------------------------- MODULE StationState ----------------------------
(***************************************************************************)
(* The station state of src-tauri/src/core/state.rs as pure operators: the *)
(* struct StationState is a record, each of its methods an operator from   *)
(* records to records.  The payload a method returns is represented by     *)
(* whether the snapshot changed; the actor (StationCore) decides what is   *)
(* pushed.  Sequence numbers are the subject of StationPage.               *)
(*                                                                         *)
(* No operator is recursive, so modules about this one can be proved.      *)
(***************************************************************************)
EXTENDS Naturals

CONSTANTS
    Batches,    \* batch identifiers the fixtures list
    None        \* Rust's Option::None

\* Types of core/state.rs and contract.rs.  A batch's name is left out, its
\* total is the constant function Total of StationCore.
BatchInfo == [id : Batches, completed : Nat, failed : Nat]
SessionCounts == [done : Nat, failed : Nat]
ShiftMeta == [id : Nat, ended : BOOLEAN]
PersistedShift == [meta : ShiftMeta, batch : BatchInfo, counts : SessionCounts]
PersistedSession == [shift : PersistedShift \cup {None}, pending : BOOLEAN]

StationSnapshot == [connected : BOOLEAN,
                    batch : BatchInfo \cup {None},
                    counts : SessionCounts]

Station == [connected : BOOLEAN,
            batch : BatchInfo \cup {None},
            counts : SessionCounts,
            reader : BOOLEAN,
            downstream : BOOLEAN,
            persistOk : BOOLEAN,
            shift : ShiftMeta \cup {None},
            pending : BOOLEAN]

ASSUME NoneAssumption == /\ None \notin BatchInfo
                         /\ None \notin ShiftMeta
                         /\ None \notin PersistedShift
                         /\ None \notin Batches
-----------------------------------------------------------------------------
ZeroCounts == [done |-> 0, failed |-> 0]

\* What SessionStore::reset writes, and what loading a missing file amounts to.
FreshSession == [shift |-> None, pending |-> FALSE]

\* Faulty: the shift and its batch are taken over, the counts are not.
NewFaulty(p) ==
    [connected  |-> FALSE,
     batch      |-> IF p.shift = None THEN None ELSE p.shift.batch,
     counts     |-> ZeroCounts,
     reader     |-> FALSE,
     downstream |-> FALSE,
     persistOk  |-> TRUE,
     shift      |-> IF p.shift = None THEN None ELSE p.shift.meta,
     pending    |-> p.pending]

\* StationState::new: disconnected until the reader and the keying layer
\* report; persistence presumed healthy; the shift as it was persisted.
New(p) ==
    [connected  |-> FALSE,
     batch      |-> IF p.shift = None THEN None ELSE p.shift.batch,
     counts     |-> IF p.shift = None THEN ZeroCounts ELSE p.shift.counts,
     reader     |-> FALSE,
     downstream |-> FALSE,
     persistOk  |-> TRUE,
     shift      |-> IF p.shift = None THEN None ELSE p.shift.meta,
     pending    |-> p.pending]

\* The part of the state the page is shown (the StationSnapshot struct).
Snapshot(st) ==
    [connected |-> st.connected, batch |-> st.batch, counts |-> st.counts]

\* A shift is written only when it has both its metadata and a batch.
ToPersisted(st) ==
    [shift   |-> IF st.shift = None \/ st.batch = None
                 THEN None
                 ELSE [meta |-> st.shift, batch |-> st.batch, counts |-> st.counts],
     pending |-> st.pending]

\* (Names ending in "Faulty" are plausible bugs, as in StationCore.)
RecomputeConnectionFaulty(st) == [st EXCEPT !.connected = st.reader /\ st.downstream]
RecomputeConnection(st) ==
    [st EXCEPT !.connected = st.reader /\ st.downstream /\ st.persistOk]

SetConnectionInputs(st, reader, downstream) ==
    RecomputeConnection([st EXCEPT !.reader = reader, !.downstream = downstream])

SetPersistOkFaulty(st, ok) == RecomputeConnection(st)
SetPersistOk(st, ok) == RecomputeConnection([st EXCEPT !.persistOk = ok])

\* selectBatch and apply-batch alike: a new shift, counts back to zero.
BeginShift(st, batch, id) ==
    [st EXCEPT !.shift = [id |-> id, ended |-> FALSE],
               !.pending = FALSE,
               !.batch = batch,
               !.counts = ZeroCounts]

\* A mid-shift swap replaces the batch alone.
SwapBatch(st, batch) == [st EXCEPT !.batch = batch]

CountVerdict(counts, verdict) ==
    IF verdict = "success" THEN [counts EXCEPT !.done = @ + 1]
                           ELSE [counts EXCEPT !.failed = @ + 1]

Adopt(batch, updated) == IF updated = None THEN batch ELSE updated

\* retry moves nothing; success and dead count one and adopt the batch the
\* batch source returned, when it returned one.
RecordVerdict(st, verdict, updated) ==
    IF verdict = "retry" THEN st
    ELSE [st EXCEPT !.batch = Adopt(@, updated),
                    !.counts = CountVerdict(@, verdict)]

MarkShiftEnded(st) ==
    [st EXCEPT !.shift = IF @ = None THEN None ELSE [@ EXCEPT !.ended = TRUE],
               !.pending = FALSE]

ArmEndShift(st) == [st EXCEPT !.pending = TRUE]
=============================================================================
