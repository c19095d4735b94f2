------------------------------ MODULE RecordLog ------------------------------
(***************************************************************************)
(* The record logs of src-tauri/src/persist/failures.rs (failures.jsonl    *)
(* and overruns.jsonl): a record and its newline are appended in several   *)
(* writes, any of which may fail or be the last of its process; nothing    *)
(* is synced, so that a power cut may take the end of the file away.       *)
(*                                                                         *)
(* A record is its number.  A line is the sequence of the pieces of        *)
(* records written since the last newline.                                 *)
(***************************************************************************)
EXTENDS Naturals, FiniteSets, SequencesExt

CONSTANT LogBound  \* how many of each of the LogLimited kinds of event

\* What is bounded: records, kills and failed writes, power cuts.
LogLimited == {"records", "interruptions", "cuts"}

ASSUME RecordLogAssumption == LogBound \in [LogLimited -> Nat]

Records == 1 .. LogBound.records

VARIABLES
    lines,     \* the lines that end in a newline
    tail,      \* the line that does not
    writer,    \* where append is
    record,    \* the record being appended
    appended,  \* history: records whose append returned without an error
    logUsed    \* how much of LogBound is used up

logVars == <<lines, tail, writer, record, appended, logUsed>>

Piece == [record : Records, whole : BOOLEAN]

LogTypeOK ==
    /\ lines \in Seq(Seq(Piece)) /\ tail \in Seq(Piece)
    /\ writer \in {"idle", "opened", "writing", "written"}
    /\ writer \in {"writing", "written"}
       => tail # <<>> /\ Last(tail) = [record |-> record, whole |-> writer = "written"]
    /\ record \in 0 .. LogBound.records
    /\ appended \subseteq Records
    /\ logUsed \in [LogLimited -> Nat]
-----------------------------------------------------------------------------
MayLog(what) == logUsed[what] < LogBound[what]
UseLog(what) == logUsed' = [logUsed EXCEPT ![what] = @ + 1]

LogInit ==
    /\ lines = <<>> /\ tail = <<>>
    /\ writer = "idle" /\ record = 0 /\ appended = {}
    /\ logUsed = [k \in LogLimited |-> 0]

\* open for appending, with the next record.
Open ==
    /\ writer = "idle" /\ MayLog("records") /\ UseLog("records")
    /\ writer' = "opened" /\ record' = logUsed.records + 1
    /\ UNCHANGED <<lines, tail, appended>>

\* to_writer serialises into the file, piece by piece.
WritePart ==
    /\ writer = "opened" /\ writer' = "writing"
    /\ tail' = Append(tail, [record |-> record, whole |-> FALSE])
    /\ UNCHANGED <<lines, record, appended, logUsed>>

WriteRest ==
    /\ writer = "writing" /\ writer' = "written"
    /\ tail' = [tail EXCEPT ![Len(tail)].whole = TRUE]
    /\ UNCHANGED <<lines, record, appended, logUsed>>

\* Faulty: the newline is left to the next append, which does not write it either.
NewlineFaulty ==
    /\ writer = "written" /\ writer' = "idle"
    /\ appended' = appended \cup {record}
    /\ UNCHANGED <<lines, tail, record, logUsed>>

Newline ==
    /\ writer = "written" /\ writer' = "idle"
    /\ lines' = Append(lines, tail) /\ tail' = <<>>
    /\ appended' = appended \cup {record}
    /\ UNCHANGED <<record, logUsed>>

\* A write fails, which append only logs, or the process is killed.  The next append
\* continues where this one stopped.
Interrupted ==
    /\ writer # "idle" /\ MayLog("interruptions") /\ UseLog("interruptions")
    /\ writer' = "idle"
    /\ UNCHANGED <<lines, tail, record, appended>>

\* A cut leaves some beginning of the file: its first n lines, and of the next one, which
\* has lost its newline, the first m pieces.
CutLog ==
    /\ MayLog("cuts") /\ UseLog("cuts")
    /\ writer' = "idle"
    /\ \E n \in 0 .. Len(lines) :
         LET next == IF n = Len(lines) THEN tail ELSE lines[n + 1] IN
         \E m \in 0 .. Len(next) :
            /\ lines' = SubSeq(lines, 1, n)
            /\ \/ tail' = SubSeq(next, 1, m)
               \/ m > 0 /\ tail' = [SubSeq(next, 1, m) EXCEPT ![m].whole = FALSE]
    /\ UNCHANGED <<record, appended>>

LogNext == Open \/ WritePart \/ WriteRest \/ Newline \/ Interrupted \/ CutLog

LogSpec == LogInit /\ [][LogNext]_logVars
-----------------------------------------------------------------------------
Readable(line) == Len(line) = 1 /\ line[1].whole

In(r, line) == \E i \in DOMAIN line : line[i].record = r

\* Records appended without an error that a reader of lines finds, but cannot read.
Spoiled ==
    {r \in appended : \E line \in {lines[i] : i \in DOMAIN lines} \cup {tail} :
                         In(r, line) /\ ~Readable(line)}

\* An interruption spoils one record at most whose append said it was written: the one
\* that continued the torn line.  A cut spoils two: the one whose newline it took, and the
\* one that continued it.
OneSpoiledPerInterruption == Cardinality(Spoiled) <= logUsed.interruptions + 2 * logUsed.cuts

\* Claim: "may carry one torn final line".
OnlyTheTailIsTorn == \A i \in DOMAIN lines : Readable(lines[i])
=============================================================================
