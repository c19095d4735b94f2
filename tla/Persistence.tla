----------------------------- MODULE Persistence -----------------------------
(***************************************************************************)
(* The files the core's thread writes, session.json (SessionFile) and a    *)
(* record log (RecordLog), together: a tap of core/actor.rs appends its    *)
(* record first, also when that fails, and then saves its verdict; there   *)
(* is one process to kill and one disk to lose power.                      *)
(***************************************************************************)
EXTENDS SessionFile, RecordLog

VARIABLES
    due,       \* the record of the tap being handled, or 0
    recordOf,  \* history: the record of each session's verdict, or 0
    unlogged   \* history: records whose append returned an error

tap == <<due, recordOf, unlogged>>

PersistenceTypeOK ==
    /\ TypeOK /\ LogTypeOK
    /\ due \in {0} \cup Records
    /\ recordOf \in [Sessions -> {0} \cup Records]
    /\ unlogged \subseteq Records

PersistenceInit ==
    /\ Init /\ LogInit
    /\ due = 0 /\ recordOf = [s \in Sessions |-> 0] /\ unlogged = {}
-----------------------------------------------------------------------------
OpenLog ==
    /\ pc = "idle" /\ due = 0
    /\ Open /\ due' = record'
    /\ UNCHANGED <<vars, recordOf, unlogged>>

WriteLog ==
    /\ WritePart \/ WriteRest \/ Newline
    /\ UNCHANGED <<vars, tap>>

\* A write of the append fails; that is logged, and the tap goes on.
AppendFails ==
    /\ Interrupted
    /\ unlogged' = unlogged \cup {record}
    /\ UNCHANGED <<vars, due, recordOf>>

\* Faulty: the append is handed to a thread of its own.
AppendDoneFaulty == TRUE

\* append is done with, however it went, when commit begins.
AppendDone == writer = "idle"

\* The verdict of the tap with record due, or another commit, is saved.
SaveVerdict ==
    /\ AppendDone /\ Save
    /\ IF session' = session THEN UNCHANGED <<due, recordOf>>
       ELSE due' = 0 /\ recordOf' = [recordOf EXCEPT ![session'] = due]
    /\ UNCHANGED <<logVars, unlogged>>

SaveStep ==
    /\ CreateTemp \/ WriteAll \/ SyncAll \/ Rename \/ StepFails \/ Settle
    /\ UNCHANGED <<logVars, tap>>

LoadStep == (Load \/ LoadUnreadable) /\ UNCHANGED <<logVars, tap>>

\* A kill takes the append that was under way with it, and the tap.
KillProcess ==
    /\ Kill /\ due' = 0
    /\ IF writer = "idle" THEN UNCHANGED logVars ELSE Interrupted
    /\ UNCHANGED <<recordOf, unlogged>>

CutPower == PowerCut /\ CutLog /\ due' = 0 /\ UNCHANGED <<recordOf, unlogged>>

PersistenceNext ==
    \/ OpenLog \/ WriteLog \/ AppendFails \/ SaveVerdict \/ SaveStep \/ LoadStep
    \/ KillProcess \/ CutPower

PersistenceSpec == PersistenceInit /\ [][PersistenceNext]_<<vars, logVars, tap>>
-----------------------------------------------------------------------------
(* The properties are those of SessionFile, and:                           *)

InLog(r) ==
    \E line \in {lines[i] : i \in DOMAIN lines} \cup {tail} :
        \E i \in DOMAIN line : line[i].record = r /\ line[i].whole

\* A verdict the session file holds has its record in the log, whatever saves and appends
\* failed and whenever the process was killed, unless its own append returned an error.  A
\* power cut may take the record and leave the verdict: the log is not synced.
RecordedBeforeSaved ==
    used.cuts = 0 =>
        \A s \in 1 .. AtPath.session :
            recordOf[s] # 0 => InLog(recordOf[s]) \/ recordOf[s] \in unlogged
=============================================================================
