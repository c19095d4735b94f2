----------------------------- MODULE SessionFile -----------------------------
(***************************************************************************)
(* The session file of src-tauri/src/persist/session.rs, in the steps of   *)
(* atomic_write (temporary file, write, sync_all, rename), any of which    *)
(* may fail, be the last of a process that is killed, or of a machine that *)
(* loses power; and the load of the next process.  sim_progress.json is    *)
(* written by the same function.                                           *)
(*                                                                         *)
(* A session is its number: every state saved, a reset's included, gets    *)
(* the next.  The file system is external: it keeps data that was synced;  *)
(* a rename is seen by readers at once and reaches the disk later, at the  *)
(* latest with the next sync (a journal that is written in order, as those *)
(* of NTFS and ext4); other data reaches it at any time or never.          *)
(***************************************************************************)
EXTENDS Naturals

CONSTANTS
    None,
    Bound  \* how many of each of the Limited kinds of event

\* What is bounded: sessions saved, power cuts, starts that cannot read the file.
Limited == {"sessions", "cuts", "unreadable"}

Fresh == 0
Sessions == Fresh .. Bound.sessions

\* whole: the bytes are all there; synced: also after a power cut.
File == [session : Sessions, whole : BOOLEAN, synced : BOOLEAN]
NoFile == [session |-> Fresh, whole |-> TRUE, synced |-> TRUE]

ASSUME SessionFileAssumption == Bound \in [Limited -> Nat] /\ None \notin File

VARIABLES
    session,  \* the session in memory
    pc,       \* where the process is: in atomic_write, between two, or gone
    failed,   \* the last save failed
    tmp,      \* the temporary file
    renamed,  \* the file renamed over the path, not yet on the disk
    disk,     \* the file at the path on the disk
    acked,    \* history: the session of the last save, found at the path or acknowledged
    before,   \* history: and of the one before it
    cut,      \* history: a power cut since the file was last loaded
    used      \* how much of Bound is used up

process == <<session, pc, failed>>
files == <<tmp, renamed, disk>>
history == <<acked, before, cut>>
vars == <<process, files, history, used>>

TypeOK ==
    /\ session \in Sessions /\ acked \in Sessions /\ before \in Sessions
    /\ pc \in {"idle", "create", "write", "sync", "rename", "gone"}
    /\ failed \in BOOLEAN
    /\ tmp \in File \cup {None}
    /\ renamed \in File \cup {None}
    /\ disk \in File
    /\ cut \in BOOLEAN
    /\ used \in [Limited -> Nat]
-----------------------------------------------------------------------------
May(what) == used[what] < Bound[what]
Use(what) == used' = [used EXCEPT ![what] = @ + 1]

Init ==
    /\ session = Fresh /\ pc = "idle" /\ failed = FALSE
    /\ tmp = None /\ renamed = None /\ disk = NoFile
    /\ acked = Fresh /\ before = Fresh /\ cut = FALSE
    /\ used = [k \in Limited |-> 0]

\* The file a reader finds at the path.
AtPath == IF renamed # None THEN renamed ELSE disk

\* What of a file survives a power cut.
Survivor(f) == [f EXCEPT !.whole = f.whole /\ f.synced, !.synced = TRUE]
-----------------------------------------------------------------------------
(* save.  Definitions whose names end in "Faulty" are plausible bugs, each *)
(* beside the definition it imitates.                                      *)

\* commit and reset: a new state, saved at once; on_tick: the same state again.
Save ==
    /\ pc = "idle" /\ pc' = "create"
    /\ \/ /\ May("sessions") /\ Use("sessions")
          /\ session' = used.sessions + 1
       \/ failed /\ UNCHANGED <<session, used>>
    /\ UNCHANGED <<failed, files, history>>

\* File::create truncates what an earlier save left.
CreateTemp ==
    /\ pc = "create" /\ pc' = "write"
    /\ tmp' = [session |-> session, whole |-> FALSE, synced |-> FALSE]
    /\ UNCHANGED <<session, failed, renamed, disk, history, used>>

WriteAll ==
    /\ pc = "write" /\ pc' = "sync"
    /\ tmp' = [tmp EXCEPT !.whole = TRUE]
    /\ UNCHANGED <<session, failed, renamed, disk, history, used>>

\* Faulty: flush() in place of sync_all().
SyncAllFaulty ==
    /\ pc = "sync" /\ pc' = "rename"
    /\ UNCHANGED <<session, failed, files, history, used>>

SyncAll ==
    /\ pc = "sync" /\ pc' = "rename"
    /\ tmp' = [tmp EXCEPT !.synced = TRUE]
    /\ disk' = AtPath /\ renamed' = None
    /\ UNCHANGED <<session, failed, history, used>>

\* Faulty: the old file is removed first, for platforms whose rename does not replace.
RenameFaulty ==
    /\ pc = "rename"
    /\ IF AtPath # NoFile THEN renamed' = NoFile /\ UNCHANGED <<session, pc, failed,
                                                               tmp, disk, history, used>>
       ELSE /\ pc' = "idle" /\ failed' = FALSE
            /\ renamed' = tmp /\ tmp' = None
            /\ acked' = session /\ before' = acked
            /\ UNCHANGED <<session, disk, cut, used>>

Rename ==
    /\ pc = "rename" /\ pc' = "idle" /\ failed' = FALSE
    /\ renamed' = tmp /\ tmp' = None
    /\ acked' = session /\ before' = acked
    /\ UNCHANGED <<session, disk, cut, used>>

\* Any step may return an error; save returns it.
StepFails ==
    /\ pc \in {"create", "write", "sync", "rename"}
    /\ pc' = "idle" /\ failed' = TRUE
    /\ UNCHANGED <<session, files, history, used>>
-----------------------------------------------------------------------------
(* The file system, and the end of processes.                              *)

Settle ==
    /\ renamed # None
    /\ disk' = renamed /\ renamed' = None
    /\ UNCHANGED <<process, tmp, history, used>>

Kill ==
    /\ pc # "gone" /\ pc' = "gone"
    /\ UNCHANGED <<session, failed, files, history, used>>

PowerCut ==
    /\ May("cuts") /\ Use("cuts")
    /\ pc' = "gone" /\ cut' = TRUE
    /\ \E f \in {disk, AtPath} : disk' = Survivor(f)
    /\ renamed' = None
    /\ \E f \in {None, tmp} : tmp' = IF f = None THEN None ELSE Survivor(f)
    /\ UNCHANGED <<session, failed, acked, before>>
-----------------------------------------------------------------------------
(* load.                                                                   *)

\* Faulty: what an interrupted save left is taken for a torn file.
LoadedFaulty == IF tmp = None THEN AtPath.session ELSE Fresh

\* A file that is missing or does not parse is fresh state.
Loaded == IF AtPath.whole THEN AtPath.session ELSE Fresh

Starts(s) ==
    /\ pc = "gone" /\ pc' = "idle" /\ failed' = FALSE
    /\ session' = s
    /\ acked' = AtPath.session
    /\ before' = IF AtPath.session = acked THEN before ELSE AtPath.session
    /\ cut' = FALSE
    /\ UNCHANGED files

Load == Starts(Loaded) /\ UNCHANGED used

\* So is a file that cannot be read; the next save replaces it.
LoadUnreadable == May("unreadable") /\ Use("unreadable") /\ Starts(Fresh)
-----------------------------------------------------------------------------
Next ==
    \/ Save \/ CreateTemp \/ WriteAll \/ SyncAll \/ Rename \/ StepFails
    \/ Settle \/ Kill \/ PowerCut \/ Load \/ LoadUnreadable

Spec == Init /\ [][Next]_vars
-----------------------------------------------------------------------------
\* Neither a reader nor a power cut ever finds part of a file at the path, however the
\* steps of successive processes' saves, their failures and their ends interleave.
NeverTorn == AtPath.whole /\ AtPath.synced /\ disk.whole /\ disk.synced

\* A process that was killed is followed by one that takes up its last save, or a save
\* that had not returned yet; a power cut costs one save at most.
LosesOneSaveToACut == [][Load => session' >= IF cut THEN before ELSE acked]_vars

\* The file is a register: every save is one step of it, seen whole or not at all, and
\* what a power cut falls back to is what it held before its last write.
Register == INSTANCE DurableRegister WITH
    Value <- Sessions, stored <- AtPath.session, safe <- disk.session
ImplementsRegister == Register!Spec

\* Claim: "worst case is the state as of the last completed tap".
LastTapSurvives == [][Load => session' >= acked]_vars
=============================================================================
