---------------------------- MODULE StationCore -----------------------------
(***************************************************************************)
(* The core actor of src-tauri/src/core/actor.rs: the single owner of the  *)
(* station state, fed by a message queue and a 250 ms tick, with what it   *)
(* writes (session.json, the simulated batch source's progress overlay,    *)
(* overruns.jsonl) and what it publishes (boot cache, pushed snapshots).   *)
(*                                                                         *)
(* A handler runs to completion before the next message is taken, but the  *)
(* process can be killed between any two of its effects and a write can    *)
(* fail, so a handler is a sequence of small steps: `pc` names the next    *)
(* one, `ret` the step that follows a commit.  Any message may arrive      *)
(* whenever the actor is idle, which covers every order in the queue.      *)
(***************************************************************************)
EXTENDS StationState

CONSTANTS
    Total,          \* planned number of chips of each batch
    Chips,          \* chip references the keying layer may report
    OverrunPolicy,  \* "allow" or "block", from station.toml
    Conformance,    \* TRUE in a --conformance process
    Bound           \* how many of each of the Limited kinds of event

\* What is bounded: taps, shift begins, end-shift requests, blips, kills of the process,
\* breakdowns of the disk, errors of the batch source and resets.
Limited == {"taps", "shifts", "ends", "blips", "crashes", "faults", "outages", "resets"}

ASSUME CoreAssumption ==
    /\ Total \in [Batches -> Nat]
    /\ OverrunPolicy \in {"allow", "block"}
    /\ Conformance \in BOOLEAN
    /\ Bound \in [Limited -> Nat]
    /\ None \notin Chips

EscalationThreshold == 3
EndShiftEmitsToConfirm == 2

VARIABLES
    station,     \* StationState
    ledger,      \* RetryLedger: failures of each chip
    waits,       \* quiet windows and timers that have not run out
    emits,       \* end_shift_emits
    blip,        \* blip_until is set
    pc, ret,     \* step of the running handler; the step after its commit
    payload,     \* the payload being committed
    saved,       \* did the last session write succeed
    tap,         \* the tap being handled
    disk,        \* session.json
    source,      \* SimBatchSource's overlay, in memory
    sourceDisk,  \* and in sim_progress.json
    overruns,    \* records in overruns.jsonl, by batch
    diskOk,      \* writes to the data directory succeed
    boot,        \* the snapshot in the boot cache
    shown,       \* the last snapshot that left the process
    keyed,       \* history: chips physically keyed since the last reset, by batch
    strikes,     \* history: retry verdicts shown for a chip since it was cleared
    resetFailed, \* history: a reset's write failed; neither a save nor a restart since
    notReady,    \* history: the keying layer's or its watcher's last word
    used         \* how much of Bound is used up

memory == <<station, ledger, waits, emits, blip>>
handler == <<pc, ret, payload, saved, tap>>
files == <<disk, source, sourceDisk, overruns>>
history == <<keyed, strikes, resetFailed, notReady>>
vars == <<memory, handler, files, diskOk, boot, shown, history, used>>

Progress == [completed : Nat, failed : Nat]
Verdicts == {"success", "dead", "retry"}
Payloads == {"none", "data", "connection", "end-shift"} \cup Verdicts
Steps == {"idle", "keying", "recording", "auditing", "verdict", "saving",
          "pushing", "health", "blip", "endshift", "confirm"}
Windows == {"verdict", "boot", "emit", "blip"}
Tap == [batch : Batches \cup {None}, chip : Chips \cup {None},
        verdict : Verdicts \cup {"none"}, updated : BatchInfo \cup {None}]
NoTap == [batch |-> None, chip |-> None, verdict |-> "none", updated |-> None]

TypeOK ==
    /\ station \in Station
    /\ ledger \in [Chips -> 0 .. EscalationThreshold - 1]
    /\ waits \in SUBSET Windows
    /\ emits \in 0 .. EndShiftEmitsToConfirm
    /\ blip \in BOOLEAN
    /\ pc \in Steps
    /\ ret \in {"idle", "blip", "endshift", "confirm"}
    /\ payload \in Payloads
    /\ saved \in BOOLEAN
    /\ tap \in Tap
    /\ disk \in PersistedSession
    /\ source \in [Batches -> Progress]
    /\ sourceDisk \in [Batches -> Progress]
    /\ overruns \in [Batches -> Nat]
    /\ diskOk \in BOOLEAN
    /\ boot \in StationSnapshot
    /\ shown \in StationSnapshot
    /\ keyed \in [Batches -> Nat]
    /\ strikes \in [Chips -> Nat]
    /\ resetFailed \in BOOLEAN
    /\ notReady \in BOOLEAN
    /\ used \in [Limited -> Nat]
-----------------------------------------------------------------------------
NoProgress == [b \in Batches |-> [completed |-> 0, failed |-> 0]]
NoFailures == [c \in Chips |-> 0]

\* SimBatchSource::merged over the overlay s; the fixtures start at zero.
Merged(s, b) == [id |-> b, completed |-> s[b].completed, failed |-> s[b].failed]

May(what) == used[what] < Bound[what]
Use(what) == used' = [used EXCEPT ![what] = @ + 1]

Idle == pc = "idle"

(* Definitions whose names end in "Faulty" are plausible bugs, each beside  *)
(* the definition it imitates; no specification uses them.                  *)

\* try_persist: a failed write leaves the old file (SessionFile shows why).
Written(session) == IF diskOk THEN session ELSE disk

RefreshBootCacheFaulty(st) == boot' = IF diskOk THEN Snapshot(st) ELSE boot
RefreshBootCache(st) == boot' = Snapshot(st)

\* The start of commit (p a payload) or of persist_quietly (p = "none").
Commit(p, next) ==
    /\ pc' = "saving"
    /\ payload' = p
    /\ ret' = next
    /\ UNCHANGED saved

\* Adopt st and commit the flip of the connection, if it flipped.
CommitFlip(st, next) ==
    /\ station' = st
    /\ IF st.connected # station.connected
       THEN Commit("connection", next)
       ELSE pc' = next /\ UNCHANGED <<ret, payload, saved>>

\* A conformance process starts from a session it has just reset; its batch
\* source has no overlay file.
OnStart(session) == IF Conformance THEN FreshSession ELSE session

Booted(session, ready) == SetConnectionInputs(New(session), FALSE, ready)

Init ==
    /\ disk = FreshSession
    /\ \E ready \in BOOLEAN : /\ station = Booted(disk, ready)
                              /\ notReady = ~ready
    /\ ledger = NoFailures
    /\ waits = {"boot"}
    /\ emits = 0
    /\ blip = FALSE
    /\ pc = "idle" /\ ret = "idle"
    /\ payload = "none"
    /\ saved = TRUE
    /\ tap = NoTap
    /\ source = NoProgress /\ sourceDisk = NoProgress
    /\ overruns = [b \in Batches |-> 0]
    /\ diskOk = TRUE
    /\ boot = Snapshot(station) /\ shown = Snapshot(station)
    /\ keyed = [b \in Batches |-> 0]
    /\ strikes = NoFailures
    /\ resetFailed = FALSE
    /\ used = [k \in Limited |-> 0]
-----------------------------------------------------------------------------
(* Commit: persist, boot cache, push, then the health of the persistence.  *)

Persist ==
    /\ pc = "saving"
    /\ saved' = diskOk
    /\ disk' = Written(ToPersisted(station))
    /\ RefreshBootCache(station)
    /\ resetFailed' = (resetFailed /\ ~diskOk)
    /\ pc' = IF payload = "none" THEN "health" ELSE "pushing"
    /\ UNCHANGED <<memory, ret, payload, tap, source, sourceDisk, overruns,
                   diskOk, shown, keyed, strikes, notReady, used>>

\* retry and end-shift payloads carry no snapshot.
Push ==
    /\ pc = "pushing"
    /\ pc' = "health"
    /\ shown' = IF payload \in {"retry", "end-shift"} THEN shown ELSE Snapshot(station)
    /\ strikes' = CASE payload = "retry" -> [strikes EXCEPT ![tap.chip] = @ + 1]
                    [] payload \in {"success", "dead"} -> [strikes EXCEPT ![tap.chip] = 0]
                    [] OTHER -> strikes
    /\ tap' = NoTap
    /\ UNCHANGED <<memory, ret, payload, saved, files, diskOk, boot,
                   keyed, resetFailed, notReady, used>>

\* update_persist_health: only a flip saves again (its result is ignored),
\* refreshes the boot cache and pushes.
UpdatePersistHealth ==
    /\ pc = "health"
    /\ pc' = ret
    /\ ret' = "idle"
    /\ payload' = "none"
    /\ saved' = TRUE
    /\ station' = SetPersistOk(station, saved)
    /\ IF station'.connected # station.connected
       THEN /\ disk' = IF saved THEN Written(ToPersisted(station')) ELSE disk
            /\ RefreshBootCache(station')
            /\ shown' = Snapshot(station')
       ELSE UNCHANGED <<disk, boot, shown>>
    /\ UNCHANGED <<ledger, waits, emits, blip, tap, source, sourceDisk,
                   overruns, diskOk, history, used>>
-----------------------------------------------------------------------------
(* Messages.                                                               *)

\* SelectBatch and ApplyBatch: the batch is read afresh from the source.
BeginShiftMsg(b) ==
    /\ Idle /\ May("shifts") /\ Use("shifts")
    /\ station' = BeginShift(station, Merged(source, b), used'.shifts)
    /\ ledger' = NoFailures
    /\ strikes' = NoFailures
    /\ emits' = 0
    /\ Commit("data", "idle")
    /\ UNCHANGED <<waits, blip, tap, files, diskOk, boot, shown, keyed,
                   resetFailed, notReady>>

\* Faulty: a swap clears the retry ledger as a shift begin does.
SwapBatchMsgFaulty(b) ==
    /\ Idle
    /\ station' = SwapBatch(station, Merged(source, b))
    /\ ledger' = NoFailures
    /\ Commit("data", "idle")
    /\ UNCHANGED <<waits, emits, blip, tap, files, diskOk, boot, shown, history, used>>

\* By identifier any listed batch; without one, the first other batch.
SwapBatchMsg(b) ==
    /\ Idle
    /\ station' = SwapBatch(station, Merged(source, b))
    /\ Commit("data", "idle")
    /\ UNCHANGED <<ledger, waits, emits, blip, tap, files, diskOk, boot, shown,
                   history, used>>

EndShiftCmd ==
    /\ Idle /\ May("ends") /\ Use("ends")
    /\ station' = MarkShiftEnded(station)
    /\ Commit("none", "idle")
    /\ UNCHANGED <<ledger, waits, emits, blip, tap, files, diskOk, boot, shown, history>>

BeginEndShift ==
    /\ Idle /\ May("ends") /\ Use("ends")
    /\ station' = ArmEndShift(station)
    /\ emits' = 0
    /\ waits' = waits \ {"emit"}
    /\ Commit("none", "idle")
    /\ UNCHANGED <<ledger, blip, tap, files, diskOk, boot, shown, history>>

\* An adapter that booted behind the core gets a catch-up payload.
BridgeAttached ==
    /\ Idle
    /\ Commit("data", "idle")
    /\ UNCHANGED <<memory, tap, files, diskOk, boot, shown, history, used>>

BootPulled ==
    /\ Idle
    /\ waits' = waits \cup {"boot"}
    /\ UNCHANGED <<station, ledger, emits, blip, handler, files, diskOk, boot,
                   shown, history, used>>

ReaderPresence(present) ==
    /\ Idle
    /\ CommitFlip(SetConnectionInputs(station, present, station.downstream), "idle")
    /\ UNCHANGED <<ledger, waits, emits, blip, tap, files, diskOk, boot, shown,
                   history, used>>

SetDownstream(ready) ==
    /\ Idle
    /\ CommitFlip(SetConnectionInputs(station, station.reader, ready), "idle")
    /\ notReady' = ~ready
    /\ UNCHANGED <<ledger, waits, emits, blip, tap, files, diskOk, boot, shown,
                   keyed, strikes, resetFailed, used>>

Blip ==
    /\ Idle /\ May("blips") /\ Use("blips")
    /\ blip' = TRUE
    /\ waits' = waits \cup {"blip"}
    /\ CommitFlip(SetConnectionInputs(station, station.reader, FALSE), "idle")
    /\ UNCHANGED <<ledger, emits, tap, files, diskOk, boot, shown, history>>

\* What both resets do: a fresh state with the connection legs given, nothing
\* pushed, the sim's progress dropped, a failed session write only logged.
ResetTo(reader, downstream, persistOk) ==
    /\ Idle /\ May("resets") /\ Use("resets")
    /\ station' = SetPersistOk(SetConnectionInputs(New(FreshSession), reader, downstream),
                               persistOk)
    /\ ledger' = NoFailures
    /\ strikes' = NoFailures
    /\ source' = NoProgress
    /\ sourceDisk' = IF diskOk THEN NoProgress ELSE sourceDisk
    /\ disk' = Written(FreshSession)
    /\ resetFailed' = ~diskOk
    /\ RefreshBootCache(station')
    /\ keyed' = [b \in Batches |-> 0]
    /\ UNCHANGED <<blip, handler, overruns, diskOk, shown>>

ResetDemo ==
    /\ ResetTo(station.reader, station.downstream, station.persistOk)
    /\ UNCHANGED <<waits, emits, notReady>>

ConformanceReset ==
    /\ Conformance
    /\ ResetTo(TRUE, TRUE, TRUE)
    /\ waits' = waits \ {"verdict"}
    /\ emits' = 0
    /\ notReady' = FALSE
-----------------------------------------------------------------------------
(* A tap: gates, key_chip, ledger, batch source, overrun log, verdict.     *)

BlockedFaulty(batch) == OverrunPolicy = "block" /\ batch.completed > Total[batch.id]
Blocked(batch) == OverrunPolicy = "block" /\ batch.completed >= Total[batch.id]

CardPresented(c) ==
    /\ Idle /\ May("taps") /\ Use("taps")
    /\ station.connected
    /\ station.batch # None
    /\ ~Blocked(station.batch)
    /\ tap' = [NoTap EXCEPT !.batch = station.batch.id, !.chip = c]
    /\ pc' = "keying"
    /\ UNCHANGED <<memory, ret, payload, saved, files, diskOk, boot, shown, history>>

ChipKeyed ==
    /\ pc = "keying"
    /\ keyed' = [keyed EXCEPT ![tap.batch] = @ + 1]
    /\ ledger' = [ledger EXCEPT ![tap.chip] = 0]
    /\ tap' = [tap EXCEPT !.verdict = "success"]
    /\ pc' = "recording"
    /\ UNCHANGED <<station, waits, emits, blip, ret, payload, saved, files, diskOk,
                   boot, shown, strikes, resetFailed, notReady, used>>

Escalates(attempt) == attempt >= EscalationThreshold

\* The third recoverable failure of a chip in a session is a dead verdict.
RecoverableFailure ==
    /\ pc = "keying"
    /\ LET attempt == ledger[tap.chip] + 1
           escalated == Escalates(attempt)
       IN /\ ledger' = [ledger EXCEPT ![tap.chip] = IF escalated THEN 0 ELSE attempt]
          /\ tap' = [tap EXCEPT !.verdict = IF escalated THEN "dead" ELSE "retry"]
          /\ pc' = IF escalated THEN "recording" ELSE "verdict"
    /\ UNCHANGED <<station, waits, emits, blip, ret, payload, saved, files, diskOk,
                   boot, shown, history, used>>

PermanentFailure ==
    /\ pc = "keying"
    /\ ledger' = [ledger EXCEPT ![tap.chip] = 0]
    /\ tap' = [tap EXCEPT !.verdict = "dead"]
    /\ pc' = "recording"
    /\ UNCHANGED <<station, waits, emits, blip, ret, payload, saved, files, diskOk,
                   boot, shown, history, used>>

\* Faulty: the layer's "not ready" leaves the downstream leg as it was.
NotReadyStationFaulty == station
NotReadyStation == SetConnectionInputs(station, station.reader, FALSE)

\* No verdict at all: the line pauses.
KeyingNotReady ==
    /\ pc = "keying"
    /\ notReady' = TRUE
    /\ tap' = NoTap
    /\ CommitFlip(NotReadyStation, "idle")
    /\ UNCHANGED <<ledger, waits, emits, blip, files, diskOk, boot, shown,
                   keyed, strikes, resetFailed, used>>

PastTotalFaulty(b, completed) == completed > Total[b] + 1
PastTotal(b, completed) == completed > Total[b]

RecordProgress(p, verdict) ==
    IF verdict = "success" THEN [p EXCEPT !.completed = @ + 1]
                           ELSE [p EXCEPT !.failed = @ + 1]

\* SimBatchSource::record_outcome; a failed overlay write is ignored.
RecordOutcome ==
    /\ pc = "recording"
    /\ source' = [source EXCEPT ![tap.batch] = RecordProgress(@, tap.verdict)]
    /\ sourceDisk' = IF diskOk /\ ~Conformance THEN source' ELSE sourceDisk
    /\ tap' = [tap EXCEPT !.updated = Merged(source', tap.batch)]
    /\ pc' = IF tap.verdict = "success" /\ PastTotal(tap.batch, source'[tap.batch].completed)
             THEN "auditing" ELSE "verdict"
    /\ UNCHANGED <<memory, ret, payload, saved, disk, overruns, diskOk, boot, shown,
                   history, used>>

\* The batch source answers an error: the session alone counts the tap.
RecordOutcomeFails ==
    /\ pc = "recording" /\ May("outages") /\ Use("outages")
    /\ pc' = "verdict"
    /\ UNCHANGED <<memory, ret, payload, saved, tap, files, diskOk, boot, shown, history>>

AppendOverrun ==
    /\ pc = "auditing"
    /\ overruns' = IF diskOk THEN [overruns EXCEPT ![tap.batch] = @ + 1] ELSE overruns
    /\ pc' = "verdict"
    /\ UNCHANGED <<memory, ret, payload, saved, tap, disk, source, sourceDisk, diskOk,
                   boot, shown, history, used>>

EmitVerdict ==
    /\ pc = "verdict"
    /\ station' = RecordVerdict(station, tap.verdict, tap.updated)
    /\ waits' = waits \cup {"verdict"}
    /\ Commit(tap.verdict, "idle")
    /\ UNCHANGED <<ledger, emits, blip, tap, files, diskOk, boot, shown, history, used>>
-----------------------------------------------------------------------------
(* on_tick: persistence probe, then blip expiry, then the end-shift loop.  *)

\* Faulty: probed only on a line that is up, which a broken one never is.
ProbeDueFaulty == ~station.persistOk /\ station.connected
ProbeDue == ~station.persistOk

\* Faulty: the probe tells whether a write would succeed and writes nothing.
ProbedFaulty == disk
Probed == Written(ToPersisted(station))

Tick ==
    /\ Idle
    /\ IF ProbeDue
       THEN /\ pc' = "health" /\ ret' = "blip"
            /\ saved' = diskOk
            /\ disk' = Probed
            /\ resetFailed' = (resetFailed /\ ~diskOk)
       ELSE pc' = "blip" /\ UNCHANGED <<ret, saved, disk, resetFailed>>
    /\ UNCHANGED <<memory, payload, tap, source, sourceDisk, overruns, diskOk, boot,
                   shown, keyed, strikes, notReady, used>>

BlipExpired == blip /\ "blip" \notin waits

TickBlip ==
    /\ pc = "blip"
    /\ IF BlipExpired
       THEN /\ blip' = FALSE
            /\ CommitFlip(SetConnectionInputs(station, station.reader, TRUE), "endshift")
       ELSE pc' = "endshift" /\ UNCHANGED <<station, blip, ret, payload, saved>>
    /\ UNCHANGED <<ledger, waits, emits, tap, files, diskOk, boot, shown, history, used>>

\* Faulty: waits for a shift that need not exist.
DeliverableFaulty ==
    /\ station.pending /\ ~Conformance /\ station.connected /\ station.shift # None
    /\ waits \cap {"verdict", "boot", "emit"} = {}

Deliverable ==
    /\ station.pending
    /\ ~Conformance
    /\ station.connected
    /\ waits \cap {"verdict", "boot", "emit"} = {}

TickEndShift ==
    /\ pc = "endshift"
    /\ IF Deliverable
       THEN Commit("end-shift", "confirm")
       ELSE pc' = "idle" /\ UNCHANGED <<ret, payload, saved>>
    /\ UNCHANGED <<memory, tap, files, diskOk, boot, shown, history, used>>

\* After the commit of an emission: the second one ends the shift.
ConfirmEmission ==
    /\ pc = "confirm"
    /\ emits' = emits + 1
    /\ waits' = waits \cup {"emit"}
    /\ IF emits' >= EndShiftEmitsToConfirm
       THEN station' = MarkShiftEnded(station) /\ Commit("none", "idle")
       ELSE pc' = "idle" /\ UNCHANGED <<station, ret, payload, saved>>
    /\ UNCHANGED <<ledger, blip, tap, files, diskOk, boot, shown, history, used>>
-----------------------------------------------------------------------------
(* The environment.                                                        *)

\* A quiet window or timer runs out.
Elapse(w) ==
    /\ w \in waits
    /\ waits' = waits \ {w}
    /\ UNCHANGED <<station, ledger, emits, blip, handler, files, diskOk, boot, shown,
                   history, used>>

\* The page is loaded again and boots from the boot cache.
PageBoot ==
    /\ shown' = boot
    /\ UNCHANGED <<memory, handler, files, diskOk, boot, history, used>>

DiskBreaks ==
    /\ diskOk /\ May("faults") /\ Use("faults")
    /\ diskOk' = FALSE
    /\ UNCHANGED <<memory, handler, files, boot, shown, history>>

DiskHeals ==
    /\ ~diskOk
    /\ diskOk' = TRUE
    /\ UNCHANGED <<memory, handler, files, boot, shown, history, used>>

\* The process is killed at any point and started again: what was in memory is
\* gone, the rest is read back from the files.
CrashRestart ==
    /\ May("crashes") /\ Use("crashes")
    /\ \E ready \in BOOLEAN : /\ station' = Booted(OnStart(disk), ready)
                              /\ notReady' = ~ready
    /\ disk' = IF Conformance THEN Written(FreshSession) ELSE disk
    /\ source' = sourceDisk
    /\ ledger' = NoFailures /\ strikes' = NoFailures
    /\ waits' = {"boot"} /\ emits' = 0 /\ blip' = FALSE
    /\ pc' = "idle" /\ ret' = "idle" /\ payload' = "none" /\ saved' = TRUE /\ tap' = NoTap
    /\ boot' = Snapshot(station') /\ shown' = Snapshot(station')
    /\ resetFailed' = (Conformance /\ ~diskOk)
    /\ keyed' = IF Conformance THEN [b \in Batches |-> 0] ELSE keyed
    /\ UNCHANGED <<sourceDisk, overruns, diskOk>>
-----------------------------------------------------------------------------
CommitStep == Persist \/ Push \/ UpdatePersistHealth

KeyChip == ChipKeyed \/ RecoverableFailure \/ PermanentFailure \/ KeyingNotReady

HandlerStep == \/ CommitStep
               \/ KeyChip
               \/ RecordOutcome \/ RecordOutcomeFails \/ AppendOverrun \/ EmitVerdict
               \/ TickBlip \/ TickEndShift \/ ConfirmEmission

Message == \/ \E b \in Batches : BeginShiftMsg(b) \/ SwapBatchMsg(b)
           \/ EndShiftCmd \/ BeginEndShift \/ BridgeAttached \/ BootPulled
           \/ \E present \in BOOLEAN : ReaderPresence(present)
           \/ \E ready \in BOOLEAN : SetDownstream(ready)
           \/ Blip
           \/ ResetDemo \/ ConformanceReset
           \/ \E c \in Chips : CardPresented(c)

Environment == \/ \E w \in Windows : Elapse(w)
               \/ PageBoot \/ DiskBreaks \/ DiskHeals \/ CrashRestart

Next == HandlerStep \/ Message \/ Tick \/ Environment

Spec == Init /\ [][Next]_vars

\* Time passes, a started handler finishes, and the actor's select! picks a
\* due tick again and again however many messages arrive.
Fairness == /\ WF_vars(HandlerStep)
            /\ SF_vars(Tick)
            /\ \A w \in Windows : WF_vars(Elapse(w))

FairSpec == Spec /\ Fairness
-----------------------------------------------------------------------------
(* Safety.                                                                 *)

\* Steps at which no change of the session is waiting to be written.
Settled == {"idle", "keying", "recording", "auditing", "verdict", "blip", "endshift",
            "confirm"}

\* With the line's persistence healthy and nothing being committed, the session
\* file holds exactly the session in memory: a kill at any such moment, also
\* while a chip is being keyed, resumes it.  The one exception is a reset whose
\* write failed, which the code only logs.
DurableWhileHealthy ==
    pc \in Settled /\ station.persistOk /\ ~resetFailed => disk = ToPersisted(station)

CountsOf(counts) == counts.done + counts.failed

SameShift(a, b) == a # None /\ b # None /\ a.id = b.id

\* The session file never lags the running shift by more than the tap in hand:
\* a failed write pauses the line before a second verdict can be lost with it.
AtMostOneTapAhead ==
    disk.shift # None /\ SameShift(station.shift, disk.shift.meta)
    => /\ CountsOf(disk.shift.counts) <= CountsOf(station.counts)
       /\ CountsOf(station.counts) <= CountsOf(disk.shift.counts) + 1

OnDisk(snapshot) ==
    /\ disk.shift # None
    /\ disk.shift.batch = snapshot.batch
    /\ disk.shift.counts = snapshot.counts

\* What the page has been shown of a running shift is on disk, or the line is
\* paused, or this very handler is about to pause it.
ShownAheadOnlyWhilePausing ==
    /\ station.shift # None /\ ~resetFailed
    /\ shown.batch = station.batch /\ shown.counts = station.counts
    /\ pc # "saving"
    => \/ OnDisk(shown)
       \/ ~station.persistOk
       \/ pc \in {"pushing", "health"} /\ ~saved

\* Between messages the boot cache is the present snapshot, whatever failed: a
\* page that loads then needs no correction.
BootCacheFresh == pc \in {"idle", "keying"} => boot = Snapshot(station)

\* A chip that keeps failing gets two retry verdicts at most in one session of
\* the process, then it is dead: the ledger and what was pushed agree.
NoFourthChance == \A c \in Chips : strikes[c] < EscalationThreshold

Killed == used'.crashes > used.crashes

KeepsCounts ==
    SameShift(station.shift, station'.shift)
    => CountsOf(station.counts) <= CountsOf(station'.counts) + (IF Killed THEN 1 ELSE 0)

\* Within a shift the counts never go back, but for the one tap a kill can take.
CountsNeverGoBack == [][KeepsCounts]_vars

\* What can come between a keyed chip and its count in a file.
Losses == used.crashes + used.faults + used.outages

\* Policy "block": chips keyed past a batch's total are bounded by the kills (one
\* between keying and saving loses the count of one chip), the failed writes and
\* the source's errors; with none of them the total holds exactly.
BlockBound ==
    OverrunPolicy = "block" => \A b \in Batches : keyed[b] <= Total[b] + Losses

\* overruns.jsonl accounts for every chip the source has past the total, but for
\* those a kill or a failed append took.
OverrunsAudited ==
    Idle => \A b \in Batches : source[b].completed <= Total[b] + overruns[b] + Losses

\* Once the keying layer or its watcher has said "not ready" the line stays down
\* until the watcher reports recovery, as long as the sim console sent no blip
\* (a blip that runs out sets the leg, whatever the layer last said).
PauseHeldUntilReady == used.blips = 0 /\ notReady => ~station.downstream
-----------------------------------------------------------------------------
(* The recovery contract.                                                  *)

\* The shift a process that starts from this session resumes.
Resumed(session) ==
    IF session.shift = None THEN [state |-> "none", id |-> 0, counts |-> ZeroCounts]
    ELSE [state |-> "running", id |-> session.shift.meta.id, counts |-> session.shift.counts]

\* Through every commit, failed write, pause, probe, swap, reset and kill, a verdict is
\* counted only when all the others are on disk, and a restart resumes what is there.
Contract == INSTANCE RecoveryContract WITH
    Volatile <- Conformance,
    live <- Resumed(ToPersisted(station)), durable <- Resumed(disk),
    begun <- used.shifts, resets <- used.resets
ImplementsContract == Contract!Spec
-----------------------------------------------------------------------------
(* Claims of the documentation that the code does not keep.                *)

\* "Persist happens before emit": whenever the line takes taps, every count it has
\* shown would be restored by a restart.
CountsRecoverable ==
    Idle /\ station.connected => New(disk).counts = station.counts

\* Policy "block": the batch source never records a chip past the batch's total.
NoChipPastTotal == \A b \in Batches : source[b].completed <= Total[b]

-----------------------------------------------------------------------------
(* Liveness.                                                               *)

LegsUp == station.reader /\ station.downstream /\ diskOk

\* Every verdict and every boot of a page opens its quiet window anew, and a request
\* made again forgets the emissions there were: each postpones a requested end.
Postpones == EmitVerdict \/ BootPulled \/ BeginEndShift

\* A requested end of shift, also one resumed after a kill, is resolved once the reader,
\* the keying layer and the disk stay up and verdicts, boots and requests stop: on a
\* line that never comes to rest it can wait for ever.  (A conformance process never
\* delivers one.)
EndShiftResolves ==
    ~Conformance /\ <>[]LegsUp /\ <>[][~Postpones]_vars => []<>~station.pending

\* Once they stay up the line resumes by itself: a failed write is probed again
\* at every tick until it succeeds.
LineResumes == <>[]LegsUp => <>[]station.connected
=============================================================================
