-------------------------- MODULE StationCoreProofs --------------------------
(***************************************************************************)
(* Theorems about StationCore, for every set of batches and chips, every   *)
(* policy and every bound, in four parts: the invariants of the running    *)
(* handler, the station, its files and its pages; that the station         *)
(* recovers as RecoveryContract says, and what a page is given and shows;  *)
(* what losses can cost a batch and its records; and when the claims that  *)
(* the code does not always keep hold.                                     *)
(*                                                                         *)
(* The invariants that the runs check are not inductive: Inv below         *)
(* strengthens them with what links the step of the running handler to the *)
(* tap in hand, to the files and to the history.                           *)
(***************************************************************************)
EXTENDS StationCore, TLAPS

\* A tap in hand has a chip, a batch and, once keyed, a verdict; its steps run on
\* a line that is connected; nothing else carries one.
TapInv ==
    /\ pc \in {"keying", "recording", "auditing", "verdict"}
       => tap.chip \in Chips /\ tap.batch \in Batches /\ station.connected
    /\ pc = "keying" => tap.verdict = "none"
    /\ pc \in {"recording", "auditing"} => tap.verdict \in {"success", "dead"}
    /\ pc = "verdict" => tap.verdict \in Verdicts
    /\ pc \in {"saving", "pushing"} /\ payload \in Verdicts
       => tap.chip \in Chips /\ tap.verdict = payload
    /\ pc \in {"saving", "pushing"} /\ payload \notin Verdicts => tap = NoTap
    /\ pc \in {"idle", "health", "blip", "endshift", "confirm"} => tap = NoTap

\* A continuation is held during a commit only, and a shift end is pending for as
\* long as its emission is being committed or counted.
CommitInv ==
    /\ pc \notin {"saving", "pushing", "health"} => ret = "idle"
    /\ pc = "confirm" \/ ret = "confirm" => station.pending
    /\ station.pending => emits < EndShiftEmitsToConfirm
    /\ station.connected => station.persistOk

\* What is on disk: a write that succeeded during the commit, everything when no
\* commit runs; after a failed reset there is no shift to lose.
DiskInv ==
    /\ pc \in {"pushing", "health"} /\ saved => disk = ToPersisted(station) /\ ~resetFailed
    /\ pc \in Settled /\ station.persistOk /\ resetFailed => station.shift = None

\* Shifts are numbered in the order in which they begin.
ShiftInv ==
    /\ station.shift # None => station.shift.id <= used.shifts
    /\ disk.shift # None => disk.shift.meta.id <= used.shifts

\* The ledger and the verdicts that were shown agree but for the tap in hand.
StrikeInv ==
    \A c \in Chips :
       /\ tap.chip = c /\ tap.verdict \in {"success", "dead"}
          => strikes[c] < EscalationThreshold /\ ledger[c] = 0
       /\ tap.chip = c /\ tap.verdict = "retry" => strikes[c] + 1 = ledger[c]
       /\ tap.chip # c \/ tap.verdict = "none" => strikes[c] = ledger[c]

Inv == /\ TypeOK /\ TapInv /\ CommitInv
       /\ DiskInv /\ DurableWhileHealthy
       /\ ShiftInv /\ AtMostOneTapAhead
       /\ StrikeInv
-----------------------------------------------------------------------------
(* What the operators of StationState keep.                                *)

\* The snapshot and the session of a station state have their types.
LEMMA ViewTypes ==
    ASSUME NEW st \in Station
    PROVE  Snapshot(st) \in StationSnapshot /\ ToPersisted(st) \in PersistedSession
  BY DEF Station, Snapshot, StationSnapshot, ToPersisted, PersistedSession, PersistedShift

\* The connection legs touch nothing of the session, and a line that is connected
\* has its persistence healthy.
LEMMA LegsKeepSession ==
    ASSUME NEW st \in Station, NEW r \in BOOLEAN, NEW d \in BOOLEAN
    PROVE  LET new == SetConnectionInputs(st, r, d)
           IN /\ new \in Station
              /\ new.shift = st.shift /\ new.counts = st.counts
              /\ new.pending = st.pending /\ new.persistOk = st.persistOk
              /\ ToPersisted(new) = ToPersisted(st)
              /\ new.connected => new.persistOk
  BY DEF SetConnectionInputs, RecomputeConnection, Station, ToPersisted

LEMMA HealthKeepsSession ==
    ASSUME NEW st \in Station, NEW ok \in BOOLEAN
    PROVE  LET new == SetPersistOk(st, ok)
           IN /\ new \in Station
              /\ new.shift = st.shift /\ new.counts = st.counts
              /\ new.pending = st.pending /\ new.persistOk = ok
              /\ ToPersisted(new) = ToPersisted(st)
              /\ new.connected => ok
  BY DEF SetPersistOk, RecomputeConnection, Station, ToPersisted

\* Loading a session and writing it again gives the same session.
LEMMA LoadedIsSaved ==
    ASSUME NEW p \in PersistedSession
    PROVE  /\ New(p) \in Station
           /\ ToPersisted(New(p)) = p
           /\ New(p).persistOk /\ ~New(p).connected
           /\ New(p).pending = p.pending
           /\ p.shift = None => New(p).shift = None
           /\ p.shift # None => /\ New(p).shift = p.shift.meta
                                /\ New(p).counts = p.shift.counts
  BY NoneAssumption DEF New, Station, PersistedSession, PersistedShift, ToPersisted, ZeroCounts,
     SessionCounts, BatchInfo, ShiftMeta

LEMMA FreshIsSession == FreshSession \in PersistedSession
  BY DEF FreshSession, PersistedSession

\* Reading a shift's counts out of a session.
LEMMA PersistedFields ==
    ASSUME NEW st \in Station, ToPersisted(st).shift # None
    PROVE  /\ st.shift # None
           /\ ToPersisted(st).shift.meta = st.shift
           /\ ToPersisted(st).shift.counts = st.counts
  BY DEF ToPersisted, Station

LEMMA ShiftOperators ==
    ASSUME NEW st \in Station, NEW b \in BatchInfo, NEW n \in Nat
    PROVE  /\ BeginShift(st, b, n) \in Station
           /\ BeginShift(st, b, n).shift = [id |-> n, ended |-> FALSE]
           /\ BeginShift(st, b, n).pending = FALSE
           /\ SwapBatch(st, b) \in Station
           /\ SwapBatch(st, b).shift = st.shift /\ SwapBatch(st, b).counts = st.counts
           /\ SwapBatch(st, b).pending = st.pending
           /\ BeginShift(st, b, n).connected = st.connected
           /\ BeginShift(st, b, n).persistOk = st.persistOk
           /\ SwapBatch(st, b).connected = st.connected
           /\ SwapBatch(st, b).persistOk = st.persistOk
  BY DEF BeginShift, SwapBatch, Station, BatchInfo, ShiftMeta, SessionCounts, ZeroCounts

LEMMA EndOperators ==
    ASSUME NEW st \in Station
    PROVE  /\ MarkShiftEnded(st) \in Station
           /\ st.shift = None => MarkShiftEnded(st).shift = None
           /\ st.shift # None => /\ MarkShiftEnded(st).shift # None
                                 /\ MarkShiftEnded(st).shift.id = st.shift.id
           /\ MarkShiftEnded(st).pending = FALSE
           /\ ArmEndShift(st) \in Station
           /\ ArmEndShift(st).shift = st.shift
           /\ MarkShiftEnded(st).counts = st.counts
           /\ MarkShiftEnded(st).connected = st.connected
           /\ MarkShiftEnded(st).persistOk = st.persistOk
           /\ ArmEndShift(st).counts = st.counts
           /\ ArmEndShift(st).connected = st.connected
           /\ ArmEndShift(st).persistOk = st.persistOk
  BY NoneAssumption DEF MarkShiftEnded, ArmEndShift, Station, ShiftMeta

\* A verdict moves the counts by one at most and nothing else of the shift.
LEMMA VerdictOperator ==
    ASSUME NEW st \in Station, NEW v \in Verdicts, NEW b \in BatchInfo \cup {None}
    PROVE  LET new == RecordVerdict(st, v, b)
           IN /\ new \in Station
              /\ new.shift = st.shift /\ new.pending = st.pending
              /\ new.connected = st.connected /\ new.persistOk = st.persistOk
              /\ CountsOf(new.counts) \in {CountsOf(st.counts), CountsOf(st.counts) + 1}
<1> DEFINE counted == CountVerdict(st.counts, v)
           adopted == Adopt(st.batch, b)
           new == RecordVerdict(st, v, b)
<1>1. counted \in SessionCounts /\ CountsOf(counted) = CountsOf(st.counts) + 1
  BY DEF CountVerdict, Station, SessionCounts, CountsOf
<1>2. adopted \in BatchInfo \cup {None}
  BY DEF Adopt, Station
<1>3. CountsOf(st.counts) \in Nat
  BY DEF Station, SessionCounts, CountsOf
<1>4. CASE v = "retry"
  BY <1>3, <1>4 DEF RecordVerdict
<1>5. CASE v # "retry"
  <2>1. new = [st EXCEPT !.batch = adopted, !.counts = counted]
    BY <1>5 DEF RecordVerdict
  <2> HIDE DEF adopted, counted, new
  <2>2. QED
    BY <1>1, <1>2, <2>1 DEF Station, new
<1>6. QED
  BY <1>4, <1>5

\* The state both resets install.
LEMMA FreshStation ==
    ASSUME NEW r \in BOOLEAN, NEW d \in BOOLEAN, NEW ok \in BOOLEAN
    PROVE  LET new == SetPersistOk(SetConnectionInputs(New(FreshSession), r, d), ok)
           IN /\ new \in Station
              /\ new.shift = None /\ new.pending = FALSE /\ new.persistOk = ok
              /\ new.connected => ok
              /\ ToPersisted(new) = FreshSession
<1> DEFINE blank == New(FreshSession)
           legs == SetConnectionInputs(blank, r, d)
<1>1. blank \in Station /\ ToPersisted(blank) = FreshSession
  BY FreshIsSession, LoadedIsSaved
<1>2. blank.shift = None /\ blank.pending = FALSE
  BY DEF New, FreshSession
<1> HIDE DEF blank
<1>3. /\ legs \in Station /\ legs.shift = None /\ legs.pending = FALSE
      /\ ToPersisted(legs) = FreshSession
  <2>1. /\ legs \in Station
        /\ legs.shift = blank.shift /\ legs.pending = blank.pending
        /\ ToPersisted(legs) = ToPersisted(blank)
    BY <1>1, LegsKeepSession
  <2> HIDE DEF legs
  <2>2. QED
    BY <1>1, <1>2, <2>1
<1> HIDE DEF legs
<1>4. QED
  BY <1>3, HealthKeepsSession DEF legs, blank

\* A change of the legs, committed if it flips the connection.
LEMMA FlipKeeps ==
    ASSUME station \in Station, NEW r \in BOOLEAN, NEW d \in BOOLEAN, NEW next,
           CommitFlip(SetConnectionInputs(station, r, d), next)
    PROVE  /\ station' \in Station
           /\ station'.shift = station.shift /\ station'.counts = station.counts
           /\ station'.pending = station.pending /\ station'.persistOk = station.persistOk
           /\ ToPersisted(station') = ToPersisted(station)
           /\ station'.connected => station'.persistOk
           /\ saved' = saved
           /\ \/ pc' = "saving" /\ ret' = next /\ payload' = "connection"
              \/ pc' = next /\ ret' = ret /\ payload' = payload
<1>1. station' = SetConnectionInputs(station, r, d)
  BY DEF CommitFlip
<1>2. /\ saved' = saved
      /\ \/ pc' = "saving" /\ ret' = next /\ payload' = "connection"
         \/ pc' = next /\ ret' = ret /\ payload' = payload
  BY DEF CommitFlip, Commit
<1>3. QED
  BY <1>1, <1>2, LegsKeepSession

-----------------------------------------------------------------------------
(* Type correctness.                                                       *)

LEMMA MergedType ==
    ASSUME NEW s \in [Batches -> Progress], NEW b \in Batches
    PROVE  Merged(s, b) \in BatchInfo
  BY DEF Merged, BatchInfo, Progress

LEMMA RecordProgressType ==
    ASSUME NEW p \in Progress, NEW v
    PROVE  RecordProgress(p, v) \in Progress
  BY DEF RecordProgress, Progress

LEMMA BootedType ==
    ASSUME NEW p \in PersistedSession, NEW ready \in BOOLEAN
    PROVE  Booted(p, ready) \in Station
  BY LoadedIsSaved, LegsKeepSession DEF Booted

\* What a start reads back from the session file.
LEMMA BootedSession ==
    ASSUME NEW p \in PersistedSession, NEW ready \in BOOLEAN
    PROVE  LET new == Booted(p, ready)
           IN /\ p.shift = None => new.shift = None
              /\ p.shift # None => new.shift = p.shift.meta /\ new.counts = p.shift.counts
              /\ ToPersisted(new) = p
<1> DEFINE st == New(p)
<1>1. /\ st \in Station
      /\ p.shift = None => st.shift = None
      /\ p.shift # None => st.shift = p.shift.meta /\ st.counts = p.shift.counts
      /\ ToPersisted(st) = p
  BY LoadedIsSaved
<1> HIDE DEF st
<1>2. FALSE \in BOOLEAN
  OBVIOUS
<1>3. Booted(p, ready) = SetConnectionInputs(st, FALSE, ready)
  BY Zenon DEF Booted, st
<1> DEFINE new == SetConnectionInputs(st, FALSE, ready)
<1>4. /\ new.shift = st.shift /\ new.counts = st.counts
      /\ ToPersisted(new) = ToPersisted(st)
  BY <1>1, <1>2, LegsKeepSession
<1> HIDE DEF new
<1>5. Booted(p, ready) = new
  BY <1>3 DEF new
<1>6. QED
  BY <1>1, <1>4, <1>5

\* A start reads the session file, or an empty session in a conformance process.
LEMMA StartsFrom ==
    ASSUME TypeOK, CrashRestart
    PROVE  /\ OnStart(disk) \in PersistedSession
           /\ station' \in Station
           /\ ToPersisted(station') = OnStart(disk)
           /\ OnStart(disk).shift = None => station'.shift = None
           /\ OnStart(disk).shift # None => /\ station'.shift = OnStart(disk).shift.meta
                                            /\ station'.counts = OnStart(disk).shift.counts
<1>1. OnStart(disk) \in PersistedSession
  BY FreshIsSession DEF OnStart, TypeOK
<1>2. PICK ready \in BOOLEAN : station' = Booted(OnStart(disk), ready)
  BY DEF CrashRestart
<1>3. QED
  BY <1>1, <1>2, BootedType, BootedSession

LEMMA UseCounts ==
    ASSUME used \in [Limited -> Nat], NEW w \in Limited, Use(w)
    PROVE  used' \in [Limited -> Nat] /\ used'[w] = used[w] + 1
           /\ \A k \in Limited \ {w} : used'[k] = used[k]
  BY DEF Use

\* A step counts one event at most.
LEMMA StepUses == [Next]_vars => used' = used \/ \E w \in Limited : Use(w)
<1> USE DEF Limited
<1>1. CommitStep \/ KeyChip => used' = used
  BY DEF CommitStep, Persist, Push, UpdatePersistHealth, history, KeyChip, ChipKeyed,
         RecoverableFailure, PermanentFailure, KeyingNotReady
<1>2. RecordOutcome \/ AppendOverrun \/ EmitVerdict \/ TickBlip \/ TickEndShift
      \/ ConfirmEmission \/ Tick => used' = used
  BY DEF RecordOutcome, AppendOverrun, EmitVerdict, TickBlip, TickEndShift,
         ConfirmEmission, Tick, history
<1>3. RecordOutcomeFails => Use("outages")
  BY DEF RecordOutcomeFails
<1>4. ASSUME Message PROVE used' = used \/ \E w \in Limited : Use(w)
  <2>1. ASSUME NEW b \in Batches, BeginShiftMsg(b) \/ SwapBatchMsg(b)
        PROVE  used' = used \/ Use("shifts")
    BY <2>1 DEF BeginShiftMsg, SwapBatchMsg, history
  <2>2. EndShiftCmd \/ BeginEndShift => Use("ends")
    BY DEF EndShiftCmd, BeginEndShift
  <2>3. BridgeAttached => used' = used
    BY DEF BridgeAttached, history
  <2>4. BootPulled => used' = used
    BY DEF BootPulled
  <2>5. ASSUME NEW x \in BOOLEAN, ReaderPresence(x) \/ SetDownstream(x) PROVE used' = used
    BY <2>5 DEF ReaderPresence, SetDownstream, history
  <2>6. Blip => Use("blips")
    BY DEF Blip
  <2>7. ResetDemo \/ ConformanceReset => Use("resets")
    BY DEF ResetDemo, ConformanceReset, ResetTo
  <2>8. ASSUME NEW c \in Chips, CardPresented(c) PROVE Use("taps")
    BY <2>8 DEF CardPresented
  <2>9. QED
    BY <1>4, <2>1, <2>2, <2>3, <2>4, <2>5, <2>6, <2>7, <2>8 DEF Message
<1>5. ASSUME Environment PROVE used' = used \/ \E w \in Limited : Use(w)
  <2>1. ASSUME NEW w \in Windows, Elapse(w) PROVE used' = used
    BY <2>1 DEF Elapse, history
  <2>2. PageBoot \/ DiskHeals => used' = used
    BY DEF PageBoot, DiskHeals, history
  <2>3. DiskBreaks => Use("faults")
    BY DEF DiskBreaks
  <2>4. CrashRestart => Use("crashes")
    BY DEF CrashRestart
  <2>5. QED
    BY <1>5, <2>1, <2>2, <2>3, <2>4 DEF Environment
<1>6. UNCHANGED vars => used' = used
  BY DEF vars
<1>7. QED
  BY <1>1, <1>2, <1>3, <1>4, <1>5, <1>6 DEF Next, HandlerStep

\* The shift a begin installs.
LEMMA BeganShift ==
    ASSUME TypeOK, NEW b \in Batches, BeginShiftMsg(b)
    PROVE  /\ station' \in Station
           /\ station'.shift = [id |-> used.shifts + 1, ended |-> FALSE]
           /\ station'.pending = FALSE
           /\ station'.connected = station.connected /\ station'.persistOk = station.persistOk
           /\ used'.shifts = used.shifts + 1
<1>1. used.shifts \in Nat /\ used'.shifts = used.shifts + 1
  BY UseCounts DEF BeginShiftMsg, TypeOK, Limited
<1>2. PICK n \in Nat : n = used.shifts + 1 /\ station' = BeginShift(station, Merged(source, b), n)
  BY <1>1 DEF BeginShiftMsg
<1>3. Merged(source, b) \in BatchInfo /\ station \in Station
  BY MergedType DEF TypeOK
<1>4. QED
  BY <1>1, <1>2, <1>3, ShiftOperators

LEMMA TypeInit == Init => TypeOK
<1> SUFFICES ASSUME Init PROVE TypeOK
  OBVIOUS
<1>1. station \in Station
  BY BootedType, FreshIsSession DEF Init
<1>2. Snapshot(station) \in StationSnapshot
  BY <1>1, ViewTypes
<1>3. tap \in Tap
  BY DEF Init, NoTap, Tap
<1>4. notReady \in BOOLEAN
  BY DEF Init
<1>5. source \in [Batches -> Progress] /\ sourceDisk \in [Batches -> Progress]
  BY DEF Init, NoProgress, Progress
<1>6. ledger \in [Chips -> 0 .. EscalationThreshold - 1] /\ strikes \in [Chips -> Nat]
  BY DEF Init, NoFailures, EscalationThreshold
<1>7. /\ overruns \in [Batches -> Nat] /\ keyed \in [Batches -> Nat]
      /\ used \in [Limited -> Nat]
  BY DEF Init
<1>8. waits \in SUBSET Windows /\ emits \in 0 .. EndShiftEmitsToConfirm
      /\ pc \in Steps /\ payload \in Payloads
  BY DEF Init, Windows, EndShiftEmitsToConfirm, Steps, Payloads
<1>9. QED
  BY <1>1, <1>2, <1>3, <1>4, <1>5, <1>6, <1>7, <1>8, FreshIsSession DEF Init, TypeOK

LEMMA TypeStep == TypeOK /\ TapInv /\ CommitInv /\ [Next]_vars => TypeOK'
<1> SUFFICES ASSUME TypeOK, TapInv, CommitInv, [Next]_vars
             PROVE  TypeOK'
  OBVIOUS
<1>1. CASE Persist
  <2>1. resetFailed' \in BOOLEAN
    BY <1>1 DEF Persist
  <2>2. saved' \in BOOLEAN /\ pc' \in Steps
    BY <1>1 DEF Persist, TypeOK, Steps
  <2>3. boot' \in StationSnapshot /\ disk' \in PersistedSession
    BY <1>1, ViewTypes DEF Persist, RefreshBootCache, Written, TypeOK
  <2>4. QED
    BY <1>1, <2>1, <2>2, <2>3 DEF Persist, TypeOK, memory
<1>2. CASE Push
  <2>1. shown' \in StationSnapshot
    BY <1>2, ViewTypes DEF Push, TypeOK
  <2>2. strikes' \in [Chips -> Nat]
    <3>1. CASE payload = "retry"
      BY <1>2, <3>1 DEF Push, TypeOK, TapInv, Verdicts
    <3>2. CASE payload \in {"success", "dead"}
      BY <1>2, <3>2 DEF Push, TypeOK
    <3>3. CASE payload \notin {"retry", "success", "dead"}
      BY <1>2, <3>3 DEF Push, TypeOK
    <3>4. QED
      BY <3>1, <3>2, <3>3
  <2>3. tap' \in Tap /\ pc' \in Steps
    BY <1>2 DEF Push, NoTap, Tap, Steps
  <2>4. QED
    BY <1>2, <2>1, <2>2, <2>3 DEF Push, TypeOK, memory, files
<1>3. CASE UpdatePersistHealth
  <2>1. station' \in Station
    BY <1>3, HealthKeepsSession DEF UpdatePersistHealth, TypeOK
  <2>2. Snapshot(station') \in StationSnapshot /\ ToPersisted(station') \in PersistedSession
    BY <2>1, ViewTypes
  <2>3. QED
    BY <1>3, <2>1, <2>2
    DEF UpdatePersistHealth, RefreshBootCache, Written, TypeOK, history, Steps, Payloads
<1>4. ASSUME NEW b \in Batches, BeginShiftMsg(b)
      PROVE  TypeOK'
  <2>1. used' \in [Limited -> Nat]
    BY <1>4, UseCounts DEF BeginShiftMsg, TypeOK, Limited
  <2>2. station' \in Station
    BY <1>4, <2>1, MergedType, ShiftOperators DEF BeginShiftMsg, TypeOK, Limited
  <2>3. QED
    BY <1>4, <2>1, <2>2
    DEF BeginShiftMsg, Commit, TypeOK, files, Steps, Payloads, NoFailures,
        EscalationThreshold, EndShiftEmitsToConfirm
<1>5. ASSUME NEW b \in Batches, SwapBatchMsg(b)
      PROVE  TypeOK'
  <2>1. station' \in Station
    BY <1>5, MergedType, ShiftOperators DEF SwapBatchMsg, TypeOK
  <2>2. QED
    BY <1>5, <2>1 DEF SwapBatchMsg, Commit, TypeOK, files, history, Steps, Payloads
<1>6. CASE EndShiftCmd
  <2>1. station' \in Station /\ used' \in [Limited -> Nat]
    BY <1>6, EndOperators, UseCounts DEF EndShiftCmd, Limited, TypeOK
  <2>2. QED
    BY <1>6, <2>1 DEF EndShiftCmd, Commit, TypeOK, files, history, Steps, Payloads
<1>7. CASE BeginEndShift
  <2>1. station' \in Station /\ used' \in [Limited -> Nat]
    BY <1>7, EndOperators, UseCounts DEF BeginEndShift, Limited, TypeOK
  <2>2. emits' \in 0 .. EndShiftEmitsToConfirm /\ waits' \in SUBSET Windows
    BY <1>7 DEF BeginEndShift, TypeOK, EndShiftEmitsToConfirm
  <2>3. QED
    BY <1>7, <2>1, <2>2 DEF BeginEndShift, Commit, TypeOK, files, history, Steps, Payloads
<1>8. CASE BridgeAttached
  BY <1>8 DEF BridgeAttached, Commit, TypeOK, memory, files, history, Steps, Payloads
<1>9. CASE BootPulled
  BY <1>9 DEF BootPulled, TypeOK, handler, files, history, Windows
<1>10. ASSUME NEW present \in BOOLEAN, ReaderPresence(present)
       PROVE  TypeOK'
  <2>1. station' \in Station
    BY <1>10, LegsKeepSession DEF ReaderPresence, CommitFlip, TypeOK, Station
  <2>2. QED
    BY <1>10, <2>1
    DEF ReaderPresence, CommitFlip, Commit, TypeOK, files, history, Steps, Payloads
<1>11. ASSUME NEW ready \in BOOLEAN, SetDownstream(ready)
       PROVE  TypeOK'
  <2>1. station' \in Station
    BY <1>11, LegsKeepSession DEF SetDownstream, CommitFlip, TypeOK, Station
  <2>2. QED
    BY <1>11, <2>1
    DEF SetDownstream, CommitFlip, Commit, TypeOK, files, Steps, Payloads
<1>12. CASE Blip
  <2>1. station' \in Station
    BY <1>12, LegsKeepSession DEF Blip, CommitFlip, TypeOK, Station
  <2>2. QED
    BY <1>12, <2>1, UseCounts
    DEF Blip, Limited, CommitFlip, Commit, TypeOK, files, history, Steps, Payloads, Windows
<1>13. ASSUME NEW r \in BOOLEAN, NEW d \in BOOLEAN, NEW ok \in BOOLEAN, ResetTo(r, d, ok),
              waits' \in SUBSET Windows, emits' \in 0 .. EndShiftEmitsToConfirm,
              notReady' \in BOOLEAN
       PROVE  TypeOK'
  <2>1. station' \in Station
    BY <1>13, FreshIsSession, LoadedIsSaved, LegsKeepSession, HealthKeepsSession DEF ResetTo
  <2>2. Snapshot(station') \in StationSnapshot
    BY <2>1, ViewTypes
  <2>3. used' \in [Limited -> Nat]
    BY <1>13, UseCounts DEF ResetTo, TypeOK, Limited
  <2>4. resetFailed' \in BOOLEAN
    BY <1>13 DEF ResetTo
  <2>5. QED
    BY <1>13, <2>1, <2>2, <2>3, <2>4, FreshIsSession
    DEF ResetTo, RefreshBootCache, Written, TypeOK, handler, NoFailures, NoProgress,
        Progress, EscalationThreshold
<1>14. CASE ResetDemo
  <2>1. /\ station.reader \in BOOLEAN /\ station.downstream \in BOOLEAN
        /\ station.persistOk \in BOOLEAN
    BY DEF TypeOK, Station
  <2>2. /\ waits' \in SUBSET Windows /\ emits' \in 0 .. EndShiftEmitsToConfirm
        /\ notReady' \in BOOLEAN
    BY <1>14 DEF ResetDemo, TypeOK
  <2>3. QED
    BY <1>14, <1>13, <2>1, <2>2 DEF ResetDemo
<1>15. CASE ConformanceReset
  <2>1. /\ waits' \in SUBSET Windows /\ emits' \in 0 .. EndShiftEmitsToConfirm
        /\ notReady' = FALSE
    BY <1>15 DEF ConformanceReset, TypeOK, EndShiftEmitsToConfirm
  <2>2. ResetTo(TRUE, TRUE, TRUE)
    BY <1>15 DEF ConformanceReset
  <2>3. QED
    BY <1>13, <2>1, <2>2, Zenon
<1>16. ASSUME NEW c \in Chips, CardPresented(c)
       PROVE  TypeOK'
  <2>1. tap' \in Tap
    BY <1>16 DEF CardPresented, TypeOK, Station, BatchInfo, NoTap, Tap
  <2>2. QED
    BY <1>16, <2>1, UseCounts DEF CardPresented, Limited, TypeOK, memory, files, history, Steps
<1>17. CASE ChipKeyed
  <2>1. tap' \in Tap /\ ledger' \in [Chips -> 0 .. EscalationThreshold - 1]
    BY <1>17 DEF ChipKeyed, TypeOK, TapInv, Tap, Verdicts, EscalationThreshold
  <2>2. keyed' \in [Batches -> Nat]
    BY <1>17 DEF ChipKeyed, TypeOK, TapInv
  <2>3. QED
    BY <1>17, <2>1, <2>2 DEF ChipKeyed, TypeOK, files, Steps
<1>18. CASE RecoverableFailure
  <2>1. ledger' \in [Chips -> 0 .. EscalationThreshold - 1]
    BY <1>18 DEF RecoverableFailure, Escalates, TypeOK, TapInv, EscalationThreshold
  <2>2. tap' \in Tap /\ pc' \in Steps
    BY <1>18 DEF RecoverableFailure, TypeOK, Tap, Verdicts, Steps
  <2>3. QED
    BY <1>18, <2>1, <2>2 DEF RecoverableFailure, TypeOK, files, history
<1>19. CASE PermanentFailure
  <2>1. tap' \in Tap /\ ledger' \in [Chips -> 0 .. EscalationThreshold - 1]
    BY <1>19 DEF PermanentFailure, TypeOK, TapInv, Tap, Verdicts, EscalationThreshold
  <2>2. QED
    BY <1>19, <2>1 DEF PermanentFailure, TypeOK, files, history, Steps
<1>20. CASE KeyingNotReady
  <2>1. station' \in Station
    BY <1>20, LegsKeepSession DEF KeyingNotReady, NotReadyStation, CommitFlip, TypeOK, Station
  <2>2. QED
    BY <1>20, <2>1
    DEF KeyingNotReady, CommitFlip, Commit, TypeOK, files, Steps, Payloads, NoTap, Tap
<1>21. CASE RecordOutcome
  <2>1. source' \in [Batches -> Progress]
    BY <1>21, RecordProgressType DEF RecordOutcome, TypeOK
  <2>2. Merged(source', tap.batch) \in BatchInfo
    BY <1>21, <2>1, MergedType DEF RecordOutcome, TapInv
  <2>3. tap' \in Tap
    BY <1>21, <2>2 DEF RecordOutcome, TypeOK, Tap
  <2>4. QED
    BY <1>21, <2>1, <2>3 DEF RecordOutcome, TypeOK, memory, history, Steps
<1>22. CASE RecordOutcomeFails
  BY <1>22, UseCounts DEF RecordOutcomeFails, Limited, TypeOK, memory, files, history, Steps
<1>23. CASE AppendOverrun
  BY <1>23 DEF AppendOverrun, TypeOK, TapInv, memory, history, Steps
<1>24. CASE EmitVerdict
  <2>1. station' \in Station
    BY <1>24, VerdictOperator DEF EmitVerdict, TypeOK, TapInv, Tap
  <2>2. QED
    BY <1>24, <2>1
    DEF EmitVerdict, Commit, TypeOK, TapInv, files, history, Steps, Payloads, Windows
<1>25. CASE Tick
  <2>1. resetFailed' \in BOOLEAN
    BY <1>25 DEF Tick, TypeOK
  <2>2. QED
    BY <1>25, <2>1, ViewTypes DEF Tick, Probed, Written, TypeOK, memory, Steps
<1>26. CASE TickBlip
  <2>1. station.reader \in BOOLEAN /\ station \in Station
    BY DEF TypeOK, Station
  <2>2. SetConnectionInputs(station, station.reader, TRUE) \in Station
    BY <2>1, LegsKeepSession
  <2>3. station' \in Station /\ blip' \in BOOLEAN
    BY <1>26, <2>1, <2>2 DEF TickBlip, CommitFlip, TypeOK
  <2>4. QED
    BY <1>26, <2>3
    DEF TickBlip, CommitFlip, Commit, TypeOK, files, history, Steps, Payloads
<1>27. CASE TickEndShift
  BY <1>27 DEF TickEndShift, Commit, TypeOK, memory, files, history, Steps, Payloads
<1>28. CASE ConfirmEmission
  <2>1. station' \in Station
    BY <1>28, EndOperators DEF ConfirmEmission, TypeOK
  <2>2. emits' \in 0 .. EndShiftEmitsToConfirm
    BY <1>28 DEF ConfirmEmission, TypeOK, CommitInv, EndShiftEmitsToConfirm
  <2>3. QED
    BY <1>28, <2>1, <2>2
    DEF ConfirmEmission, Commit, TypeOK, files, history, Steps, Payloads, Windows
<1>29. ASSUME NEW w \in Windows, Elapse(w)
       PROVE  TypeOK'
  BY <1>29 DEF Elapse, TypeOK, handler, files, history
<1>30. CASE PageBoot
  BY <1>30 DEF PageBoot, TypeOK, memory, handler, files, history
<1>31. CASE DiskBreaks
  BY <1>31, UseCounts DEF DiskBreaks, Limited, TypeOK, memory, handler, files, history
<1>32. CASE DiskHeals
  BY <1>32 DEF DiskHeals, TypeOK, memory, handler, files, history
<1>33. CASE CrashRestart
  <2>1. station' \in Station
    BY <1>33, StartsFrom
  <2>2. Snapshot(station') \in StationSnapshot
    BY <2>1, ViewTypes
  <2>3. tap' \in Tap
    BY <1>33 DEF CrashRestart, NoTap, Tap
  <2>4. notReady' \in BOOLEAN
    BY <1>33 DEF CrashRestart
  <2>5. used' \in [Limited -> Nat]
    BY <1>33, UseCounts DEF CrashRestart, Limited, TypeOK
  <2>6. ledger' \in [Chips -> 0 .. EscalationThreshold - 1] /\ strikes' \in [Chips -> Nat]
    BY <1>33 DEF CrashRestart, NoFailures, EscalationThreshold
  <2>7. /\ waits' \in SUBSET Windows /\ emits' \in 0 .. EndShiftEmitsToConfirm
        /\ pc' \in Steps /\ payload' \in Payloads /\ ret' = "idle"
    BY <1>33 DEF CrashRestart, Windows, EndShiftEmitsToConfirm, Steps, Payloads
  <2>8. boot' \in StationSnapshot /\ shown' \in StationSnapshot
    BY <1>33, <2>2 DEF CrashRestart
  <2>9. disk' \in PersistedSession /\ resetFailed' \in BOOLEAN
    BY <1>33, FreshIsSession DEF CrashRestart, Written, TypeOK
  <2>10. keyed' \in [Batches -> Nat]
    BY <1>33 DEF CrashRestart, TypeOK
  <2>11. QED
    BY <1>33, <2>1, <2>3, <2>4, <2>5, <2>6, <2>7, <2>8, <2>9, <2>10 DEF CrashRestart, TypeOK
<1>34. CASE UNCHANGED vars
  BY <1>34 DEF vars, TypeOK, memory, handler, files, history
<1>35. QED
  BY <1>1, <1>2, <1>3, <1>4, <1>5, <1>6, <1>7, <1>8, <1>9, <1>10, <1>11, <1>12, <1>14,
     <1>15, <1>16, <1>17, <1>18, <1>19, <1>20, <1>21, <1>22, <1>23, <1>24, <1>25, <1>26,
     <1>27, <1>28, <1>29, <1>30, <1>31, <1>32, <1>33, <1>34
  DEF Next, HandlerStep, CommitStep, KeyChip, Message, Environment
-----------------------------------------------------------------------------
(* The tap in hand and the commit in progress.                             *)

LEMMA TapStep == TypeOK /\ TapInv /\ [Next]_vars => TapInv'
<1> SUFFICES ASSUME TypeOK, TapInv, [Next]_vars
             PROVE  TapInv'
  OBVIOUS
<1> USE DEF TapInv
<1>1. CASE Persist
  BY <1>1 DEF Persist, memory, Verdicts
<1>2. CASE Push
  BY <1>2 DEF Push
<1>3. CASE UpdatePersistHealth
  BY <1>3 DEF UpdatePersistHealth, TypeOK
<1>4. ASSUME NEW b \in Batches, BeginShiftMsg(b) PROVE TapInv'
  BY <1>4 DEF BeginShiftMsg, Idle, Commit, Verdicts
<1>5. ASSUME NEW b \in Batches, SwapBatchMsg(b) PROVE TapInv'
  BY <1>5 DEF SwapBatchMsg, Idle, Commit, Verdicts
<1>6. CASE EndShiftCmd
  BY <1>6 DEF EndShiftCmd, Idle, Commit, Verdicts
<1>7. CASE BeginEndShift
  BY <1>7 DEF BeginEndShift, Idle, Commit, Verdicts
<1>8. CASE BridgeAttached
  BY <1>8 DEF BridgeAttached, Idle, Commit, Verdicts
<1>9. CASE BootPulled
  BY <1>9 DEF BootPulled, Idle, handler
<1>10. ASSUME NEW present \in BOOLEAN, ReaderPresence(present) PROVE TapInv'
  BY <1>10 DEF ReaderPresence, Idle, CommitFlip, Commit, Verdicts
<1>11. ASSUME NEW ready \in BOOLEAN, SetDownstream(ready) PROVE TapInv'
  BY <1>11 DEF SetDownstream, Idle, CommitFlip, Commit, Verdicts
<1>12. CASE Blip
  BY <1>12 DEF Blip, Idle, CommitFlip, Commit, Verdicts
<1>13. CASE ResetDemo \/ ConformanceReset
  BY <1>13 DEF ResetDemo, ConformanceReset, ResetTo, Idle, handler
<1>14. ASSUME NEW c \in Chips, CardPresented(c) PROVE TapInv'
  <2>1. tap' = [batch |-> station.batch.id, chip |-> c, verdict |-> "none",
                updated |-> None]
    BY <1>14 DEF CardPresented, NoTap
  <2>2. station.batch.id \in Batches
    BY <1>14 DEF CardPresented, TypeOK, Station, BatchInfo
  <2>3. pc' = "keying" /\ station.connected /\ station' = station
    BY <1>14 DEF CardPresented, memory
  <2>4. QED
    BY <2>1, <2>2, <2>3
<1>15. CASE KeyChip
  <2>1. CASE ChipKeyed
    BY <2>1 DEF ChipKeyed, TypeOK, Tap
  <2>2. CASE RecoverableFailure
    BY <2>2 DEF RecoverableFailure, TypeOK, Tap, Verdicts
  <2>3. CASE PermanentFailure
    BY <2>3 DEF PermanentFailure, TypeOK, Tap
  <2>4. CASE KeyingNotReady
    BY <2>4 DEF KeyingNotReady, CommitFlip, Commit, Verdicts
  <2>5. QED
    BY <1>15, <2>1, <2>2, <2>3, <2>4 DEF KeyChip
<1>16. CASE RecordOutcome
  BY <1>16 DEF RecordOutcome, TypeOK, Tap, memory, Verdicts
<1>17. CASE RecordOutcomeFails
  BY <1>17 DEF RecordOutcomeFails, memory, Verdicts
<1>18. CASE AppendOverrun
  BY <1>18 DEF AppendOverrun, memory, Verdicts
<1>19. CASE EmitVerdict
  BY <1>19 DEF EmitVerdict, Commit
<1>20. CASE Tick
  BY <1>20 DEF Tick, Idle
<1>21. CASE TickBlip
  BY <1>21 DEF TickBlip, CommitFlip, Commit, Verdicts
<1>22. CASE TickEndShift
  BY <1>22 DEF TickEndShift, Commit, Verdicts
<1>23. CASE ConfirmEmission
  BY <1>23 DEF ConfirmEmission, Commit, Verdicts
<1>24. ASSUME NEW w \in Windows, Elapse(w) PROVE TapInv'
  BY <1>24 DEF Elapse, handler
<1>25. CASE PageBoot \/ DiskBreaks \/ DiskHeals
  BY <1>25 DEF PageBoot, DiskBreaks, DiskHeals, memory, handler
<1>26. CASE CrashRestart
  BY <1>26 DEF CrashRestart
<1>27. CASE UNCHANGED vars
  BY <1>27 DEF vars, memory, handler
<1>28. QED
  BY <1>1, <1>2, <1>3, <1>4, <1>5, <1>6, <1>7, <1>8, <1>9, <1>10, <1>11, <1>12, <1>13,
     <1>14, <1>15, <1>16, <1>17, <1>18, <1>19, <1>20, <1>21, <1>22, <1>23, <1>24, <1>25,
     <1>26, <1>27
  DEF Next, HandlerStep, CommitStep, Message, Environment

LEMMA CommitInvStep == TypeOK /\ TapInv /\ CommitInv /\ [Next]_vars => CommitInv'
<1> SUFFICES ASSUME TypeOK, TapInv, CommitInv, [Next]_vars
             PROVE  CommitInv'
  OBVIOUS
<1> USE DEF CommitInv, EndShiftEmitsToConfirm
<1>0. /\ station.reader \in BOOLEAN /\ station.downstream \in BOOLEAN
      /\ station.persistOk \in BOOLEAN /\ station \in Station
  BY DEF TypeOK, Station
<1>1. CASE Persist
  BY <1>1 DEF Persist, memory
<1>2. CASE Push
  BY <1>2 DEF Push, memory
<1>3. CASE UpdatePersistHealth
  <2>1. station'.pending = station.pending /\ (station'.connected => station'.persistOk)
    BY <1>3, <1>0, HealthKeepsSession DEF UpdatePersistHealth, TypeOK
  <2>2. QED
    BY <1>3, <2>1 DEF UpdatePersistHealth, TypeOK
<1>4. ASSUME NEW b \in Batches, BeginShiftMsg(b) PROVE CommitInv'
  <2>1. /\ station'.pending = FALSE
        /\ station'.connected = station.connected /\ station'.persistOk = station.persistOk
    BY <1>4, BeganShift
  <2>2. pc' = "saving" /\ ret' = "idle"
    BY <1>4 DEF BeginShiftMsg, Commit
  <2>3. QED
    BY <2>1, <2>2
<1>5. ASSUME NEW b \in Batches, SwapBatchMsg(b) PROVE CommitInv'
  <2>0. station' = SwapBatch(station, Merged(source, b))
    BY <1>5 DEF SwapBatchMsg
  <2>1. /\ station'.pending = station.pending
        /\ station'.connected = station.connected /\ station'.persistOk = station.persistOk
    BY <1>0, <2>0 DEF SwapBatch, Station
  <2>2. QED
    BY <1>5, <2>1 DEF SwapBatchMsg, Idle, Commit
<1>6. CASE EndShiftCmd
  BY <1>6, <1>0, EndOperators DEF EndShiftCmd, Idle, Commit
<1>7. CASE BeginEndShift
  <2>1. /\ station'.connected = station.connected /\ station'.persistOk = station.persistOk
    BY <1>7, <1>0, EndOperators DEF BeginEndShift
  <2>2. emits' = 0 /\ pc' = "saving" /\ ret' = "idle"
    BY <1>7 DEF BeginEndShift, Commit
  <2>3. QED
    BY <2>1, <2>2
<1>8. CASE BridgeAttached
  BY <1>8 DEF BridgeAttached, Idle, Commit, memory
<1>9. CASE BootPulled
  BY <1>9 DEF BootPulled, Idle, handler
<1>10. ASSUME NEW present \in BOOLEAN, ReaderPresence(present) PROVE CommitInv'
  BY <1>10, <1>0, FlipKeeps DEF ReaderPresence, Idle
<1>11. ASSUME NEW ready \in BOOLEAN, SetDownstream(ready) PROVE CommitInv'
  BY <1>11, <1>0, FlipKeeps DEF SetDownstream, Idle
<1>12. CASE Blip
  BY <1>12, <1>0, FlipKeeps DEF Blip, Idle
<1>13. ASSUME NEW r \in BOOLEAN, NEW d \in BOOLEAN, NEW ok \in BOOLEAN, ResetTo(r, d, ok),
              emits' \in Nat
       PROVE  CommitInv'
  <2>1. station'.pending = FALSE /\ (station'.connected => station'.persistOk)
    BY <1>13, FreshStation DEF ResetTo
  <2>2. QED
    BY <1>13, <2>1 DEF ResetTo, Idle, handler
<1>14. CASE ResetDemo
  BY <1>14, <1>13, <1>0 DEF ResetDemo, TypeOK
<1>15. CASE ConformanceReset
  <2>1. ResetTo(TRUE, TRUE, TRUE) /\ emits' \in Nat
    BY <1>15 DEF ConformanceReset
  <2>2. QED
    BY <1>13, <2>1, Zenon
<1>16. ASSUME NEW c \in Chips, CardPresented(c) PROVE CommitInv'
  BY <1>16 DEF CardPresented, Idle, memory
<1>17. CASE ChipKeyed \/ RecoverableFailure \/ PermanentFailure
  BY <1>17 DEF ChipKeyed, RecoverableFailure, PermanentFailure
<1>18. CASE KeyingNotReady
  BY <1>18, <1>0, FlipKeeps DEF KeyingNotReady, NotReadyStation
<1>19. CASE RecordOutcome \/ RecordOutcomeFails \/ AppendOverrun
  BY <1>19 DEF RecordOutcome, RecordOutcomeFails, AppendOverrun, memory
<1>20. CASE EmitVerdict
  BY <1>20, <1>0, VerdictOperator DEF EmitVerdict, Commit, TypeOK, TapInv, Tap
<1>21. CASE Tick
  BY <1>21 DEF Tick, Idle, memory
<1>22. CASE TickBlip
  <2>1. CASE BlipExpired
    <3>1. CommitFlip(SetConnectionInputs(station, station.reader, TRUE), "endshift")
      BY <1>22, <2>1 DEF TickBlip
    <3>2. TRUE \in BOOLEAN
      OBVIOUS
    <3>3. /\ station'.pending = station.pending /\ (station'.connected => station'.persistOk)
          /\ \/ pc' = "saving" /\ ret' = "endshift"
             \/ pc' = "endshift" /\ ret' = ret
      BY <1>0, <3>1, <3>2, FlipKeeps
    <3>4. QED
      BY <1>22, <3>3 DEF TickBlip
  <2>2. CASE ~BlipExpired
    BY <1>22, <2>2 DEF TickBlip
  <2>3. QED
    BY <2>1, <2>2
<1>23. CASE TickEndShift
  BY <1>23 DEF TickEndShift, Deliverable, Commit, memory
<1>24. CASE ConfirmEmission
  <2>1. ret = "idle" /\ emits' = emits + 1 /\ emits \in 0 .. 2
    BY <1>24 DEF ConfirmEmission, TypeOK
  <2>2. CASE emits' >= 2
    <3>1. station' = MarkShiftEnded(station) /\ pc' = "saving" /\ ret' = "idle"
      BY <1>24, <2>2 DEF ConfirmEmission, Commit
    <3>2. /\ station'.pending = FALSE /\ station'.connected = station.connected
          /\ station'.persistOk = station.persistOk
      BY <1>0, <3>1, EndOperators
    <3>3. QED
      BY <3>1, <3>2
  <2>3. CASE ~(emits' >= 2)
    <3>1. station' = station /\ pc' = "idle" /\ ret' = "idle"
      BY <1>24, <2>1, <2>3 DEF ConfirmEmission
    <3>2. QED
      BY <2>1, <2>3, <3>1
  <2>4. QED
    BY <2>2, <2>3
<1>25. ASSUME NEW w \in Windows, Elapse(w) PROVE CommitInv'
  BY <1>25 DEF Elapse, handler
<1>26. CASE PageBoot \/ DiskBreaks \/ DiskHeals
  BY <1>26 DEF PageBoot, DiskBreaks, DiskHeals, memory, handler
<1>27. CASE CrashRestart
  <2>1. PICK ready \in BOOLEAN : station' = Booted(OnStart(disk), ready)
    BY <1>27 DEF CrashRestart
  <2>2. station'.connected => station'.persistOk
    BY <1>27, <2>1, StartsFrom, LoadedIsSaved, LegsKeepSession DEF Booted
  <2>3. QED
    BY <1>27, <2>2 DEF CrashRestart
<1>28. CASE UNCHANGED vars
  BY <1>28 DEF vars, memory, handler
<1>29. QED
  BY <1>1, <1>2, <1>3, <1>4, <1>5, <1>6, <1>7, <1>8, <1>9, <1>10, <1>11, <1>12, <1>14,
     <1>15, <1>16, <1>17, <1>18, <1>19, <1>20, <1>21, <1>22, <1>23, <1>24, <1>25, <1>26,
     <1>27, <1>28
  DEF Next, HandlerStep, CommitStep, KeyChip, Message, Environment
-----------------------------------------------------------------------------
(* Durability.                                                             *)

Durability == DiskInv /\ DurableWhileHealthy

\* A step that leaves the session and its file alone, outside a commit.
LEMMA QuietStep ==
    ASSUME Durability, pc \in Settled, pc' \notin {"pushing", "health"},
           disk' = disk, resetFailed' = resetFailed,
           ToPersisted(station') = ToPersisted(station),
           station'.shift = station.shift, station'.persistOk = station.persistOk
    PROVE  Durability'
  BY DEF Durability, DiskInv, DurableWhileHealthy, Settled

LEMMA SavingStep == ASSUME pc' = "saving" PROVE Durability'
  BY DEF Durability, DiskInv, DurableWhileHealthy, Settled

LEMMA DurabilityStep == TypeOK /\ TapInv /\ CommitInv /\ Durability /\ [Next]_vars => Durability'
<1> SUFFICES ASSUME TypeOK, TapInv, CommitInv, Durability, [Next]_vars
             PROVE  Durability'
  OBVIOUS
<1>0. /\ station.reader \in BOOLEAN /\ station.downstream \in BOOLEAN
      /\ station.persistOk \in BOOLEAN /\ station \in Station
  BY DEF TypeOK, Station
<1>1. CASE Persist
  BY <1>1 DEF Persist, Written, memory, Durability, DiskInv, DurableWhileHealthy, Settled
<1>2. CASE Push
  BY <1>2 DEF Push, memory, files, Durability, DiskInv, DurableWhileHealthy, Settled
<1>3. CASE UpdatePersistHealth
  <2>1. /\ station'.shift = station.shift /\ station'.persistOk = saved
        /\ ToPersisted(station') = ToPersisted(station)
    BY <1>3, <1>0, HealthKeepsSession DEF UpdatePersistHealth, TypeOK
  <2>2. /\ pc = "health" /\ pc' = ret /\ resetFailed' = resetFailed
        /\ disk' \in {disk, ToPersisted(station')}
    BY <1>3 DEF UpdatePersistHealth, Written, history
  <2>3. QED
    BY <2>1, <2>2 DEF TypeOK, Durability, DiskInv, DurableWhileHealthy, Settled
<1>4. ASSUME NEW b \in Batches, BeginShiftMsg(b) \/ SwapBatchMsg(b) PROVE Durability'
  BY <1>4, SavingStep DEF BeginShiftMsg, SwapBatchMsg, Commit
<1>5. CASE EndShiftCmd \/ BeginEndShift \/ BridgeAttached \/ EmitVerdict
  BY <1>5, SavingStep DEF EndShiftCmd, BeginEndShift, BridgeAttached, EmitVerdict, Commit
<1>6. CASE BootPulled
  BY <1>6, QuietStep DEF BootPulled, Idle, Settled, handler, files, history
<1>7. ASSUME NEW r \in BOOLEAN, NEW d \in BOOLEAN, NEW next,
             pc \in Settled, next \notin {"pushing", "health"},
             CommitFlip(SetConnectionInputs(station, r, d), next),
             disk' = disk, resetFailed' = resetFailed
      PROVE  Durability'
  <2>1. /\ station'.shift = station.shift /\ station'.persistOk = station.persistOk
        /\ ToPersisted(station') = ToPersisted(station)
        /\ pc' = "saving" \/ pc' = next
    BY <1>7, <1>0, FlipKeeps
  <2>2. QED
    BY <1>7, <2>1, QuietStep
<1>8. ASSUME NEW present \in BOOLEAN, ReaderPresence(present) PROVE Durability'
  BY <1>8, <1>0, <1>7 DEF ReaderPresence, Idle, Settled, files, history
<1>9. ASSUME NEW ready \in BOOLEAN, SetDownstream(ready) PROVE Durability'
  BY <1>9, <1>0, <1>7 DEF SetDownstream, Idle, Settled, files
<1>10. CASE Blip
  BY <1>10, <1>0, <1>7 DEF Blip, Idle, Settled, files, history
<1>11. ASSUME NEW r \in BOOLEAN, NEW d \in BOOLEAN, NEW ok \in BOOLEAN, ResetTo(r, d, ok)
       PROVE  Durability'
  <2>1. station'.shift = None /\ ToPersisted(station') = FreshSession
    BY <1>11, FreshStation DEF ResetTo
  <2>2. /\ pc' = "idle" /\ resetFailed' = ~diskOk
        /\ diskOk => disk' = FreshSession
    BY <1>11 DEF ResetTo, Written, Idle, handler
  <2>3. QED
    BY <2>1, <2>2 DEF Durability, DiskInv, DurableWhileHealthy
<1>12. CASE ResetDemo
  BY <1>12, <1>11, <1>0 DEF ResetDemo
<1>13. CASE ConformanceReset
  <2>1. ResetTo(TRUE, TRUE, TRUE)
    BY <1>13 DEF ConformanceReset
  <2>2. QED
    BY <1>11, <2>1, Zenon
<1>14. ASSUME NEW c \in Chips, CardPresented(c) PROVE Durability'
  BY <1>14, QuietStep DEF CardPresented, Idle, Settled, memory, files, history
<1>15. CASE ChipKeyed \/ RecoverableFailure \/ PermanentFailure
  BY <1>15, QuietStep
  DEF ChipKeyed, RecoverableFailure, PermanentFailure, Settled, files, history
<1>16. CASE KeyingNotReady
  BY <1>16, <1>0, <1>7 DEF KeyingNotReady, NotReadyStation, Settled, files
<1>17. CASE RecordOutcome \/ RecordOutcomeFails \/ AppendOverrun
  BY <1>17, QuietStep
  DEF RecordOutcome, RecordOutcomeFails, AppendOverrun, Settled, memory, files, history
<1>18. CASE Tick
  <2>1. CASE ProbeDue
    BY <1>18, <2>1
    DEF Tick, Probed, Written, memory, Durability, DiskInv, DurableWhileHealthy, Settled
  <2>2. CASE ~ProbeDue
    BY <1>18, <2>2, QuietStep DEF Tick, Idle, Settled, memory
  <2>3. QED
    BY <2>1, <2>2
<1>19. CASE TickBlip
  <2>1. CASE BlipExpired
    <3>1. CommitFlip(SetConnectionInputs(station, station.reader, TRUE), "endshift")
      BY <1>19, <2>1 DEF TickBlip
    <3>2. /\ pc \in Settled /\ disk' = disk /\ resetFailed' = resetFailed
          /\ TRUE \in BOOLEAN /\ "endshift" \notin {"pushing", "health"}
      BY <1>19 DEF TickBlip, Settled, files, history
    <3>3. QED
      BY <1>0, <1>7, <3>1, <3>2
  <2>2. CASE ~BlipExpired
    BY <1>19, <2>2, QuietStep DEF TickBlip, Settled, files, history
  <2>3. QED
    BY <2>1, <2>2
<1>20. CASE TickEndShift
  BY <1>20, QuietStep, SavingStep DEF TickEndShift, Commit, Settled, memory, files, history
<1>21. CASE ConfirmEmission
  BY <1>21, QuietStep, SavingStep DEF ConfirmEmission, Commit, Settled, files, history
<1>22. ASSUME NEW w \in Windows, Elapse(w) PROVE Durability'
  BY <1>22
  DEF Elapse, handler, files, history, Durability, DiskInv, DurableWhileHealthy
<1>23. CASE PageBoot \/ DiskBreaks \/ DiskHeals
  BY <1>23 DEF PageBoot, DiskBreaks, DiskHeals, memory, handler, files, history,
               Durability, DiskInv, DurableWhileHealthy
<1>24. CASE CrashRestart
  <2>1. ToPersisted(station') = OnStart(disk)
    BY <1>24, StartsFrom
  <2>2. CASE ~Conformance
    <3>1. pc' = "idle" /\ disk' = ToPersisted(station') /\ resetFailed' = FALSE
      BY <1>24, <2>1, <2>2 DEF CrashRestart, OnStart
    <3>2. QED
      BY <3>1 DEF Durability, DiskInv, DurableWhileHealthy
  <2>3. CASE Conformance
    <3>1. station'.shift = None
      BY <1>24, <2>3, StartsFrom DEF OnStart, FreshSession
    <3>2. pc' = "idle" /\ resetFailed' = ~diskOk /\ (diskOk => disk' = ToPersisted(station'))
      BY <1>24, <2>1, <2>3 DEF CrashRestart, Written, OnStart
    <3>3. QED
      BY <3>1, <3>2 DEF Durability, DiskInv, DurableWhileHealthy
  <2>4. QED
    BY <2>2, <2>3
<1>25. CASE UNCHANGED vars
  BY <1>25 DEF vars, memory, handler, files, history, Durability, DiskInv, DurableWhileHealthy
<1>26. QED
  BY <1>1, <1>2, <1>3, <1>4, <1>5, <1>6, <1>8, <1>9, <1>10, <1>12, <1>13, <1>14, <1>15,
     <1>16, <1>17, <1>18, <1>19, <1>20, <1>21, <1>22, <1>23, <1>24, <1>25
  DEF Next, HandlerStep, CommitStep, KeyChip, Message, Environment
-----------------------------------------------------------------------------
(* The session file and the running shift.                                 *)

ShiftLag == ShiftInv /\ AtMostOneTapAhead

\* A step that leaves the shift (or drops it) with its counts, and the session
\* file as it was or as a save makes it.
LEMMA SameShiftStep ==
    ASSUME TypeOK, ShiftLag, station' \in Station, used'.shifts = used.shifts,
           disk' \in {disk, ToPersisted(station')},
           station'.shift # None
           => /\ station.shift # None /\ station'.shift.id = station.shift.id
              /\ station'.counts = station.counts
    PROVE  ShiftLag'
<1>1. CountsOf(station.counts) \in Nat /\ CountsOf(station'.counts) \in Nat
  BY DEF TypeOK, Station, SessionCounts, CountsOf
<1>2. CASE disk' = disk
  BY <1>2 DEF ShiftLag, ShiftInv, AtMostOneTapAhead, SameShift
<1>3. CASE disk' = ToPersisted(station')
  <2>1. disk'.shift # None
        => /\ station'.shift # None /\ disk'.shift.meta = station'.shift
           /\ disk'.shift.counts = station'.counts
    BY <1>3, PersistedFields
  <2>2. QED
    BY <1>1, <2>1 DEF ShiftLag, ShiftInv, AtMostOneTapAhead
<1>4. QED
  BY <1>2, <1>3

LEMMA ShiftStep ==
    TypeOK /\ TapInv /\ CommitInv /\ Durability /\ ShiftLag /\ [Next]_vars => ShiftLag'
<1> SUFFICES ASSUME TypeOK, TapInv, CommitInv, Durability, ShiftLag, [Next]_vars
             PROVE  ShiftLag'
  OBVIOUS
<1>0. /\ station.reader \in BOOLEAN /\ station.downstream \in BOOLEAN
      /\ station.persistOk \in BOOLEAN /\ station \in Station
      /\ TRUE \in BOOLEAN /\ FALSE \in BOOLEAN
  BY DEF TypeOK, Station
<1>1. CASE Persist
  BY <1>0, <1>1, SameShiftStep DEF Persist, Written, memory
<1>2. CASE Push
  BY <1>0, <1>2, SameShiftStep DEF Push, memory, files
<1>3. CASE UpdatePersistHealth
  <2>1. /\ station' \in Station /\ station'.shift = station.shift
        /\ station'.counts = station.counts
    BY <1>3, <1>0, HealthKeepsSession DEF UpdatePersistHealth, TypeOK
  <2>2. disk' \in {disk, ToPersisted(station')} /\ used' = used
    BY <1>3 DEF UpdatePersistHealth, Written
  <2>3. QED
    BY <2>1, <2>2, SameShiftStep
<1>4. ASSUME NEW b \in Batches, BeginShiftMsg(b) PROVE ShiftLag'
  <2>1. disk' = disk /\ used.shifts \in Nat
    BY <1>4 DEF BeginShiftMsg, files, TypeOK, Limited
  <2>2. disk.shift # None => disk.shift.meta.id <= used.shifts
    BY DEF ShiftLag, ShiftInv
  <2>4. disk.shift # None => disk.shift.meta.id \in Nat
    <3>1. disk.shift # None => disk.shift \in PersistedShift
      BY DEF TypeOK, PersistedSession
    <3>2. QED
      BY <3>1 DEF PersistedShift, ShiftMeta
  <2>3. station'.shift.id = used.shifts + 1 /\ used'.shifts = used.shifts + 1
    <3>1. /\ station'.shift = [id |-> used.shifts + 1, ended |-> FALSE]
          /\ used'.shifts = used.shifts + 1
      BY <1>4, BeganShift, Zenon
    <3>2. QED
      BY <3>1
  <2>5. disk'.shift # None => disk'.shift.meta.id < station'.shift.id
    BY <2>1, <2>2, <2>3, <2>4
  <2>6. ShiftInv'
    BY <2>1, <2>2, <2>3, <2>4 DEF ShiftInv
  <2>7. AtMostOneTapAhead'
    BY <2>1, <2>3, <2>4, <2>5 DEF AtMostOneTapAhead, SameShift
  <2>8. QED
    BY <2>6, <2>7 DEF ShiftLag
<1>5. ASSUME NEW b \in Batches, SwapBatchMsg(b) PROVE ShiftLag'
  <2>1. /\ station' \in Station /\ station'.shift = station.shift
        /\ station'.counts = station.counts
    BY <1>5, <1>0, MergedType, ShiftOperators DEF SwapBatchMsg, TypeOK
  <2>2. QED
    BY <1>5, <2>1, SameShiftStep DEF SwapBatchMsg, files
<1>6. CASE EndShiftCmd
  <2>1. /\ station' \in Station /\ station'.counts = station.counts
        /\ station'.shift # None => station.shift # None /\ station'.shift.id = station.shift.id
    BY <1>6, <1>0, EndOperators DEF EndShiftCmd
  <2>2. disk' = disk /\ used'.shifts = used.shifts
    BY <1>6, UseCounts DEF EndShiftCmd, files, TypeOK, Limited
  <2>3. QED
    BY <2>1, <2>2, SameShiftStep
<1>7. CASE BeginEndShift
  <2>1. /\ station' \in Station /\ station'.counts = station.counts
        /\ station'.shift = station.shift
    BY <1>7, <1>0, EndOperators DEF BeginEndShift
  <2>2. disk' = disk /\ used'.shifts = used.shifts
    BY <1>7, UseCounts DEF BeginEndShift, files, TypeOK, Limited
  <2>3. QED
    BY <2>1, <2>2, SameShiftStep
<1>8. CASE BridgeAttached \/ TickEndShift \/ PageBoot \/ DiskHeals
  BY <1>0, <1>8, SameShiftStep
  DEF BridgeAttached, TickEndShift, PageBoot, DiskHeals, memory, files
<1>9. CASE BootPulled \/ DiskBreaks
  BY <1>0, <1>9, UseCounts, SameShiftStep
  DEF BootPulled, DiskBreaks, memory, files, TypeOK, Limited
<1>10. ASSUME NEW r \in BOOLEAN, NEW d \in BOOLEAN, NEW next,
              CommitFlip(SetConnectionInputs(station, r, d), next),
              disk' = disk, used'.shifts = used.shifts
       PROVE  ShiftLag'
  <2>1. /\ station' \in Station /\ station'.shift = station.shift
        /\ station'.counts = station.counts
    BY <1>10, <1>0, FlipKeeps
  <2>2. QED
    BY <1>10, <2>1, SameShiftStep
<1>11. ASSUME NEW present \in BOOLEAN, ReaderPresence(present) PROVE ShiftLag'
  BY <1>11, <1>0, <1>10 DEF ReaderPresence, files
<1>12. ASSUME NEW ready \in BOOLEAN, SetDownstream(ready) PROVE ShiftLag'
  BY <1>12, <1>0, <1>10 DEF SetDownstream, files
<1>13. CASE Blip
  <2>1. disk' = disk /\ used'.shifts = used.shifts
    BY <1>13, UseCounts DEF Blip, files, TypeOK, Limited
  <2>2. QED
    BY <1>13, <1>0, <1>10, <2>1 DEF Blip
<1>14. ASSUME NEW r \in BOOLEAN, NEW d \in BOOLEAN, NEW ok \in BOOLEAN, ResetTo(r, d, ok)
       PROVE  ShiftLag'
  <2>1. station' \in Station /\ station'.shift = None /\ ToPersisted(station') = FreshSession
    BY <1>14, FreshStation DEF ResetTo
  <2>2. disk' \in {disk, FreshSession}
    BY <1>14 DEF ResetTo, Written
  <2>3. used'.shifts = used.shifts
    BY <1>14, UseCounts DEF ResetTo, TypeOK, Limited
  <2>4. QED
    BY <2>1, <2>2, <2>3, SameShiftStep
<1>15. CASE ResetDemo
  BY <1>15, <1>14, <1>0 DEF ResetDemo
<1>16. CASE ConformanceReset
  <2>1. ResetTo(TRUE, TRUE, TRUE)
    BY <1>16 DEF ConformanceReset
  <2>2. QED
    BY <1>14, <2>1, Zenon
<1>17. ASSUME NEW c \in Chips, CardPresented(c) PROVE ShiftLag'
  <2>1. used'.shifts = used.shifts /\ disk' = disk /\ station' = station
    BY <1>17, UseCounts DEF CardPresented, memory, files, TypeOK, Limited
  <2>2. QED
    BY <1>0, <2>1, SameShiftStep
<1>18. CASE ChipKeyed \/ RecoverableFailure \/ PermanentFailure
  BY <1>0, <1>18, SameShiftStep DEF ChipKeyed, RecoverableFailure, PermanentFailure, files
<1>19. CASE KeyingNotReady
  BY <1>19, <1>0, <1>10 DEF KeyingNotReady, NotReadyStation, files
<1>20. CASE RecordOutcome \/ AppendOverrun
  BY <1>0, <1>20, SameShiftStep DEF RecordOutcome, AppendOverrun, memory, files
<1>21. CASE RecordOutcomeFails
  <2>1. used'.shifts = used.shifts /\ disk' = disk /\ station' = station
    BY <1>21, UseCounts DEF RecordOutcomeFails, memory, files, TypeOK, Limited
  <2>2. QED
    BY <1>0, <2>1, SameShiftStep
<1>22. CASE EmitVerdict
  \* the verdict is one tap ahead of a file that was level with the session
  <2>1. /\ station' \in Station /\ station'.shift = station.shift
        /\ CountsOf(station'.counts) \in {CountsOf(station.counts), CountsOf(station.counts) + 1}
    BY <1>22, VerdictOperator DEF EmitVerdict, TypeOK, TapInv, Tap
  <2>2. disk' = disk /\ used' = used /\ pc = "verdict"
    BY <1>22 DEF EmitVerdict, files
  <2>3. station.shift = None \/ disk = ToPersisted(station)
    BY <2>2
    DEF TapInv, CommitInv, Durability, DiskInv, DurableWhileHealthy, Settled
  <2>4. CASE station.shift = None
    BY <2>1, <2>2, <2>4 DEF ShiftLag, ShiftInv, AtMostOneTapAhead, SameShift
  <2>5. CASE disk = ToPersisted(station)
    <3>1. disk.shift # None => disk.shift.counts = station.counts
      BY <1>0, <2>5, PersistedFields
    <3>2. CountsOf(station.counts) \in Nat
      BY <1>0 DEF Station, SessionCounts, CountsOf
    <3>3. QED
      BY <2>1, <2>2, <3>1, <3>2 DEF ShiftLag, ShiftInv, AtMostOneTapAhead
  <2>6. QED
    BY <2>3, <2>4, <2>5
<1>23. CASE Tick
  BY <1>0, <1>23, SameShiftStep DEF Tick, Probed, Written, memory
<1>24. CASE TickBlip
  <2>1. disk' = disk /\ used' = used
    BY <1>24 DEF TickBlip, files
  <2>2. CASE BlipExpired
    <3>1. CommitFlip(SetConnectionInputs(station, station.reader, TRUE), "endshift")
      BY <1>24, <2>2 DEF TickBlip
    <3>2. QED
      BY <1>0, <1>10, <2>1, <3>1
  <2>3. CASE ~BlipExpired
    BY <1>0, <1>24, <2>1, <2>3, SameShiftStep DEF TickBlip
  <2>4. QED
    BY <2>2, <2>3
<1>25. CASE ConfirmEmission
  <2>1. station' \in {station, MarkShiftEnded(station)} /\ disk' = disk /\ used' = used
    BY <1>25 DEF ConfirmEmission, files
  <2>2. /\ station' \in Station /\ station'.counts = station.counts
        /\ station'.shift # None => station.shift # None /\ station'.shift.id = station.shift.id
    BY <1>0, <2>1, EndOperators
  <2>3. QED
    BY <2>1, <2>2, SameShiftStep
<1>26. ASSUME NEW w \in Windows, Elapse(w) PROVE ShiftLag'
  BY <1>0, <1>26, SameShiftStep DEF Elapse, files
<1>27. CASE CrashRestart
  \* the session is the file's, so they agree; or there is none
  <2>1. station' \in Station
    BY <1>27, StartsFrom
  <2>2. used'.shifts = used.shifts
    BY <1>27, UseCounts DEF CrashRestart, TypeOK, Limited
  <2>3. CASE Conformance
    <3>1. station'.shift = None /\ ToPersisted(station') = FreshSession
      BY <1>27, <2>3, StartsFrom DEF OnStart, FreshSession
    <3>2. disk' \in {disk, FreshSession}
      BY <1>27 DEF CrashRestart, Written
    <3>3. QED
      BY <2>1, <2>2, <3>1, <3>2, SameShiftStep
  <2>4. CASE ~Conformance
    <3>1. OnStart(disk) = disk /\ disk' = disk
      BY <1>27, <2>4 DEF CrashRestart, OnStart
    <3>2. /\ disk.shift = None => station'.shift = None
          /\ disk.shift # None => /\ station'.shift = disk.shift.meta
                                  /\ station'.counts = disk.shift.counts
      BY <1>27, <3>1, StartsFrom
    <3>3. CountsOf(station'.counts) \in Nat
      BY <2>1 DEF Station, SessionCounts, CountsOf
    <3>4. QED
      BY <2>2, <3>1, <3>2, <3>3 DEF ShiftLag, ShiftInv, AtMostOneTapAhead, SameShift
  <2>5. QED
    BY <2>3, <2>4
<1>28. CASE UNCHANGED vars
  BY <1>0, <1>28, SameShiftStep DEF vars, memory, files
<1>29. QED
  BY <1>1, <1>2, <1>3, <1>4, <1>5, <1>6, <1>7, <1>8, <1>9, <1>11, <1>12, <1>13, <1>15,
     <1>16, <1>17, <1>18, <1>19, <1>20, <1>21, <1>22, <1>23, <1>24, <1>25, <1>26, <1>27,
     <1>28
  DEF Next, HandlerStep, CommitStep, KeyChip, Message, Environment
-----------------------------------------------------------------------------
(* The retry ledger.                                                       *)

LEMMA StrikeStep == TypeOK /\ TapInv /\ StrikeInv /\ [Next]_vars => StrikeInv'
<1> SUFFICES ASSUME TypeOK, TapInv, StrikeInv, [Next]_vars
             PROVE  StrikeInv'
  OBVIOUS
<1>0. NoTap.verdict = "none"
  BY DEF NoTap
<1>1. ASSUME ledger' = ledger, strikes' = strikes, tap' = tap PROVE StrikeInv'
  BY <1>1 DEF StrikeInv
<1>2. ASSUME ledger' = NoFailures, strikes' = NoFailures, tap' = NoTap PROVE StrikeInv'
  BY <1>0, <1>2 DEF StrikeInv, NoFailures
<1>3. CASE Persist \/ UpdatePersistHealth
  BY <1>1, <1>3 DEF Persist, UpdatePersistHealth, memory, history
<1>4. CASE Push
  <2>1. tap' = NoTap /\ ledger' = ledger /\ pc = "pushing"
    BY <1>4 DEF Push, memory
  <2>2. CASE payload = "retry"
    BY <1>0, <1>4, <2>1, <2>2 DEF Push, StrikeInv, TapInv, TypeOK, Verdicts
  <2>3. CASE payload \in {"success", "dead"}
    BY <1>0, <1>4, <2>1, <2>3 DEF Push, StrikeInv, TapInv, TypeOK, Verdicts
  <2>4. CASE payload \notin Verdicts
    <3>1. strikes' = strikes /\ tap = NoTap
      BY <1>4, <2>1, <2>4 DEF Push, TapInv, Verdicts
    <3>2. QED
      BY <1>0, <2>1, <3>1 DEF StrikeInv
  <2>5. QED
    BY <2>2, <2>3, <2>4 DEF Verdicts
<1>5. ASSUME NEW b \in Batches, BeginShiftMsg(b) PROVE StrikeInv'
  <2>1. tap' = NoTap /\ ledger' = NoFailures /\ strikes' = NoFailures
    BY <1>5 DEF BeginShiftMsg, Idle, TapInv
  <2>2. QED
    BY <1>2, <2>1
<1>6. ASSUME NEW b \in Batches, SwapBatchMsg(b) PROVE StrikeInv'
  BY <1>1, <1>6 DEF SwapBatchMsg, history
<1>7. CASE EndShiftCmd \/ BeginEndShift \/ BridgeAttached \/ BootPulled \/ Blip
  BY <1>1, <1>7
  DEF EndShiftCmd, BeginEndShift, BridgeAttached, BootPulled, Blip, memory, handler, history
<1>8. ASSUME NEW present \in BOOLEAN, ReaderPresence(present) PROVE StrikeInv'
  BY <1>1, <1>8 DEF ReaderPresence, history
<1>9. ASSUME NEW ready \in BOOLEAN, SetDownstream(ready) PROVE StrikeInv'
  BY <1>1, <1>9 DEF SetDownstream
<1>10. CASE ResetDemo \/ ConformanceReset
  <2>1. tap' = NoTap /\ ledger' = NoFailures /\ strikes' = NoFailures
    BY <1>10 DEF ResetDemo, ConformanceReset, ResetTo, Idle, handler, TapInv
  <2>2. QED
    BY <1>2, <2>1
<1>11. ASSUME NEW c \in Chips, CardPresented(c) PROVE StrikeInv'
  <2>1. tap = NoTap /\ tap'.verdict = "none" /\ ledger' = ledger /\ strikes' = strikes
    BY <1>11 DEF CardPresented, NoTap, Idle, TapInv, memory, history
  <2>2. QED
    BY <1>0, <2>1 DEF StrikeInv
<1>12. CASE KeyChip
  <2>1. tap.chip \in Chips /\ tap.verdict = "none" /\ \A c \in Chips : strikes[c] = ledger[c]
    BY <1>12 DEF KeyChip, ChipKeyed, RecoverableFailure, PermanentFailure, KeyingNotReady,
                 TapInv, StrikeInv
  <2>2. /\ ledger \in [Chips -> 0 .. EscalationThreshold - 1]
        /\ tap \in Tap
    BY DEF TypeOK
  <2>3. CASE ChipKeyed
    BY <2>1, <2>2, <2>3 DEF ChipKeyed, StrikeInv, Tap, EscalationThreshold
  <2>4. CASE PermanentFailure
    BY <2>1, <2>2, <2>4 DEF PermanentFailure, StrikeInv, Tap, EscalationThreshold, history
  <2>5. CASE RecoverableFailure
    <3>1. strikes' = strikes /\ tap'.chip = tap.chip
      BY <2>2, <2>5 DEF RecoverableFailure, Tap, history
    <3>2. CASE Escalates(ledger[tap.chip] + 1)
      <4>1. ledger' = [ledger EXCEPT ![tap.chip] = 0] /\ tap'.verdict = "dead"
        BY <2>2, <2>5, <3>2 DEF RecoverableFailure, Tap
      <4>2. QED
        BY <2>1, <2>2, <3>1, <4>1 DEF StrikeInv, EscalationThreshold
    <3>3. CASE ~Escalates(ledger[tap.chip] + 1)
      <4>1. /\ ledger' = [ledger EXCEPT ![tap.chip] = ledger[tap.chip] + 1]
            /\ tap'.verdict = "retry"
        BY <2>2, <2>5, <3>3 DEF RecoverableFailure, Tap
      <4>2. QED
        BY <2>1, <2>2, <3>1, <4>1 DEF StrikeInv, EscalationThreshold
    <3>4. QED
      BY <3>2, <3>3
  <2>6. CASE KeyingNotReady
    <3>1. tap' = NoTap /\ ledger' = ledger /\ strikes' = strikes
      BY <2>6 DEF KeyingNotReady
    <3>2. QED
      BY <1>0, <2>1, <3>1 DEF StrikeInv
  <2>7. QED
    BY <1>12, <2>3, <2>4, <2>5, <2>6 DEF KeyChip
<1>13. CASE RecordOutcome
  <2>1. /\ tap'.chip = tap.chip /\ tap'.verdict = tap.verdict
        /\ ledger' = ledger /\ strikes' = strikes
    BY <1>13 DEF RecordOutcome, TypeOK, Tap, memory, history
  <2>2. QED
    BY <2>1 DEF StrikeInv
<1>14. CASE RecordOutcomeFails \/ AppendOverrun \/ EmitVerdict \/ Tick \/ TickBlip
            \/ TickEndShift \/ ConfirmEmission
  BY <1>1, <1>14
  DEF RecordOutcomeFails, AppendOverrun, EmitVerdict, Tick, TickBlip, TickEndShift,
      ConfirmEmission, memory, history
<1>15. ASSUME NEW w \in Windows, Elapse(w) PROVE StrikeInv'
  BY <1>1, <1>15 DEF Elapse, handler, history
<1>16. CASE PageBoot \/ DiskBreaks \/ DiskHeals \/ UNCHANGED vars
  BY <1>1, <1>16 DEF PageBoot, DiskBreaks, DiskHeals, vars, memory, handler, history
<1>17. CASE CrashRestart
  BY <1>2, <1>17 DEF CrashRestart
<1>18. QED
  BY <1>3, <1>4, <1>5, <1>6, <1>7, <1>8, <1>9, <1>10, <1>11, <1>12, <1>13, <1>14, <1>15,
     <1>16, <1>17
  DEF Next, HandlerStep, CommitStep, Message, Environment
-----------------------------------------------------------------------------
(* The theorems.                                                           *)

LEMMA InvInit == Init => Inv
<1> SUFFICES ASSUME Init PROVE Inv
  OBVIOUS
<1>1. TypeOK
  BY TypeInit
<1>2. PICK ready \in BOOLEAN : station = Booted(FreshSession, ready)
  BY DEF Init
<1>3. /\ ToPersisted(station) = FreshSession /\ station.shift = None
      /\ station.connected = FALSE /\ station.pending = FALSE
  BY <1>2, BootedSession, FreshIsSession
  DEF Booted, SetConnectionInputs, RecomputeConnection, New, FreshSession
<1>4. TapInv /\ CommitInv
  BY <1>3 DEF Init, TapInv, CommitInv
<1>5. DiskInv /\ DurableWhileHealthy
  BY <1>3 DEF Init, DiskInv, DurableWhileHealthy
<1>6. ShiftInv /\ AtMostOneTapAhead
  BY <1>3 DEF Init, ShiftInv, AtMostOneTapAhead, FreshSession
<1>7. StrikeInv
  BY DEF Init, StrikeInv, NoTap
<1>8. QED
  BY <1>1, <1>4, <1>5, <1>6, <1>7 DEF Inv

LEMMA InvStep == Inv /\ [Next]_vars => Inv'
  BY TypeStep, TapStep, CommitInvStep, DurabilityStep, ShiftStep, StrikeStep
  DEF Inv, Durability, ShiftLag

\* Inv is an invariant of the specification.
THEOREM Invariance == Spec => []Inv
<1>1. QED
  BY InvInit, InvStep, PTL DEF Spec

\* Every variable keeps its type: in particular a chip's failure count stays below
\* the escalation threshold and an end of shift is emitted twice at most.
THEOREM TypeCorrect == Spec => []TypeOK
<1>1. Inv => TypeOK
  BY DEF Inv
<1>2. QED
  BY <1>1, Invariance, PTL

\* With the line's persistence healthy and nothing being committed the session file
\* is the session in memory (try_persist, update_persist_health, on_tick's probe).
THEOREM Durable == Spec => []DurableWhileHealthy
<1>1. Inv => DurableWhileHealthy
  BY DEF Inv
<1>2. QED
  BY <1>1, Invariance, PTL

\* The session file lags the running shift by the tap in hand at most: the pause on
\* a failed write (set_persist_ok) comes before the next tap.
THEOREM OneTapAhead == Spec => []AtMostOneTapAhead
<1>1. Inv => AtMostOneTapAhead
  BY DEF Inv
<1>2. QED
  BY <1>1, Invariance, PTL

\* No chip is shown a third retry verdict in a session of the process: RetryLedger
\* escalates, and its counts agree with what was pushed.
THEOREM Escalation == Spec => []NoFourthChance
<1>1. Inv => NoFourthChance
  <2>1. SUFFICES ASSUME Inv, NEW c \in Chips PROVE strikes[c] < EscalationThreshold
    BY DEF NoFourthChance
  <2>2. /\ ledger[c] \in 0 .. 2 /\ strikes[c] \in Nat
        /\ tap.verdict \in {"success", "dead", "retry", "none"}
    BY <2>1 DEF Inv, TypeOK, EscalationThreshold, Tap, Verdicts
  <2>3. QED
    BY <2>1, <2>2 DEF Inv, StrikeInv, EscalationThreshold
<1>2. QED
  BY <1>1, Invariance, PTL
-----------------------------------------------------------------------------
(* Counts within a shift.                                                  *)

LEMMA KeepsCountsStep == Inv /\ Inv' /\ [Next]_vars => [KeepsCounts]_vars
<1> SUFFICES ASSUME Inv, Inv', Next
             PROVE  KeepsCounts
  OBVIOUS
<1>0. /\ station.reader \in BOOLEAN /\ station.downstream \in BOOLEAN
      /\ station.persistOk \in BOOLEAN /\ station \in Station /\ saved \in BOOLEAN
      /\ TRUE \in BOOLEAN /\ FALSE \in BOOLEAN
  BY DEF Inv, TypeOK, Station
<1>1. CountsOf(station.counts) \in Nat /\ CountsOf(station'.counts) \in Nat
  BY DEF Inv, TypeOK, Station, SessionCounts, CountsOf
<1>2. ASSUME station'.counts = station.counts PROVE KeepsCounts
  BY <1>1, <1>2 DEF KeepsCounts
<1>3. ASSUME station' = station PROVE KeepsCounts
  BY <1>2, <1>3
<1>4. ASSUME NEW r \in BOOLEAN, NEW d \in BOOLEAN, NEW next,
             CommitFlip(SetConnectionInputs(station, r, d), next)
      PROVE  KeepsCounts
  BY <1>0, <1>2, <1>4, FlipKeeps
<1>5. CASE Persist \/ Push \/ BridgeAttached \/ BootPulled \/ ChipKeyed \/ RecoverableFailure
           \/ PermanentFailure \/ RecordOutcome \/ RecordOutcomeFails \/ AppendOverrun
           \/ Tick \/ TickEndShift \/ PageBoot \/ DiskBreaks \/ DiskHeals
  BY <1>3, <1>5
  DEF Persist, Push, BridgeAttached, BootPulled, ChipKeyed, RecoverableFailure,
      PermanentFailure, RecordOutcome, RecordOutcomeFails, AppendOverrun, Tick,
      TickEndShift, PageBoot, DiskBreaks, DiskHeals, memory
<1>6. ASSUME NEW c \in Chips, CardPresented(c) PROVE KeepsCounts
  BY <1>3, <1>6 DEF CardPresented, memory
<1>7. ASSUME NEW w \in Windows, Elapse(w) PROVE KeepsCounts
  BY <1>3, <1>7 DEF Elapse
<1>8. CASE UpdatePersistHealth
  BY <1>0, <1>2, <1>8, HealthKeepsSession DEF UpdatePersistHealth
<1>9. ASSUME NEW b \in Batches, BeginShiftMsg(b) PROVE KeepsCounts
  <2>1. station'.shift.id = used.shifts + 1
    <3>1. station'.shift = [id |-> used.shifts + 1, ended |-> FALSE]
      BY <1>9, BeganShift, Zenon DEF Inv
    <3>2. QED
      BY <3>1
  <2>2. used.shifts \in Nat
    BY DEF Inv, TypeOK, Limited
  <2>3. station.shift # None => station.shift.id \in Nat /\ station.shift.id <= used.shifts
    BY <1>0 DEF Inv, ShiftInv, Station, ShiftMeta
  <2>4. QED
    BY <2>1, <2>2, <2>3 DEF KeepsCounts, SameShift
<1>10. ASSUME NEW b \in Batches, SwapBatchMsg(b) PROVE KeepsCounts
  <2>1. station'.counts = station.counts
    BY <1>0, <1>10, MergedType, ShiftOperators DEF SwapBatchMsg, Inv, TypeOK
  <2>2. QED
    BY <1>2, <2>1
<1>11. CASE EndShiftCmd \/ BeginEndShift
  BY <1>0, <1>2, <1>11, EndOperators DEF EndShiftCmd, BeginEndShift
<1>12. ASSUME NEW present \in BOOLEAN, ReaderPresence(present) PROVE KeepsCounts
  BY <1>0, <1>4, <1>12 DEF ReaderPresence
<1>13. ASSUME NEW ready \in BOOLEAN, SetDownstream(ready) PROVE KeepsCounts
  BY <1>0, <1>4, <1>13 DEF SetDownstream
<1>14. CASE Blip \/ KeyingNotReady
  BY <1>0, <1>4, <1>14 DEF Blip, KeyingNotReady, NotReadyStation
<1>15. ASSUME NEW r \in BOOLEAN, NEW d \in BOOLEAN, NEW ok \in BOOLEAN, ResetTo(r, d, ok)
       PROVE  KeepsCounts
  BY <1>15, FreshStation DEF ResetTo, KeepsCounts, SameShift
<1>16. CASE ResetDemo
  BY <1>0, <1>15, <1>16 DEF ResetDemo
<1>17. CASE ConformanceReset
  <2>1. ResetTo(TRUE, TRUE, TRUE)
    BY <1>17 DEF ConformanceReset
  <2>2. QED
    BY <1>15, <2>1, Zenon
<1>18. CASE EmitVerdict
  <2>1. CountsOf(station'.counts) \in {CountsOf(station.counts), CountsOf(station.counts) + 1}
    BY <1>18, VerdictOperator DEF EmitVerdict, Inv, TypeOK, TapInv, Tap
  <2>2. QED
    BY <1>1, <2>1 DEF KeepsCounts
<1>19. CASE TickBlip
  <2>1. CASE BlipExpired
    <3>1. CommitFlip(SetConnectionInputs(station, station.reader, TRUE), "endshift")
      BY <1>19, <2>1 DEF TickBlip
    <3>2. QED
      BY <1>0, <1>4, <3>1
  <2>2. CASE ~BlipExpired
    BY <1>3, <1>19, <2>2 DEF TickBlip
  <2>3. QED
    BY <2>1, <2>2
<1>20. CASE ConfirmEmission
  <2>1. station' \in {station, MarkShiftEnded(station)}
    BY <1>20 DEF ConfirmEmission
  <2>2. QED
    BY <1>0, <1>2, <2>1, EndOperators
<1>21. CASE CrashRestart
  \* the counts are the file's, which lag by one at most
  <2>1. Killed
    <3>1. used'.crashes = used.crashes + 1 /\ used.crashes \in Nat
      BY <1>21, UseCounts DEF CrashRestart, Inv, TypeOK, Limited
    <3>2. QED
      BY <3>1 DEF Killed
  <2>2. CASE Conformance
    BY <1>21, <2>2, StartsFrom DEF Inv, OnStart, FreshSession, KeepsCounts, SameShift
  <2>3. CASE ~Conformance
    <3>1. /\ disk.shift = None => station'.shift = None
          /\ disk.shift # None => /\ station'.shift = disk.shift.meta
                                  /\ station'.counts = disk.shift.counts
      BY <1>21, <2>3, StartsFrom DEF Inv, OnStart
    <3>2. SameShift(station.shift, station'.shift)
          => CountsOf(station.counts) <= CountsOf(station'.counts) + 1
      BY <3>1 DEF Inv, AtMostOneTapAhead, SameShift
    <3>3. QED
      BY <2>1, <3>2 DEF KeepsCounts
  <2>4. QED
    BY <2>2, <2>3
<1>22. QED
  BY <1>5, <1>6, <1>7, <1>8, <1>9, <1>10, <1>11, <1>12, <1>13, <1>14, <1>16, <1>17, <1>18,
     <1>19, <1>20, <1>21
  DEF Next, HandlerStep, CommitStep, KeyChip, Message, Environment

\* Within a shift the counts the operator sees never go back, but for the one tap
\* that a kill of the process can take (record_verdict before try_persist).
THEOREM NeverBack == Spec => CountsNeverGoBack
<1>1. QED
  BY InvInit, InvStep, KeepsCountsStep, PTL DEF Spec, CountsNeverGoBack
-----------------------------------------------------------------------------
(* The pause on "not ready".                                               *)

\* Without a blip nothing but the keying layer's watcher raises the downstream leg.
PauseInv == used.blips = 0 => ~blip /\ (notReady => ~station.downstream)

LEMMA LegsSet ==
    ASSUME NEW st \in Station, NEW r, NEW d
    PROVE  SetConnectionInputs(st, r, d).downstream = d
  BY DEF SetConnectionInputs, RecomputeConnection, Station

LEMMA LegKept ==
    ASSUME NEW st \in Station, NEW ok
    PROVE  /\ SetPersistOk(st, ok).downstream = st.downstream
           /\ MarkShiftEnded(st).downstream = st.downstream
           /\ ArmEndShift(st).downstream = st.downstream
  BY DEF SetPersistOk, RecomputeConnection, MarkShiftEnded, ArmEndShift, Station

LEMMA BlipsGrow ==
    ASSUME TypeOK, [Next]_vars
    PROVE  /\ used'.blips = 0 => used.blips = 0
           /\ Blip => used'.blips # 0
<1>1. used \in [Limited -> Nat] /\ "blips" \in Limited
  BY DEF TypeOK, Limited
<1>2. ASSUME NEW w \in Limited, Use(w)
      PROVE  used'.blips = used.blips + (IF w = "blips" THEN 1 ELSE 0)
  BY <1>1, <1>2, UseCounts
<1>3. used.blips \in Nat
  BY <1>1
<1>4. Blip => used'.blips = used.blips + 1
  BY <1>1, <1>2 DEF Blip
<1>5. used'.blips = used.blips \/ used'.blips = used.blips + 1
  BY <1>2, <1>3, StepUses
<1>6. QED
  BY <1>3, <1>4, <1>5

LEMMA PauseInit == Init => PauseInv
<1> SUFFICES ASSUME Init PROVE PauseInv
  OBVIOUS
<1>1. PICK ready \in BOOLEAN : station = Booted(disk, ready) /\ notReady = ~ready
  BY DEF Init
<1>2. New(disk) \in Station
  BY FreshIsSession, LoadedIsSaved DEF Init
<1>3. station.downstream = ready
  <2>1. SetConnectionInputs(New(disk), FALSE, ready).downstream = ready
    BY <1>2, LegsSet, Zenon
  <2>2. QED
    BY <1>1, <2>1, Zenon DEF Booted
<1>4. notReady => ~station.downstream
  BY <1>1, <1>3
<1>5. blip = FALSE
  BY DEF Init
<1>6. QED
  BY <1>4, <1>5 DEF PauseInv

LEMMA PauseStep == TypeOK /\ PauseInv /\ [Next]_vars => PauseInv'
<1> SUFFICES ASSUME TypeOK, PauseInv, [Next]_vars, used'.blips = 0
             PROVE  ~blip' /\ (notReady' => ~station'.downstream)
  BY DEF PauseInv
<1>0. /\ station \in Station /\ station.reader \in BOOLEAN /\ station.downstream \in BOOLEAN
      /\ TRUE \in BOOLEAN /\ FALSE \in BOOLEAN
  BY DEF TypeOK, Station
<1>1. ~blip /\ (notReady => ~station.downstream) /\ ~Blip
  BY BlipsGrow DEF PauseInv
<1> DEFINE Goal == ~blip' /\ (notReady' => ~station'.downstream)
<1>2. ASSUME blip' = blip, notReady' = notReady, station'.downstream = station.downstream
      PROVE  Goal
  BY <1>1, <1>2
<1>3. CASE Persist \/ Push \/ BridgeAttached \/ BootPulled \/ ChipKeyed \/ RecoverableFailure
           \/ PermanentFailure \/ RecordOutcome \/ RecordOutcomeFails \/ AppendOverrun
           \/ Tick \/ TickEndShift \/ PageBoot \/ DiskBreaks \/ DiskHeals \/ UNCHANGED vars
  BY <1>2, <1>3
  DEF Persist, Push, BridgeAttached, BootPulled, ChipKeyed, RecoverableFailure,
      PermanentFailure, RecordOutcome, RecordOutcomeFails, AppendOverrun, Tick, TickEndShift,
      PageBoot, DiskBreaks, DiskHeals, memory, history, vars
<1>4. CASE UpdatePersistHealth \/ EndShiftCmd \/ BeginEndShift \/ EmitVerdict
  <2>1. station'.downstream = station.downstream
    <3>1. CASE UpdatePersistHealth \/ EndShiftCmd \/ BeginEndShift
      BY <1>0, <3>1, LegKept DEF UpdatePersistHealth, EndShiftCmd, BeginEndShift
    <3>2. CASE EmitVerdict
      BY <1>0, <3>2 DEF EmitVerdict, RecordVerdict, Station
    <3>3. QED
      BY <1>4, <3>1, <3>2
  <2>2. QED
    BY <1>2, <1>4, <2>1
    DEF UpdatePersistHealth, EndShiftCmd, BeginEndShift, EmitVerdict, history
<1>5. ASSUME NEW b \in Batches, BeginShiftMsg(b) \/ SwapBatchMsg(b) PROVE Goal
  BY <1>0, <1>2, <1>5
  DEF BeginShiftMsg, SwapBatchMsg, BeginShift, SwapBatch, Station, history
<1>6. ASSUME NEW c \in Chips, CardPresented(c) PROVE Goal
  BY <1>2, <1>6 DEF CardPresented, memory, history
<1>7. ASSUME NEW w \in Windows, Elapse(w) PROVE Goal
  BY <1>2, <1>7 DEF Elapse, history
<1>8. ASSUME NEW present \in BOOLEAN, ReaderPresence(present) PROVE Goal
  BY <1>0, <1>2, <1>8, LegsSet DEF ReaderPresence, CommitFlip, history
<1>9. ASSUME NEW ready \in BOOLEAN, SetDownstream(ready) PROVE Goal
  BY <1>0, <1>1, <1>9, LegsSet DEF SetDownstream, CommitFlip
<1>10. CASE KeyingNotReady
  BY <1>0, <1>1, <1>10, LegsSet DEF KeyingNotReady, NotReadyStation, CommitFlip
<1>11. ASSUME NEW r \in BOOLEAN, NEW d \in BOOLEAN, NEW ok \in BOOLEAN, ResetTo(r, d, ok)
       PROVE  station'.downstream = d /\ blip' = blip
  <2>1. SetConnectionInputs(New(FreshSession), r, d) \in Station
    BY FreshIsSession, LoadedIsSaved, LegsKeepSession
  <2>2. QED
    BY <1>11, <2>1, FreshIsSession, LoadedIsSaved, LegsSet, LegKept DEF ResetTo
<1>12. CASE ResetDemo
  BY <1>0, <1>2, <1>11, <1>12 DEF ResetDemo, TypeOK, Station
<1>13. CASE ConformanceReset
  <2>1. ResetTo(TRUE, TRUE, TRUE) /\ notReady' = FALSE
    BY <1>13 DEF ConformanceReset
  <2>2. blip' = blip
    BY <2>1 DEF ResetTo
  <2>3. QED
    BY <1>1, <2>1, <2>2
<1>14. CASE TickBlip
  BY <1>1, <1>2, <1>14 DEF TickBlip, BlipExpired, history
<1>15. CASE ConfirmEmission
  <2>1. station' \in {station, MarkShiftEnded(station)}
    BY <1>15 DEF ConfirmEmission
  <2>2. QED
    BY <1>0, <1>2, <1>15, <2>1, LegKept DEF ConfirmEmission, history
<1>16. CASE CrashRestart
  <2>1. PICK ready \in BOOLEAN :
          station' = SetConnectionInputs(New(OnStart(disk)), FALSE, ready) /\ notReady' = ~ready
    BY <1>16 DEF CrashRestart, Booted
  <2>2. New(OnStart(disk)) \in Station
    BY <1>16, StartsFrom, LoadedIsSaved
  <2>3. QED
    BY <1>16, <2>1, <2>2, LegsSet DEF CrashRestart
<1>17. QED
  BY <1>1, <1>3, <1>4, <1>5, <1>6, <1>7, <1>8, <1>9, <1>10, <1>12, <1>13, <1>14, <1>15, <1>16
  DEF Next, HandlerStep, CommitStep, KeyChip, Message, Environment

\* Once key_chip or its readiness watcher has said "not ready" the line stays down until the
\* watcher reports recovery: no message, commit, probe, reset or restart raises the leg
\* before, except a blip of the sim console.
THEOREM PauseHeld == Spec => []PauseHeldUntilReady
<1>1. PauseInv => PauseHeldUntilReady
  BY DEF PauseInv, PauseHeldUntilReady
<1>2. Inv => TypeOK
  BY DEF Inv
<1>3. QED
  BY <1>1, <1>2, Invariance, PauseInit, PauseStep, PTL DEF Spec
-----------------------------------------------------------------------------
(* Recovery.  StationCore implements RecoveryContract: each step of a      *)
(* handler, each message and each kill is a step of the contract or leaves *)
(* its variables alone.  The argument is Inv and one more invariant: a     *)
(* running shift has a batch, without which to_persisted would not write   *)
(* it.                                                                     *)

HasBatch == station.shift # None => station.batch # None

Live == Resumed(ToPersisted(station))
OnFile == Resumed(disk)
contractVars == <<Live, OnFile, used.shifts, used.resets>>
-----------------------------------------------------------------------------
(* What the operators keep of a shift's batch.                             *)

LEMMA BatchIsSome == \A b \in BatchInfo : b # None
  BY NoneAssumption

LEMMA LegsKeepBatch ==
    ASSUME NEW st \in Station, NEW r, NEW d
    PROVE  SetConnectionInputs(st, r, d).batch = st.batch
  BY DEF SetConnectionInputs, RecomputeConnection, Station

LEMMA HealthKeepsBatch ==
    ASSUME NEW st \in Station, NEW ok
    PROVE  SetPersistOk(st, ok).batch = st.batch
  BY DEF SetPersistOk, RecomputeConnection, Station

LEMMA FlipKeepsBatch ==
    ASSUME station \in Station, NEW r, NEW d, NEW next,
           CommitFlip(SetConnectionInputs(station, r, d), next)
    PROVE  station'.batch = station.batch
  BY LegsKeepBatch DEF CommitFlip

LEMMA EndKeepsBatch ==
    ASSUME NEW st \in Station
    PROVE  MarkShiftEnded(st).batch = st.batch /\ ArmEndShift(st).batch = st.batch
  BY DEF MarkShiftEnded, ArmEndShift, Station

\* A session that was read and holds a shift holds its batch.
LEMMA StartsWithBatch ==
    ASSUME TypeOK, CrashRestart, station'.shift # None
    PROVE  station'.batch # None
<1>1. OnStart(disk) \in PersistedSession
  BY StartsFrom
<1>2. OnStart(disk).shift # None
  BY StartsFrom
<1>3. PICK ready \in BOOLEAN :
        station' = SetConnectionInputs(New(OnStart(disk)), FALSE, ready)
  BY DEF CrashRestart, Booted
<1>4. New(OnStart(disk)) \in Station
  BY <1>1, LoadedIsSaved
<1>5. station'.batch = New(OnStart(disk)).batch
  BY <1>3, <1>4, LegsKeepBatch
<1>6. New(OnStart(disk)).batch = OnStart(disk).shift.batch
  BY <1>2 DEF New
<1>7. OnStart(disk).shift.batch \in BatchInfo
  BY <1>1, <1>2 DEF PersistedSession, PersistedShift
<1>8. QED
  BY <1>5, <1>6, <1>7, BatchIsSome

LEMMA HasBatchInit == Init => HasBatch
<1>1. ASSUME Init PROVE station.shift = None
  <2>1. PICK ready \in BOOLEAN : station = Booted(FreshSession, ready)
    BY <1>1 DEF Init
  <2>2. QED
    BY <2>1, BootedSession, FreshIsSession DEF FreshSession
<1>2. QED
  BY <1>1 DEF HasBatch

\* What a step does to the shift and its batch, if it is none of those that change them.
ShiftAndBatchKept == station'.shift = station.shift /\ station'.batch = station.batch

LEMMA HasBatchStep == Inv /\ HasBatch /\ [Next]_vars => HasBatch'
<1> SUFFICES ASSUME Inv, HasBatch, [Next]_vars
             PROVE  HasBatch'
  OBVIOUS
<1>0. /\ station \in Station /\ station.reader \in BOOLEAN /\ station.downstream \in BOOLEAN
      /\ station.persistOk \in BOOLEAN /\ source \in [Batches -> Progress] /\ TypeOK
      /\ TRUE \in BOOLEAN /\ FALSE \in BOOLEAN
  BY DEF Inv, TypeOK, Station
<1>1. ASSUME ShiftAndBatchKept PROVE HasBatch'
  BY <1>1 DEF ShiftAndBatchKept, HasBatch
<1>2. ASSUME station' = station PROVE HasBatch'
  BY <1>2 DEF HasBatch
<1>3. ASSUME NEW r \in BOOLEAN, NEW d \in BOOLEAN, NEW next,
             CommitFlip(SetConnectionInputs(station, r, d), next)
      PROVE  HasBatch'
  BY <1>0, <1>1, <1>3, FlipKeeps, FlipKeepsBatch DEF ShiftAndBatchKept
<1>4. CASE Persist \/ Push \/ BridgeAttached \/ BootPulled \/ ChipKeyed \/ RecoverableFailure
           \/ PermanentFailure \/ RecordOutcome \/ RecordOutcomeFails \/ AppendOverrun
           \/ Tick \/ TickEndShift \/ PageBoot \/ DiskBreaks \/ DiskHeals \/ UNCHANGED vars
  BY <1>2, <1>4
  DEF Persist, Push, BridgeAttached, BootPulled, ChipKeyed, RecoverableFailure,
      PermanentFailure, RecordOutcome, RecordOutcomeFails, AppendOverrun, Tick,
      TickEndShift, PageBoot, DiskBreaks, DiskHeals, memory, vars
<1>5. ASSUME NEW c \in Chips, CardPresented(c) PROVE HasBatch'
  BY <1>2, <1>5 DEF CardPresented, memory
<1>6. ASSUME NEW w \in Windows, Elapse(w) PROVE HasBatch'
  BY <1>2, <1>6 DEF Elapse
<1>7. CASE UpdatePersistHealth
  <2>1. saved \in BOOLEAN
    BY <1>0 DEF TypeOK
  <2>2. QED
    BY <1>0, <1>1, <1>7, <2>1, HealthKeepsSession, HealthKeepsBatch
    DEF UpdatePersistHealth, ShiftAndBatchKept
<1>8. ASSUME NEW b \in Batches, BeginShiftMsg(b) PROVE HasBatch'
  <2>1. Merged(source, b) # None
    BY <1>0, MergedType, BatchIsSome
  <2>2. station'.batch = Merged(source, b)
    BY <1>0, <1>8 DEF BeginShiftMsg, BeginShift, Station
  <2>3. QED
    BY <2>1, <2>2 DEF HasBatch
<1>9. ASSUME NEW b \in Batches, SwapBatchMsg(b) PROVE HasBatch'
  <2>1. Merged(source, b) # None
    BY <1>0, MergedType, BatchIsSome
  <2>2. station'.batch = Merged(source, b)
    BY <1>0, <1>9 DEF SwapBatchMsg, SwapBatch, Station
  <2>3. QED
    BY <2>1, <2>2 DEF HasBatch
<1>10. CASE EndShiftCmd \/ BeginEndShift
  BY <1>0, <1>10, EndOperators, EndKeepsBatch DEF EndShiftCmd, BeginEndShift, HasBatch
<1>11. ASSUME NEW present \in BOOLEAN, ReaderPresence(present) PROVE HasBatch'
  BY <1>0, <1>3, <1>11 DEF ReaderPresence
<1>12. ASSUME NEW ready \in BOOLEAN, SetDownstream(ready) PROVE HasBatch'
  BY <1>0, <1>3, <1>12 DEF SetDownstream
<1>13. CASE Blip \/ KeyingNotReady
  BY <1>0, <1>3, <1>13 DEF Blip, KeyingNotReady, NotReadyStation
<1>14. ASSUME NEW r \in BOOLEAN, NEW d \in BOOLEAN, NEW ok \in BOOLEAN, ResetTo(r, d, ok)
       PROVE  HasBatch'
  BY <1>14, FreshStation DEF ResetTo, HasBatch
<1>15. CASE ResetDemo
  BY <1>0, <1>14, <1>15 DEF ResetDemo
<1>16. CASE ConformanceReset
  <2>1. ResetTo(TRUE, TRUE, TRUE)
    BY <1>16 DEF ConformanceReset
  <2>2. QED
    BY <1>14, <2>1, Zenon
<1>17. CASE EmitVerdict
  <2>1. /\ station'.shift = station.shift
        /\ station'.batch \in {station.batch, Adopt(station.batch, tap.updated)}
    BY <1>0, <1>17 DEF EmitVerdict, RecordVerdict, Station
  <2>2. QED
    BY <2>1 DEF HasBatch, Adopt
<1>18. CASE TickBlip
  <2>1. CASE BlipExpired
    <3>1. CommitFlip(SetConnectionInputs(station, station.reader, TRUE), "endshift")
      BY <1>18, <2>1 DEF TickBlip
    <3>2. QED
      BY <1>0, <1>3, <3>1
  <2>2. CASE ~BlipExpired
    BY <1>2, <1>18, <2>2 DEF TickBlip
  <2>3. QED
    BY <2>1, <2>2
<1>19. CASE ConfirmEmission
  <2>1. station' \in {station, MarkShiftEnded(station)}
    BY <1>19 DEF ConfirmEmission
  <2>2. QED
    BY <1>0, <1>2, <2>1, EndOperators, EndKeepsBatch DEF HasBatch
<1>20. CASE CrashRestart
  BY <1>0, <1>20, StartsWithBatch DEF HasBatch
<1>21. QED
  BY <1>4, <1>5, <1>6, <1>7, <1>8, <1>9, <1>10, <1>11, <1>12, <1>13, <1>15, <1>16, <1>17,
     <1>18, <1>19, <1>20
  DEF Next, HandlerStep, CommitStep, KeyChip, Message, Environment
-----------------------------------------------------------------------------
(* The refinement.                                                         *)

\* What a restart would resume of a state, written or not.
LEMMA ResumedView ==
    ASSUME NEW st \in Station, st.shift # None => st.batch # None
    PROVE  Resumed(ToPersisted(st)) =
             IF st.shift = None THEN [state |-> "none", id |-> 0, counts |-> ZeroCounts]
             ELSE [state |-> "running", id |-> st.shift.id, counts |-> st.counts]
<1>1. CASE st.shift = None
  BY <1>1 DEF Resumed, ToPersisted
<1>2. CASE st.shift # None
  <2> DEFINE written == [meta |-> st.shift, batch |-> st.batch, counts |-> st.counts]
  <2>1. written \in PersistedShift
    BY <1>2 DEF PersistedShift, Station
  <2>2. ToPersisted(st).shift = written /\ written # None
    BY <1>2, <2>1, NoneAssumption DEF ToPersisted
  <2>3. QED
    BY <1>2, <2>2 DEF Resumed
<1>3. QED
  BY <1>1, <1>2

Steady == Inv /\ Inv' /\ HasBatch /\ HasBatch'

LEMMA LiveKept ==
    ASSUME Steady, station'.counts = station.counts,
           station.shift = None <=> station'.shift = None,
           station.shift # None => station'.shift.id = station.shift.id
    PROVE  Live' = Live
<1>1. station \in Station /\ station' \in Station
  BY DEF Steady, Inv, TypeOK
<1>2. QED
  BY <1>1, ResumedView DEF Steady, HasBatch, Live

LEMMA UsedElsewhere ==
    ASSUME TypeOK, NEW w \in Limited \ {"shifts", "resets"}, Use(w)
    PROVE  used'.shifts = used.shifts /\ used'.resets = used.resets
  BY UseCounts DEF TypeOK, Limited

\* A step that keeps the shift and either writes it or leaves the file alone.
LEMMA SavesOrStutters ==
    ASSUME Live' = Live, disk' \in {disk, ToPersisted(station')},
           used'.shifts = used.shifts, used'.resets = used.resets
    PROVE  [Contract!Next]_contractVars
<1>1. OnFile' \in {OnFile, Live'}
  BY DEF OnFile, Live
<1>2. CASE OnFile' = OnFile
  BY <1>2 DEF contractVars
<1>3. CASE OnFile' = Live'
  BY <1>3 DEF Contract!Next, Contract!Save, contractVars, Live, OnFile
<1>4. QED
  BY <1>1, <1>2, <1>3

LEMMA FlipRefines ==
    ASSUME Steady, NEW r \in BOOLEAN, NEW d \in BOOLEAN, NEW next,
           CommitFlip(SetConnectionInputs(station, r, d), next),
           disk' = disk, used'.shifts = used.shifts, used'.resets = used.resets
    PROVE  [Contract!Next]_contractVars
<1>1. Live' = Live
  BY FlipKeeps, LiveKept DEF Steady, Inv, TypeOK
<1>2. QED
  BY <1>1, SavesOrStutters

LEMMA BeginRefines ==
    ASSUME Steady, NEW b \in Batches, BeginShiftMsg(b)
    PROVE  [Contract!Next]_contractVars
<1>1. /\ station'.shift = [id |-> used.shifts + 1, ended |-> FALSE]
      /\ used'.shifts = used.shifts + 1
  BY BeganShift DEF Steady, Inv
<1>2. station'.counts = ZeroCounts
  BY DEF BeginShiftMsg, BeginShift, Steady, Inv, TypeOK, Station
<1>3. used'.resets = used.resets
  BY UseCounts DEF BeginShiftMsg, Steady, Inv, TypeOK, Limited
<1>4. station' \in Station /\ station'.shift # None /\ station'.batch # None
  <2>1. station' \in Station
    BY DEF Steady, Inv, TypeOK
  <2>2. station'.shift # None
    <3>1. station'.shift \in ShiftMeta
      BY <1>1, UseCounts DEF ShiftMeta, Steady, Inv, TypeOK, Limited
    <3>2. QED
      BY <3>1, NoneAssumption
  <2>3. QED
    BY <2>1, <2>2 DEF Steady, HasBatch
<1>5. Live' = [state |-> "running", id |-> used.shifts + 1, counts |-> ZeroCounts]
  BY <1>1, <1>2, <1>4, ResumedView DEF Live
<1>6. OnFile' = OnFile
  BY DEF BeginShiftMsg, files, OnFile
<1>7. Contract!Begin
  BY <1>1, <1>3, <1>5, <1>6 DEF Contract!Begin, Contract!ZeroCounts, ZeroCounts, Live, OnFile
<1>8. QED
  BY <1>7 DEF Contract!Next

\* A verdict is counted on a line whose last write succeeded.
LEMMA VerdictRefines ==
    ASSUME Steady, EmitVerdict
    PROVE  [Contract!Next]_contractVars
<1>0. /\ station \in Station /\ station' \in Station
      /\ tap.verdict \in Verdicts /\ used' = used /\ disk' = disk
  BY DEF Steady, Inv, TypeOK, TapInv, EmitVerdict, history, files
<1>1. station'.shift = station.shift
  BY <1>0 DEF EmitVerdict, RecordVerdict, Station
<1>2. CASE tap.verdict = "retry" \/ station.shift = None
  <2>1. Live' = Live
    <3>1. CASE station.shift = None
      BY <1>0, <1>1, <3>1, ResumedView DEF Live, Steady, HasBatch
    <3>2. CASE tap.verdict = "retry"
      BY <3>2, LiveKept DEF EmitVerdict, RecordVerdict
    <3>3. QED
      BY <1>2, <3>1, <3>2
  <2>2. QED
    BY <1>0, <2>1, SavesOrStutters
<1>3. CASE tap.verdict # "retry" /\ station.shift # None
  <2>1. disk = ToPersisted(station)
    BY <1>3 DEF Steady, Inv, EmitVerdict, TapInv, CommitInv, DiskInv, DurableWhileHealthy, Settled
  <2>2. PICK what \in {"done", "failed"} :
          station'.counts = [station.counts EXCEPT ![what] = @ + 1]
    <3>1. station'.counts = CountVerdict(station.counts, tap.verdict)
      BY <1>0, <1>3 DEF EmitVerdict, RecordVerdict, Station
    <3>2. QED
      BY <3>1 DEF CountVerdict
  <2>3. Live = [state |-> "running", id |-> station.shift.id, counts |-> station.counts]
    BY <1>0, <1>3, ResumedView DEF Live, Steady, HasBatch
  <2>4. Live' = [state |-> "running", id |-> station.shift.id, counts |-> station'.counts]
    BY <1>0, <1>1, <1>3, ResumedView DEF Live, Steady, HasBatch
  <2>5. Live' = [Live EXCEPT !.counts[what] = @ + 1]
    BY <2>2, <2>3, <2>4
  <2>6. Live.state = "running"
    BY <2>3
  <2>7. Contract!Count(what)
    BY <1>0, <2>1, <2>5, <2>6
    DEF Contract!Count, Contract!NoShift, Contract!ZeroCounts, ZeroCounts, Live, OnFile
  <2>8. QED
    BY <2>7 DEF Contract!Next
<1>4. QED
  BY <1>2, <1>3

LEMMA ResumedFresh == Resumed(FreshSession) = Contract!NoShift
  BY DEF Resumed, FreshSession, ZeroCounts, Contract!NoShift, Contract!ZeroCounts

LEMMA ResetRefines ==
    ASSUME Steady, NEW r \in BOOLEAN, NEW d \in BOOLEAN, NEW ok \in BOOLEAN, ResetTo(r, d, ok)
    PROVE  [Contract!Next]_contractVars
<1>1. ToPersisted(station') = FreshSession
  BY FreshStation DEF ResetTo
<1>2. used'.resets = used.resets + 1 /\ used'.shifts = used.shifts
  BY UseCounts DEF ResetTo, Steady, Inv, TypeOK, Limited
<1>3. disk' \in {disk, FreshSession}
  BY DEF ResetTo, Written
<1>4. Contract!Reset
  BY <1>1, <1>2, <1>3, ResumedFresh DEF Contract!Reset
<1>5. QED
  BY <1>4 DEF Contract!Next

LEMMA RestartRefines ==
    ASSUME Steady, CrashRestart
    PROVE  [Contract!Next]_contractVars
<1>1. ToPersisted(station') = OnStart(disk)
  BY StartsFrom DEF Steady, Inv
<1>2. used'.shifts = used.shifts /\ used'.resets = used.resets
  BY UsedElsewhere DEF CrashRestart, Steady, Inv, Limited
<1>3. CASE Conformance
  <2>1. disk' \in {disk, FreshSession}
    BY <1>3 DEF CrashRestart, Written
  <2>2. Contract!Restart
    BY <1>1, <1>2, <1>3, <2>1, ResumedFresh DEF Contract!Restart, OnStart
  <2>3. QED
    BY <2>2 DEF Contract!Next
<1>4. CASE ~Conformance
  <2>1. disk' = disk
    BY <1>4 DEF CrashRestart
  <2>2. Contract!Restart
    BY <1>1, <1>2, <1>4, <2>1 DEF Contract!Restart, OnStart
  <2>3. QED
    BY <2>2 DEF Contract!Next
<1>5. QED
  BY <1>3, <1>4 DEF Steady, Inv, TypeOK

LEMMA StepRefines == Steady /\ [Next]_vars => [Contract!Next]_contractVars
<1> SUFFICES ASSUME Steady, [Next]_vars
             PROVE  [Contract!Next]_contractVars
  OBVIOUS
<1>0. /\ station \in Station /\ station.reader \in BOOLEAN /\ station.downstream \in BOOLEAN
      /\ station.persistOk \in BOOLEAN /\ saved \in BOOLEAN /\ TypeOK
      /\ TRUE \in BOOLEAN /\ FALSE \in BOOLEAN
      /\ {"taps", "ends", "blips", "crashes", "faults", "outages"}
           \subseteq Limited \ {"shifts", "resets"}
  BY DEF Steady, Inv, TypeOK, Station, Limited
<1>1. ASSUME station' = station, disk' \in {disk, ToPersisted(station)},
             used'.shifts = used.shifts, used'.resets = used.resets
      PROVE  [Contract!Next]_contractVars
  BY <1>1, SavesOrStutters DEF Live
<1>2. CASE Persist \/ Tick
  BY <1>1, <1>2 DEF Persist, Tick, Written, Probed, memory
<1>3. CASE Push \/ BridgeAttached \/ ChipKeyed \/ RecoverableFailure \/ PermanentFailure
           \/ RecordOutcome \/ AppendOverrun \/ TickEndShift \/ PageBoot \/ DiskHeals
           \/ UNCHANGED vars
  BY <1>1, <1>3
  DEF Push, BridgeAttached, ChipKeyed, RecoverableFailure, PermanentFailure, RecordOutcome,
      AppendOverrun, TickEndShift, PageBoot, DiskHeals, memory, files, history, vars
<1>4. CASE BootPulled \/ RecordOutcomeFails \/ DiskBreaks
  <2>1. used' = used \/ Use("outages") \/ Use("faults")
    BY <1>4 DEF BootPulled, RecordOutcomeFails, DiskBreaks
  <2>2. used'.shifts = used.shifts /\ used'.resets = used.resets
    BY <1>0, <2>1, UsedElsewhere
  <2>3. station' = station /\ disk' = disk
    BY <1>4 DEF BootPulled, RecordOutcomeFails, DiskBreaks, memory, files
  <2>4. QED
    BY <1>1, <2>2, <2>3
<1>5. ASSUME NEW c \in Chips, CardPresented(c) PROVE [Contract!Next]_contractVars
  <2>1. used'.shifts = used.shifts /\ used'.resets = used.resets
    BY <1>0, <1>5, UsedElsewhere DEF CardPresented
  <2>2. QED
    BY <1>1, <1>5, <2>1 DEF CardPresented, memory, files
<1>6. ASSUME NEW w \in Windows, Elapse(w) PROVE [Contract!Next]_contractVars
  BY <1>1, <1>6 DEF Elapse, files, history
<1>7. CASE UpdatePersistHealth
  <2>1. ToPersisted(station') = ToPersisted(station)
    BY <1>0, <1>7, HealthKeepsSession DEF UpdatePersistHealth
  <2>2. disk' \in {disk, ToPersisted(station')} /\ used' = used
    BY <1>7 DEF UpdatePersistHealth, Written, history
  <2>3. QED
    BY <2>1, <2>2, SavesOrStutters DEF Live
<1>8. ASSUME NEW b \in Batches, BeginShiftMsg(b) PROVE [Contract!Next]_contractVars
  BY <1>8, BeginRefines
<1>9. ASSUME NEW b \in Batches, SwapBatchMsg(b) PROVE [Contract!Next]_contractVars
  <2>1. station'.shift = station.shift /\ station'.counts = station.counts
    BY <1>0, <1>9, MergedType, ShiftOperators DEF SwapBatchMsg, TypeOK
  <2>2. Live' = Live
    BY <2>1, LiveKept
  <2>3. QED
    BY <1>9, <2>2, SavesOrStutters DEF SwapBatchMsg, files, history
<1>10. CASE EndShiftCmd \/ BeginEndShift
  <2>1. Live' = Live
    BY <1>0, <1>10, EndOperators, LiveKept DEF EndShiftCmd, BeginEndShift
  <2>2. used'.shifts = used.shifts /\ used'.resets = used.resets
    BY <1>0, <1>10, UsedElsewhere DEF EndShiftCmd, BeginEndShift
  <2>3. QED
    BY <1>10, <2>1, <2>2, SavesOrStutters DEF EndShiftCmd, BeginEndShift, files
<1>11. ASSUME NEW present \in BOOLEAN, ReaderPresence(present)
       PROVE  [Contract!Next]_contractVars
  BY <1>0, <1>11, FlipRefines DEF ReaderPresence, files, history
<1>12. ASSUME NEW ready \in BOOLEAN, SetDownstream(ready) PROVE [Contract!Next]_contractVars
  BY <1>0, <1>12, FlipRefines DEF SetDownstream, files
<1>13. CASE Blip
  <2>1. used'.shifts = used.shifts /\ used'.resets = used.resets
    BY <1>0, <1>13, UsedElsewhere DEF Blip
  <2>2. QED
    BY <1>0, <1>13, <2>1, FlipRefines DEF Blip, files
<1>14. CASE KeyingNotReady
  BY <1>0, <1>14, FlipRefines DEF KeyingNotReady, NotReadyStation, files
<1>15. CASE ResetDemo
  BY <1>0, <1>15, ResetRefines DEF ResetDemo
<1>16. CASE ConformanceReset
  <2>1. ResetTo(TRUE, TRUE, TRUE)
    BY <1>16 DEF ConformanceReset
  <2>2. QED
    BY <2>1, ResetRefines, Zenon
<1>17. CASE EmitVerdict
  BY <1>17, VerdictRefines
<1>18. CASE TickBlip
  <2>1. disk' = disk /\ used' = used
    BY <1>18 DEF TickBlip, files, history
  <2>2. CASE BlipExpired
    <3>1. CommitFlip(SetConnectionInputs(station, station.reader, TRUE), "endshift")
      BY <1>18, <2>2 DEF TickBlip
    <3>2. QED
      BY <1>0, <2>1, <3>1, FlipRefines
  <2>3. CASE ~BlipExpired
    BY <1>1, <1>18, <2>1, <2>3 DEF TickBlip
  <2>4. QED
    BY <2>2, <2>3
<1>19. CASE ConfirmEmission
  <2>1. station' \in {station, MarkShiftEnded(station)} /\ disk' = disk /\ used' = used
    BY <1>19 DEF ConfirmEmission, files, history
  <2>2. Live' = Live
    BY <1>0, <2>1, EndOperators, LiveKept
  <2>3. QED
    BY <2>1, <2>2, SavesOrStutters
<1>20. CASE CrashRestart
  BY <1>20, RestartRefines
<1>21. QED
  BY <1>2, <1>3, <1>4, <1>5, <1>6, <1>7, <1>8, <1>9, <1>10, <1>11, <1>12, <1>13, <1>14,
     <1>15, <1>16, <1>17, <1>18, <1>19, <1>20
  DEF Next, HandlerStep, CommitStep, KeyChip, Message, Environment

LEMMA InitRefines == Init => Contract!Init
<1>1. ASSUME Init PROVE Contract!Init
  <2>1. PICK ready \in BOOLEAN : station = Booted(FreshSession, ready)
    BY <1>1 DEF Init
  <2>2. ToPersisted(station) = FreshSession
    BY <2>1, BootedSession, FreshIsSession
  <2>3. QED
    BY <1>1, <2>2
    DEF Init, Contract!Init, Contract!NoShift, Contract!ZeroCounts, ZeroCounts, Resumed,
        FreshSession, Limited
<1>2. QED
  BY <1>1

\* The core keeps the recovery contract: a verdict is counted only when the session file
\* has all the others (commit, update_persist_health, on_tick's probe), and a restart
\* resumes the shift of the file (main.rs, StationState::new).
THEOREM Recovery == Spec => ImplementsContract
<1>1. Inv /\ HasBatch /\ [Next]_vars => HasBatch'
  BY HasBatchStep
<1>2. Inv /\ Inv' /\ HasBatch /\ HasBatch' /\ [Next]_vars => [Contract!Next]_contractVars
  BY StepRefines DEF Steady
<1>3. QED
  BY <1>1, <1>2, InvInit, InvStep, HasBatchInit, InitRefines, PTL
  DEF Spec, ImplementsContract, Contract!Spec, contractVars, Live, OnFile
-----------------------------------------------------------------------------
(* What a page that loads is given, and what it was shown.                 *)

\* A change of the station is always followed by a refresh of the boot cache: the one
\* of the commit it starts, or its own.
BootInv == pc # "saving" => boot = Snapshot(station)

LEMMA ShownFields ==
    ASSUME NEW st \in Station, NEW r, NEW d, NEW ok
    PROVE  /\ SetConnectionInputs(st, r, d).counts = st.counts
           /\ SetPersistOk(st, ok).counts = st.counts
           /\ MarkShiftEnded(st).counts = st.counts
           /\ MarkShiftEnded(st).connected = st.connected
  BY DEF SetConnectionInputs, SetPersistOk, RecomputeConnection, MarkShiftEnded, Station

LEMMA BootStep == TypeOK /\ BootInv /\ [Next]_vars => BootInv'
<1> SUFFICES ASSUME TypeOK, BootInv, [Next]_vars
             PROVE  BootInv'
  OBVIOUS
<1> USE DEF Idle
<1>0. station \in Station
  BY DEF TypeOK
<1>1. ASSUME pc' = "saving" \/ boot' = Snapshot(station') PROVE BootInv'
  BY <1>1 DEF BootInv, Snapshot
<1>2. ASSUME pc # "saving", boot' = boot, station' = station PROVE BootInv'
  BY <1>2 DEF BootInv, Snapshot
<1>3. ASSUME pc' = pc, boot' = boot, station' = station PROVE BootInv'
  BY <1>3 DEF BootInv, Snapshot
<1>4. ASSUME NEW r, NEW d, NEW next, CommitFlip(SetConnectionInputs(station, r, d), next),
             pc # "saving", boot' = boot
      PROVE  BootInv'
  <2>1. CASE station'.connected = station.connected
    <3>1. Snapshot(station') = Snapshot(station)
      BY <1>0, <1>4, <2>1, LegsKeepBatch, ShownFields DEF CommitFlip, Snapshot
    <3>2. QED
      BY <1>1, <1>4, <3>1 DEF BootInv
  <2>2. CASE station'.connected # station.connected
    BY <1>1, <1>4, <2>2 DEF CommitFlip, Commit
  <2>3. QED
    BY <2>1, <2>2
<1>5. CASE Persist
  BY <1>1, <1>5 DEF Persist, RefreshBootCache, memory, Snapshot
<1>6. CASE UpdatePersistHealth
  <2>1. CASE station'.connected = station.connected
    <3>1. Snapshot(station') = Snapshot(station)
      BY <1>0, <1>6, <2>1, HealthKeepsBatch, ShownFields DEF UpdatePersistHealth, Snapshot
    <3>2. QED
      BY <1>1, <1>6, <2>1, <3>1 DEF UpdatePersistHealth, BootInv
  <2>2. CASE station'.connected # station.connected
    BY <1>1, <1>6, <2>2 DEF UpdatePersistHealth, RefreshBootCache
  <2>3. QED
    BY <2>1, <2>2
<1>7. CASE Push \/ ChipKeyed \/ RecoverableFailure \/ PermanentFailure \/ RecordOutcome
           \/ RecordOutcomeFails \/ AppendOverrun \/ Tick
  BY <1>2, <1>7
  DEF Push, ChipKeyed, RecoverableFailure, PermanentFailure, RecordOutcome,
      RecordOutcomeFails, AppendOverrun, Tick, memory
<1>8. CASE EmitVerdict \/ EndShiftCmd \/ BeginEndShift \/ BridgeAttached
  BY <1>1, <1>8 DEF EmitVerdict, EndShiftCmd, BeginEndShift, BridgeAttached, Commit
<1>9. ASSUME NEW b \in Batches, BeginShiftMsg(b) \/ SwapBatchMsg(b) PROVE BootInv'
  BY <1>1, <1>9 DEF BeginShiftMsg, SwapBatchMsg, Commit
<1>10. ASSUME NEW c \in Chips, CardPresented(c) PROVE BootInv'
  BY <1>2, <1>10 DEF CardPresented, memory
<1>11. ASSUME NEW w \in Windows, Elapse(w) PROVE BootInv'
  BY <1>3, <1>11 DEF Elapse, handler
<1>12. CASE BootPulled \/ PageBoot \/ DiskBreaks \/ DiskHeals \/ UNCHANGED vars
  BY <1>3, <1>12 DEF BootPulled, PageBoot, DiskBreaks, DiskHeals, vars, handler, memory
<1>13. ASSUME NEW x \in BOOLEAN, ReaderPresence(x) \/ SetDownstream(x) PROVE BootInv'
  BY <1>4, <1>13 DEF ReaderPresence, SetDownstream
<1>14. CASE Blip \/ KeyingNotReady
  BY <1>4, <1>14 DEF Blip, KeyingNotReady, NotReadyStation
<1>15. CASE ResetDemo \/ ConformanceReset
  BY <1>1, <1>15 DEF ResetDemo, ConformanceReset, ResetTo, RefreshBootCache
<1>16. CASE TickBlip
  BY <1>2, <1>4, <1>16 DEF TickBlip
<1>17. CASE TickEndShift
  BY <1>1, <1>2, <1>17 DEF TickEndShift, Commit, memory
<1>18. CASE ConfirmEmission
  BY <1>1, <1>2, <1>18 DEF ConfirmEmission, Commit
<1>19. CASE CrashRestart
  BY <1>1, <1>19 DEF CrashRestart
<1>20. QED
  BY <1>5, <1>6, <1>7, <1>8, <1>9, <1>10, <1>11, <1>12, <1>13, <1>14, <1>15, <1>16, <1>17,
     <1>18, <1>19
  DEF Next, HandlerStep, CommitStep, KeyChip, Message, Environment

\* Between messages, and while a chip is being keyed, the boot cache is the present
\* snapshot, also after a failed write, a kill or a reset (commit and update_persist_health
\* refresh it whatever try_persist answered): a page that loads needs no correction.
THEOREM BootFresh == Spec => []BootCacheFresh
<1>1. Init => BootInv
  BY DEF Init, BootInv
<1>2. BootInv => BootCacheFresh
  BY DEF BootInv, BootCacheFresh
<1>3. Inv => TypeOK
  BY DEF Inv
<1>4. QED
  BY <1>1, <1>2, <1>3, Invariance, BootStep, PTL DEF Spec

\* The counts the page was shown of a running shift (push, with the payload of the commit)
\* are in session.json, or the line is paused, or this handler is about to pause it: what
\* the operator saw and a restart would lose is never followed by another tap.
THEOREM ShownIsSaved == Spec => []ShownAheadOnlyWhilePausing
<1>1. Inv /\ HasBatch => ShownAheadOnlyWhilePausing
  <2>1. SUFFICES ASSUME Inv, HasBatch, station.shift # None, ~resetFailed, pc # "saving",
                        shown.batch = station.batch, shown.counts = station.counts,
                        station.persistOk, ~(pc \in {"pushing", "health"} /\ ~saved)
                 PROVE  OnDisk(shown)
    BY DEF ShownAheadOnlyWhilePausing
  <2>2. disk = ToPersisted(station)
    <3>1. pc \in {"pushing", "health"} \/ pc \in Settled
      BY <2>1 DEF Inv, TypeOK, Steps, Settled
    <3>2. QED
      BY <2>1, <3>1 DEF Inv, DiskInv, DurableWhileHealthy
  <2>3. /\ station.batch # None
        /\ disk.shift = [meta |-> station.shift, batch |-> station.batch,
                         counts |-> station.counts]
    BY <2>1, <2>2 DEF HasBatch, ToPersisted
  <2>4. disk.shift # None
    <3>1. disk.shift \in PersistedShift
      BY <2>1, <2>3 DEF Inv, TypeOK, Station, PersistedShift
    <3>2. QED
      BY <3>1, NoneAssumption
  <2>5. QED
    BY <2>1, <2>3, <2>4 DEF OnDisk
<1>2. Inv /\ HasBatch /\ [Next]_vars => HasBatch'
  BY HasBatchStep
<1>3. QED
  BY <1>1, <1>2, InvInit, InvStep, HasBatchInit, PTL DEF Spec
-----------------------------------------------------------------------------
(* Accounting.  What kills, breakdowns of the disk and errors of the batch *)
(* source can cost a station: chips keyed past a batch's total and         *)
(* overruns without a record.                                              *)
(*                                                                         *)
(* A loss is counted once (Losses) and may cost a copy of a count one chip *)
(* at most.  A breakdown is counted when it happens but costs something    *)
(* only when a write fails; Credit is the one that is still to be paid.    *)

\* The disk is broken, and the line does not know: a tap may still be taken, or its
\* count be on its way to a first write that fails.
Unspent ==
    /\ ~diskOk
    /\ pc \notin {"auditing", "verdict", "saving"}
    /\ IF pc \in {"pushing", "health"} THEN saved ELSE station.persistOk

Credit == IF Unspent THEN 1 ELSE 0

\* The chip in hand was keyed in batch b.
InHand(b) == tap.batch = b /\ tap.verdict = "success"

\* A count that the running handler brings to a copy it writes after the given steps.
Owed(b, steps) ==
    IF InHand(b) /\ (pc = "recording" \/ (pc \in steps /\ diskOk /\ tap.updated # None))
    THEN 1 ELSE 0

\* A copy that counts n chips of batch b lacks no more of the keyed ones than were lost.
Covers(n, b, steps) == keyed[b] + Credit <= n + Losses + Owed(b, steps)

Counted == {"auditing", "verdict"}
Unsaved == {"auditing", "verdict", "saving"}

\* The copies: the batch source's, its file, the station's batch, and session.json.
SourceCovers == \A b \in Batches : Covers(source[b].completed, b, {})
OverlayCovers == Conformance \/ \A b \in Batches : Covers(sourceDisk[b].completed, b, {})
StationCovers == station.batch # None
                 => Covers(station.batch.completed, station.batch.id, Counted)
SessionCovers == disk.shift # None
                 => Covers(disk.shift.batch.completed, disk.shift.batch.id, Unsaved)

\* Under policy "block" a chip is keyed only in a batch that has room for it.
GateHeld ==
    OverrunPolicy = "block" /\ pc = "keying" => keyed[tap.batch] < Total[tap.batch] + Losses

\* The batch source's answer to a tap is what the source holds.
AnswerInv ==
    /\ pc \in {"keying", "recording"} => tap.updated = None
    /\ pc = "auditing" => tap.verdict = "success"
    /\ pc \in Counted /\ tap.updated # None => tap.updated = Merged(source, tap.batch)

\* A disk that is broken did break; a conformance process has no overlay file.
BreakInv ==
    /\ ~diskOk => used.faults > 0
    /\ Conformance => sourceDisk = NoProgress

\* The record of the tap in hand is about to be appended.
Unaudited(b) == IF pc = "auditing" /\ tap.batch = b /\ diskOk THEN 1 ELSE 0
Audits(n, b) == n + Credit <= Total[b] + overruns[b] + Losses + Unaudited(b)
AuditInv ==
    \A b \in Batches : Audits(source[b].completed, b) /\ Audits(sourceDisk[b].completed, b)

AccountInv == /\ AnswerInv /\ BreakInv
              /\ SourceCovers /\ OverlayCovers /\ StationCovers /\ SessionCovers
              /\ GateHeld /\ BlockBound
              /\ AuditInv
-----------------------------------------------------------------------------
(* Losses and the credit.                                                  *)

LEMMA LossesGrow ==
    ASSUME TypeOK, [Next]_vars
    PROVE  /\ Losses \in Nat /\ Losses' \in Nat /\ Losses <= Losses'
           /\ used.faults \in Nat /\ used.faults <= Losses
           /\ used'.faults \in Nat /\ used.faults <= used'.faults /\ used'.faults <= Losses'
           /\ DiskBreaks => used'.faults = used.faults + 1 /\ Losses' = Losses + 1
           /\ CrashRestart \/ RecordOutcomeFails => Losses' = Losses + 1
<1>1. /\ used.crashes \in Nat /\ used.faults \in Nat /\ used.outages \in Nat
      /\ used \in [Limited -> Nat] /\ {"crashes", "faults", "outages"} \subseteq Limited
  BY DEF TypeOK, Limited
<1>2. ASSUME NEW w \in Limited, Use(w)
      PROVE  /\ used'.crashes = used.crashes + (IF w = "crashes" THEN 1 ELSE 0)
             /\ used'.faults = used.faults + (IF w = "faults" THEN 1 ELSE 0)
             /\ used'.outages = used.outages + (IF w = "outages" THEN 1 ELSE 0)
  BY <1>1, <1>2, UseCounts
<1>3. /\ used'.crashes \in Nat /\ used.crashes <= used'.crashes
      /\ used'.faults \in Nat /\ used.faults <= used'.faults
      /\ used'.outages \in Nat /\ used.outages <= used'.outages
  BY <1>1, <1>2, StepUses
<1>4. DiskBreaks => used'.faults = used.faults + 1 /\ Losses' = Losses + 1
  BY <1>1, <1>2 DEF DiskBreaks, Losses
<1>5. CrashRestart => Losses' = Losses + 1
  BY <1>1, <1>2 DEF CrashRestart, Losses
<1>6. RecordOutcomeFails => Losses' = Losses + 1
  BY <1>1, <1>2 DEF RecordOutcomeFails, Losses
<1>7. QED
  BY <1>1, <1>3, <1>4, <1>5, <1>6 DEF Losses

LEMMA CreditQuiet ==
    ASSUME pc \notin {"pushing", "health"} \cup Unsaved, pc' \notin {"pushing", "health"},
           diskOk' = diskOk, station'.persistOk = station.persistOk
    PROVE  Unspent' => Unspent
  BY DEF Unspent, Unsaved

\* A breakdown and a kill earn a credit; of all the rest only a reset of the conformance
\* suite, which takes the persistence for healthy unseen, does.
LEMMA CreditStep ==
    ASSUME TypeOK, CommitInv, [Next]_vars
    PROVE  \/ Unspent' => Unspent
           \/ DiskBreaks \/ CrashRestart \/ ConformanceReset
<1> SUFFICES ASSUME ~DiskBreaks, ~CrashRestart, ~ConformanceReset
             PROVE  Unspent' => Unspent
  OBVIOUS
<1>0. /\ station \in Station /\ station.reader \in BOOLEAN /\ station.downstream \in BOOLEAN
      /\ station.persistOk \in BOOLEAN /\ saved \in BOOLEAN /\ diskOk \in BOOLEAN
      /\ TRUE \in BOOLEAN /\ FALSE \in BOOLEAN /\ source \in [Batches -> Progress]
  BY DEF TypeOK, Station
<1> USE DEF Idle
<1>1. CASE Persist
  BY <1>1 DEF Persist, Unspent
<1>2. CASE Push
  BY <1>2 DEF Push, Unspent
<1>3. CASE UpdatePersistHealth
  <2>1. station'.persistOk = saved
    BY <1>0, <1>3, HealthKeepsSession DEF UpdatePersistHealth
  <2>2. pc = "health" /\ pc' \in {"idle", "blip", "endshift", "confirm"} /\ diskOk' = diskOk
    BY <1>3 DEF UpdatePersistHealth, TypeOK
  <2>3. QED
    BY <2>1, <2>2 DEF Unspent
<1>4. CASE ChipKeyed \/ RecoverableFailure \/ PermanentFailure
  BY <1>4, CreditQuiet DEF ChipKeyed, RecoverableFailure, PermanentFailure, Unsaved
<1>5. ASSUME NEW r \in BOOLEAN, NEW d \in BOOLEAN, NEW next,
             pc \in {"idle", "keying", "blip"}, next \in {"idle", "endshift"},
             CommitFlip(SetConnectionInputs(station, r, d), next), diskOk' = diskOk
      PROVE  Unspent' => Unspent
  BY <1>0, <1>5, FlipKeeps, CreditQuiet DEF Unsaved
<1>6. CASE KeyingNotReady
  BY <1>0, <1>5, <1>6 DEF KeyingNotReady, NotReadyStation
<1>7. CASE RecordOutcome \/ RecordOutcomeFails \/ AppendOverrun \/ EmitVerdict
  BY <1>7
  DEF RecordOutcome, RecordOutcomeFails, AppendOverrun, EmitVerdict, Commit, Unspent
<1>8. ASSUME NEW b \in Batches, BeginShiftMsg(b) \/ SwapBatchMsg(b) PROVE Unspent' => Unspent
  BY <1>8 DEF BeginShiftMsg, SwapBatchMsg, Commit, Unspent
<1>9. CASE EndShiftCmd \/ BeginEndShift \/ BridgeAttached
  BY <1>9 DEF EndShiftCmd, BeginEndShift, BridgeAttached, Commit, Unspent
<1>10. CASE BootPulled
  BY <1>10 DEF BootPulled, handler, Unspent
<1>11. ASSUME NEW present \in BOOLEAN, ReaderPresence(present) PROVE Unspent' => Unspent
  BY <1>0, <1>5, <1>11 DEF ReaderPresence
<1>12. ASSUME NEW ready \in BOOLEAN, SetDownstream(ready) PROVE Unspent' => Unspent
  BY <1>0, <1>5, <1>12 DEF SetDownstream
<1>13. CASE Blip
  BY <1>0, <1>5, <1>13 DEF Blip
<1>14. CASE ResetDemo
  <2>1. station'.persistOk = station.persistOk
    BY <1>0, <1>14, FreshStation DEF ResetDemo, ResetTo
  <2>2. QED
    BY <1>14, <2>1 DEF ResetDemo, ResetTo, handler, Unspent
<1>15. ASSUME NEW c \in Chips, CardPresented(c) PROVE Unspent' => Unspent
  BY <1>15, CreditQuiet DEF CardPresented, memory, Unsaved
<1>16. CASE Tick
  BY <1>16 DEF Tick, memory, Unspent
<1>17. CASE TickBlip
  <2>1. CASE BlipExpired
    <3>1. /\ CommitFlip(SetConnectionInputs(station, station.reader, TRUE), "endshift")
          /\ pc \in {"idle", "keying", "blip"} /\ "endshift" \in {"idle", "endshift"}
          /\ diskOk' = diskOk
      BY <1>17, <2>1 DEF TickBlip
    <3>2. station'.persistOk = station.persistOk /\ pc' \in {"saving", "endshift"}
      BY <1>0, <3>1, FlipKeeps
    <3>3. QED
      BY <3>1, <3>2, CreditQuiet DEF Unsaved
  <2>2. CASE ~BlipExpired
    BY <1>17, <2>2 DEF TickBlip, Unspent
  <2>3. QED
    BY <2>1, <2>2
<1>18. CASE TickEndShift
  BY <1>18 DEF TickEndShift, Commit, memory, Unspent
<1>19. CASE ConfirmEmission
  <2>1. station' \in {station, MarkShiftEnded(station)}
    BY <1>19 DEF ConfirmEmission
  <2>2. station'.persistOk = station.persistOk
    <3>1. MarkShiftEnded(station).persistOk = station.persistOk
      BY <1>0, EndOperators
    <3>2. QED
      BY <2>1, <3>1
  <2>3. QED
    BY <1>19, <2>2 DEF ConfirmEmission, Commit, Unspent
<1>20. ASSUME NEW w \in Windows, Elapse(w) PROVE Unspent' => Unspent
  BY <1>20 DEF Elapse, handler, Unspent
<1>21. CASE PageBoot \/ UNCHANGED vars
  BY <1>21 DEF PageBoot, vars, memory, handler, Unspent
<1>22. CASE DiskHeals
  BY <1>22 DEF DiskHeals, Unspent
<1>23. QED
  BY <1>1, <1>2, <1>3, <1>4, <1>6, <1>7, <1>8, <1>9, <1>10, <1>11, <1>12, <1>13, <1>14, <1>15,
     <1>16, <1>17, <1>18, <1>19, <1>20, <1>21, <1>22
  DEF Next, HandlerStep, CommitStep, KeyChip, Message, Environment
-----------------------------------------------------------------------------
(* What a step owes and pays.                                              *)

Copies == SourceCovers /\ OverlayCovers /\ StationCovers /\ SessionCovers /\ AuditInv

\* A step that adds chips, takes a credit or drops what was owed pays for it by a loss.
Pays(b, steps) ==
    keyed'[b] + Credit' + Losses + Owed(b, steps) <= keyed[b] + Credit + Losses' + Owed(b, steps)'

AuditPays(b) == Credit' + Losses + Unaudited(b) <= Credit + Losses' + Unaudited(b)'

LEMMA OwedType == \A b, steps : Owed(b, steps) \in {0, 1} /\ Owed(b, steps)' \in {0, 1}
  BY DEF Owed

LEMMA OwedMore ==
    ASSUME NEW b, NEW few, NEW many, few \subseteq many
    PROVE  Owed(b, few) <= Owed(b, many) /\ Owed(b, few)' <= Owed(b, many)'
  BY DEF Owed

LEMMA CountTypes ==
    ASSUME TypeOK, NEW b \in Batches
    PROVE  /\ keyed[b] \in Nat /\ overruns[b] \in Nat /\ Total[b] \in Nat
           /\ source[b].completed \in Nat /\ sourceDisk[b].completed \in Nat
           /\ Credit \in {0, 1} /\ Credit' \in {0, 1}
           /\ Unaudited(b) \in {0, 1} /\ Unaudited(b)' \in {0, 1}
  BY CoreAssumption DEF TypeOK, Progress, Credit, Unaudited

LEMMA NextCounts ==
    ASSUME TypeOK', NEW b \in Batches
    PROVE  /\ keyed'[b] \in Nat /\ overruns'[b] \in Nat
           /\ source'[b].completed \in Nat /\ sourceDisk'[b].completed \in Nat
  BY DEF TypeOK, Progress

LEMMA CopyTypes ==
    ASSUME TypeOK
    PROVE  /\ station.batch # None => /\ station.batch.id \in Batches
                                      /\ station.batch.completed \in Nat
           /\ disk.shift # None => /\ disk.shift.batch.id \in Batches
                                   /\ disk.shift.batch.completed \in Nat
<1>1. station.batch # None => station.batch \in BatchInfo
  BY DEF TypeOK, Station
<1>2. disk.shift # None => disk.shift.batch \in BatchInfo
  BY DEF TypeOK, PersistedSession, PersistedShift
<1>3. QED
  BY <1>1, <1>2 DEF BatchInfo

\* A count that is being brought to a copy still is.
OwesNoLess(steps) ==
    /\ diskOk => diskOk'
    /\ \/ pc \notin {"recording"} \cup steps
       \/ tap.verdict # "success"
       \/ /\ tap' = tap
          /\ pc = "recording" => pc' = "recording"
          /\ pc \in steps => pc' \in steps

LEMMA QuietPays ==
    ASSUME TypeOK, [Next]_vars, Unspent' => Unspent, keyed' = keyed,
           NEW steps, OwesNoLess(steps), NEW b \in Batches
    PROVE  Pays(b, steps)
<1>1. Owed(b, steps) <= Owed(b, steps)'
  BY DEF OwesNoLess, Owed, InHand
<1>2. Credit' <= Credit /\ Credit \in {0, 1} /\ Credit' \in {0, 1}
  BY DEF Credit
<1>3. Losses <= Losses' /\ Losses \in Nat /\ Losses' \in Nat
  BY LossesGrow
<1>4. QED
  BY <1>1, <1>2, <1>3, OwedType, CountTypes DEF Pays

LEMMA QuietAudit ==
    ASSUME TypeOK, [Next]_vars, Unspent' => Unspent, diskOk => diskOk',
           pc # "auditing" \/ (pc' = pc /\ tap' = tap), NEW b \in Batches
    PROVE  AuditPays(b)
<1>1. Unaudited(b) <= Unaudited(b)'
  BY DEF Unaudited
<1>2. Credit' <= Credit
  BY DEF Credit
<1>3. Losses <= Losses' /\ Losses \in Nat /\ Losses' \in Nat
  BY LossesGrow
<1>4. QED
  BY <1>1, <1>2, <1>3, CountTypes DEF AuditPays

\* A tap is in hand only on a line whose last write succeeded.
LEMMA SpendsAtHand ==
    ASSUME TapInv, CommitInv, pc \in {"keying", "recording"}, ~diskOk
    PROVE  Unspent
  BY DEF TapInv, CommitInv, Unspent

LEMMA LossPays ==
    ASSUME TypeOK, TapInv, CommitInv, AnswerInv, [Next]_vars,
           RecordOutcomeFails \/ DiskBreaks \/ CrashRestart,
           NEW b \in Batches, keyed'[b] = keyed[b], NEW steps \in SUBSET Unsaved
    PROVE  Pays(b, steps) /\ AuditPays(b)
<1>1. Losses' = Losses + 1 /\ Losses \in Nat
  BY LossesGrow
<1>2. Credit' + Owed(b, steps) <= Credit + 1 + Owed(b, steps)'
  <2>1. CASE RecordOutcomeFails
    BY <2>1, OwedType DEF RecordOutcomeFails, Credit, Unspent
  <2>2. CASE DiskBreaks
    <3>1. Owed(b, steps) = 1 => Credit' = 0 \/ Owed(b, steps)' = 1
      BY <2>2 DEF DiskBreaks, memory, handler, Owed, InHand, Credit, Unspent, Unsaved
    <3>2. QED
      BY <3>1, OwedType, CountTypes DEF Credit
  <2>3. CASE CrashRestart
    <3>1. ~diskOk /\ Owed(b, steps) = 1 => Credit = 1
      BY SpendsAtHand DEF Owed, Credit
    <3>2. diskOk => Credit' = 0
      BY <2>3 DEF CrashRestart, Credit, Unspent
    <3>3. QED
      BY <3>1, <3>2, OwedType, CountTypes
  <2>4. QED
    BY <2>1, <2>2, <2>3
<1>3. Credit' + Unaudited(b) <= Credit + 1 + Unaudited(b)'
  <2>1. Unaudited(b) = 1 => Credit' = 0
    BY DEF Unaudited, RecordOutcomeFails, DiskBreaks, memory, handler, CrashRestart, Credit,
       Unspent
  <2>2. QED
    BY <2>1, CountTypes
<1>4. Pays(b, steps)
  BY <1>1, <1>2, OwedType, CountTypes DEF Pays
<1>5. QED
  BY <1>1, <1>3, <1>4, CountTypes DEF AuditPays
-----------------------------------------------------------------------------
(* What a step that pays keeps.                                            *)

LEMMA CopyKept ==
    ASSUME TypeOK, TypeOK', [Next]_vars, NEW b \in Batches, NEW n \in Nat, NEW steps,
           Covers(n, b, steps), Pays(b, steps)
    PROVE  keyed'[b] + Credit' <= n + Losses' + Owed(b, steps)'
<1>1. Losses \in Nat /\ Losses' \in Nat
  BY LossesGrow
<1>2. keyed'[b] \in Nat
  BY NextCounts
<1>3. QED
  BY <1>1, <1>2, OwedType, CountTypes DEF Covers, Pays

LEMMA SourceKept ==
    ASSUME TypeOK, TypeOK', [Next]_vars, Copies, \A b \in Batches : Pays(b, {}),
           source' = source, sourceDisk' = sourceDisk
    PROVE  SourceCovers' /\ OverlayCovers'
<1>1. SourceCovers'
  BY CopyKept, CountTypes DEF Copies, SourceCovers, Covers
<1>2. OverlayCovers'
  BY CopyKept, CountTypes DEF Copies, OverlayCovers, Covers
<1>3. QED
  BY <1>1, <1>2

LEMMA AuditKept ==
    ASSUME TypeOK, TypeOK', [Next]_vars, Copies, \A b \in Batches : AuditPays(b),
           source' = source, sourceDisk' = sourceDisk, overruns' = overruns
    PROVE  AuditInv'
<1>1. SUFFICES ASSUME NEW b \in Batches
               PROVE  Audits(source[b].completed, b)' /\ Audits(sourceDisk[b].completed, b)'
  BY DEF AuditInv
<1>2. Losses \in Nat /\ Losses' \in Nat
  BY LossesGrow
<1>3. QED
  BY <1>2, CountTypes DEF Copies, AuditInv, Audits, AuditPays

LEMMA StationKept ==
    ASSUME TypeOK, TypeOK', [Next]_vars, Copies, \A b \in Batches : Pays(b, Counted),
           station'.batch = station.batch
    PROVE  StationCovers'
<1>1. SUFFICES ASSUME station.batch # None
               PROVE  Covers(station.batch.completed, station.batch.id, Counted)'
  BY DEF StationCovers
<1>2. /\ station.batch.id \in Batches /\ station.batch.completed \in Nat
      /\ Covers(station.batch.completed, station.batch.id, Counted)
  BY <1>1, CopyTypes DEF Copies, StationCovers
<1>3. QED
  BY <1>2, CopyKept DEF Covers

LEMMA SessionKept ==
    ASSUME TypeOK, TypeOK', [Next]_vars, Copies, \A b \in Batches : Pays(b, Unsaved),
           disk' = disk
    PROVE  SessionCovers'
<1>1. SUFFICES ASSUME disk.shift # None
               PROVE  Covers(disk.shift.batch.completed, disk.shift.batch.id, Unsaved)'
  BY DEF SessionCovers
<1>2. /\ disk.shift.batch.id \in Batches /\ disk.shift.batch.completed \in Nat
      /\ Covers(disk.shift.batch.completed, disk.shift.batch.id, Unsaved)
  BY <1>1, CopyTypes DEF Copies, SessionCovers
<1>3. QED
  BY <1>2, CopyKept DEF Covers

\* The station takes a batch from the source.
LEMMA StationAdopts ==
    ASSUME TypeOK, TypeOK', [Next]_vars, Copies, \A b \in Batches : Pays(b, {}),
           NEW b \in Batches, station'.batch = Merged(source, b)
    PROVE  StationCovers'
<1>1. station'.batch.id = b /\ station'.batch.completed = source[b].completed
  BY DEF Merged
<1>2. keyed'[b] + Credit' <= source[b].completed + Losses' + Owed(b, {})'
  BY CopyKept, CountTypes DEF Copies, SourceCovers
<1>3. Owed(b, {})' <= Owed(b, Counted)' /\ Losses' \in Nat /\ keyed'[b] \in Nat
  BY OwedMore, LossesGrow, NextCounts
<1>4. keyed'[b] + Credit' <= source[b].completed + Losses' + Owed(b, Counted)'
  BY <1>2, <1>3, OwedType, CountTypes
<1>5. QED
  BY <1>1, <1>4 DEF StationCovers, Covers

\* The session file takes the station's batch.
LEMMA SessionSaved ==
    ASSUME TypeOK, TypeOK', [Next]_vars, Copies, \A b \in Batches : Pays(b, Counted),
           disk' = ToPersisted(station)
    PROVE  SessionCovers'
<1>1. SUFFICES ASSUME disk'.shift # None
               PROVE  Covers(disk.shift.batch.completed, disk.shift.batch.id, Unsaved)'
  BY DEF SessionCovers
<1>2. station.batch # None /\ disk'.shift.batch = station.batch
  BY <1>1 DEF ToPersisted
<1>3. /\ station.batch.id \in Batches /\ station.batch.completed \in Nat
      /\ Covers(station.batch.completed, station.batch.id, Counted)
  BY <1>2, CopyTypes DEF Copies, StationCovers
<1>4. PICK b \in Batches : b = station.batch.id
  BY <1>3
<1>5. keyed'[b] + Credit' <= station.batch.completed + Losses' + Owed(b, Counted)'
  BY <1>3, <1>4, CopyKept
<1>6. Owed(b, Counted)' <= Owed(b, Unsaved)' /\ Losses' \in Nat /\ keyed'[b] \in Nat
  BY OwedMore, LossesGrow, NextCounts DEF Counted, Unsaved
<1>7. keyed'[b] + Credit' <= station.batch.completed + Losses' + Owed(b, Unsaved)'
  BY <1>3, <1>5, <1>6, OwedType, CountTypes
<1>8. QED
  BY <1>2, <1>4, <1>7 DEF Covers
-----------------------------------------------------------------------------
(* The steps.                                                              *)

LEMMA AnswerStep == TypeOK /\ TapInv /\ AnswerInv /\ [Next]_vars => AnswerInv'
<1> SUFFICES ASSUME TypeOK, TapInv, AnswerInv, [Next]_vars
             PROVE  AnswerInv'
  OBVIOUS
<1> USE DEF Idle
<1>1. ASSUME pc' \notin {"keying", "recording", "auditing", "verdict"} PROVE AnswerInv'
  BY <1>1 DEF AnswerInv, Counted
<1>2. ASSUME pc' = pc, tap' = tap, source' = source PROVE AnswerInv'
  BY <1>2 DEF AnswerInv, Merged
<1>3. CASE CommitStep
  BY <1>1, <1>3 DEF CommitStep, Persist, Push, UpdatePersistHealth, TypeOK
<1>4. CASE ChipKeyed \/ RecoverableFailure \/ PermanentFailure
  <2>1. /\ pc = "keying" /\ tap'.updated = tap.updated
        /\ pc' \in {"recording", "verdict"}
    BY <1>4 DEF ChipKeyed, RecoverableFailure, PermanentFailure, TypeOK, Tap
  <2>2. QED
    BY <2>1 DEF AnswerInv
<1>5. CASE RecordOutcome
  <2>1. tap' = [tap EXCEPT !.updated = Merged(source', tap.batch)] /\ tap \in Tap
    BY <1>5 DEF RecordOutcome, TypeOK
  <2>2. /\ tap'.updated = Merged(source', tap'.batch) /\ tap'.verdict = tap.verdict
    BY <2>1 DEF Tap
  <2>3. pc' = "verdict" \/ (pc' = "auditing" /\ tap.verdict = "success")
    BY <1>5 DEF RecordOutcome
  <2>4. QED
    BY <2>2, <2>3 DEF AnswerInv, Merged
<1>6. CASE RecordOutcomeFails \/ AppendOverrun
  BY <1>6 DEF RecordOutcomeFails, AppendOverrun, files, AnswerInv, Counted, Merged
<1>7. CASE KeyingNotReady \/ EmitVerdict \/ Tick \/ TickBlip \/ TickEndShift \/ ConfirmEmission
  BY <1>1, <1>7
  DEF KeyingNotReady, EmitVerdict, Tick, TickBlip, TickEndShift, ConfirmEmission, CommitFlip,
      Commit
<1>8. ASSUME NEW b \in Batches, BeginShiftMsg(b) \/ SwapBatchMsg(b) PROVE AnswerInv'
  BY <1>1, <1>8 DEF BeginShiftMsg, SwapBatchMsg, Commit
<1>9. CASE EndShiftCmd \/ BeginEndShift \/ BridgeAttached \/ BootPulled
           \/ ResetDemo \/ ConformanceReset \/ Blip
  BY <1>1, <1>9
  DEF EndShiftCmd, BeginEndShift, BridgeAttached, BootPulled, ResetDemo, ConformanceReset,
      ResetTo, Blip, CommitFlip, Commit, handler
<1>10. ASSUME NEW x \in BOOLEAN, ReaderPresence(x) \/ SetDownstream(x) PROVE AnswerInv'
  BY <1>1, <1>10 DEF ReaderPresence, SetDownstream, CommitFlip, Commit
<1>11. ASSUME NEW c \in Chips, CardPresented(c) PROVE AnswerInv'
  <2>1. tap' = [[NoTap EXCEPT !.batch = station.batch.id] EXCEPT !.chip = c] /\ pc' = "keying"
    BY <1>11 DEF CardPresented
  <2>2. tap'.updated = None
    BY <2>1 DEF NoTap
  <2>3. QED
    BY <2>1, <2>2 DEF AnswerInv, Counted
<1>12. ASSUME NEW w \in Windows, Elapse(w) PROVE AnswerInv'
  BY <1>2, <1>12 DEF Elapse, handler, files
<1>13. CASE PageBoot \/ DiskBreaks \/ DiskHeals \/ UNCHANGED vars
  BY <1>2, <1>13 DEF PageBoot, DiskBreaks, DiskHeals, vars, handler, files
<1>14. CASE CrashRestart
  BY <1>1, <1>14 DEF CrashRestart
<1>15. QED
  BY <1>3, <1>4, <1>5, <1>6, <1>7, <1>8, <1>9, <1>10, <1>11, <1>12, <1>13, <1>14
  DEF Next, HandlerStep, KeyChip, Message, Environment

LEMMA BreakStep == TypeOK /\ BreakInv /\ [Next]_vars => BreakInv'
<1> SUFFICES ASSUME TypeOK, BreakInv, [Next]_vars
             PROVE  BreakInv'
  OBVIOUS
<1>0. used.faults \in Nat /\ used'.faults \in Nat /\ used.faults <= used'.faults
  BY LossesGrow
<1>1. ASSUME diskOk => diskOk', sourceDisk' = sourceDisk PROVE BreakInv'
  BY <1>0, <1>1, CoreAssumption DEF BreakInv
<1>2. CASE CommitStep \/ KeyChip \/ RecordOutcomeFails \/ AppendOverrun \/ EmitVerdict
           \/ Tick \/ TickBlip \/ TickEndShift \/ ConfirmEmission
  BY <1>1, <1>2
  DEF CommitStep, Persist, Push, UpdatePersistHealth, KeyChip, ChipKeyed, RecoverableFailure,
      PermanentFailure, KeyingNotReady, RecordOutcomeFails, AppendOverrun, EmitVerdict, Tick,
      TickBlip, TickEndShift, ConfirmEmission, files
<1>3. CASE RecordOutcome
  BY <1>0, <1>3, CoreAssumption DEF RecordOutcome, BreakInv
<1>4. ASSUME NEW b \in Batches, BeginShiftMsg(b) \/ SwapBatchMsg(b) PROVE BreakInv'
  BY <1>1, <1>4 DEF BeginShiftMsg, SwapBatchMsg, files
<1>5. CASE EndShiftCmd \/ BeginEndShift \/ BridgeAttached \/ BootPulled \/ Blip
  BY <1>1, <1>5 DEF EndShiftCmd, BeginEndShift, BridgeAttached, BootPulled, Blip, files
<1>6. ASSUME NEW x \in BOOLEAN, ReaderPresence(x) \/ SetDownstream(x) PROVE BreakInv'
  BY <1>1, <1>6 DEF ReaderPresence, SetDownstream, files
<1>7. CASE ResetDemo \/ ConformanceReset
  <2>1. diskOk' = diskOk /\ sourceDisk' \in {NoProgress, sourceDisk}
    BY <1>7 DEF ResetDemo, ConformanceReset, ResetTo
  <2>2. NoProgress' = NoProgress
    BY DEF NoProgress
  <2>3. QED
    BY <1>0, <2>1, <2>2, CoreAssumption DEF BreakInv
<1>8. ASSUME NEW c \in Chips, CardPresented(c) PROVE BreakInv'
  BY <1>1, <1>8 DEF CardPresented, files
<1>9. ASSUME NEW w \in Windows, Elapse(w) PROVE BreakInv'
  BY <1>1, <1>9 DEF Elapse, files
<1>10. CASE PageBoot \/ DiskHeals \/ CrashRestart \/ UNCHANGED vars
  BY <1>1, <1>10 DEF PageBoot, DiskHeals, CrashRestart, files, vars
<1>11. CASE DiskBreaks
  <2>1. used'.faults = used.faults + 1
    BY <1>11, LossesGrow
  <2>2. sourceDisk' = sourceDisk
    BY <1>11 DEF DiskBreaks, files
  <2>3. QED
    BY <1>0, <2>1, <2>2, CoreAssumption DEF BreakInv
<1>12. QED
  BY <1>2, <1>3, <1>4, <1>5, <1>6, <1>7, <1>8, <1>9, <1>10, <1>11
  DEF Next, HandlerStep, Message, Environment

\* After a reset nothing is keyed, and a disk that is broken has been counted.
LEMMA ZeroKeyed ==
    ASSUME TypeOK, TypeOK', BreakInv', [Next]_vars, keyed' = [b \in Batches |-> 0]
    PROVE  SourceCovers' /\ OverlayCovers' /\ StationCovers' /\ SessionCovers'
<1>1. Credit' <= Losses' /\ Credit' \in {0, 1} /\ Losses' \in Nat
  BY LossesGrow DEF Credit, Unspent, BreakInv
<1>2. ASSUME NEW b \in Batches, NEW n \in Nat, NEW steps
      PROVE  keyed'[b] + Credit' <= n + Losses' + Owed(b, steps)'
  BY <1>1, OwedType
<1>3. SourceCovers' /\ OverlayCovers'
  BY <1>2, NextCounts DEF SourceCovers, OverlayCovers, Covers
<1>4. StationCovers'
  <2>1. station'.batch # None => /\ station'.batch.id \in Batches
                                 /\ station'.batch.completed \in Nat
    BY DEF TypeOK, Station, BatchInfo
  <2>2. QED
    BY <1>2, <2>1 DEF StationCovers, Covers
<1>5. SessionCovers'
  <2>1. disk'.shift # None => disk'.shift.batch \in BatchInfo
    BY DEF TypeOK, PersistedSession, PersistedShift
  <2>2. QED
    BY <1>2, <2>1 DEF SessionCovers, Covers, BatchInfo
<1>6. QED
  BY <1>3, <1>4, <1>5

LEMMA ResetCopies ==
    ASSUME TypeOK, TypeOK', BreakInv, BreakInv', Copies, [Next]_vars,
           ResetDemo \/ ConformanceReset, Unspent' => Unspent \/ ConformanceReset
    PROVE  Copies'
<1>1. /\ keyed' = [b \in Batches |-> 0] /\ source' = NoProgress /\ overruns' = overruns
      /\ sourceDisk' \in {NoProgress, sourceDisk} /\ pc = "idle" /\ pc' = "idle"
  BY DEF ResetDemo, ConformanceReset, ResetTo, Idle, handler
<1>2. AuditInv'
  <2>1. SUFFICES ASSUME NEW b \in Batches
                 PROVE  Audits(source[b].completed, b)' /\ Audits(sourceDisk[b].completed, b)'
    BY DEF AuditInv
  <2>2. /\ Credit' <= Losses' /\ Losses' \in Nat /\ Losses \in Nat /\ Losses <= Losses'
        /\ Credit' \in {0, 1}
    BY LossesGrow DEF Credit, Unspent, BreakInv
  <2>3. ASSUME NEW n \in {0} PROVE Audits(n, b)'
    BY <2>2, <2>3, NextCounts, CountTypes DEF Audits
  <2>4. source'[b].completed = 0 /\ NoProgress[b].completed = 0
    BY <1>1 DEF NoProgress
  <2>5. Audits(sourceDisk[b].completed, b)'
    <3>1. CASE sourceDisk' = NoProgress
      BY <2>2, <2>4, <3>1, NextCounts, CountTypes DEF Audits
    <3>2. CASE sourceDisk' = sourceDisk /\ ~ConformanceReset
      <4>1. Credit' <= Credit /\ Unaudited(b) = 0
        BY <1>1, <3>2 DEF Credit, Unaudited
      <4>2. QED
        BY <1>1, <2>2, <3>2, <4>1, NextCounts, CountTypes DEF Copies, AuditInv, Audits
    <3>3. CASE sourceDisk' = sourceDisk /\ ConformanceReset
      BY <2>2, <2>4, <3>3, NextCounts, CountTypes DEF Audits, ConformanceReset, BreakInv
    <3>4. QED
      BY <1>1, <3>1, <3>2, <3>3
  <2>6. Audits(source[b].completed, b)'
    BY <2>2, <2>4, NextCounts, CountTypes DEF Audits
  <2>7. QED
    BY <2>5, <2>6
<1>3. QED
  BY <1>1, <1>2, ZeroKeyed DEF Copies

\* The batch source counts a chip: what was owed to it is paid.
LEMMA RecordCopies ==
    ASSUME TypeOK, TypeOK', TapInv, CommitInv, AnswerInv, Copies, [Next]_vars,
           Unspent' => Unspent, RecordOutcome
    PROVE  Copies'
<1>1. /\ pc = "recording" /\ pc' \in Counted /\ tap.batch \in Batches
      /\ keyed' = keyed /\ overruns' = overruns /\ diskOk' = diskOk /\ station' = station
      /\ disk' = disk
  BY DEF RecordOutcome, TapInv, Counted, history, memory
<1>2. /\ tap'.batch = tap.batch /\ tap'.verdict = tap.verdict
      /\ tap'.updated = Merged(source', tap.batch) /\ tap'.updated # None
  <2>1. tap' = [tap EXCEPT !.updated = Merged(source', tap.batch)] /\ tap \in Tap
    BY DEF RecordOutcome, TypeOK
  <2>2. Merged(source', tap.batch) \in BatchInfo
    BY <1>1, MergedType DEF TypeOK
  <2>3. QED
    BY <2>1, <2>2, BatchIsSome DEF Tap
<1>3. /\ Losses \in Nat /\ Losses' = Losses /\ Credit' = 0
      /\ ~diskOk => Credit = 1
  <2>1. Losses' = Losses
    BY DEF RecordOutcome, Losses
  <2>2. Credit' = 0
    BY <1>1 DEF Credit, Unspent, Counted
  <2>3. ~diskOk => Credit = 1
    BY <1>1, SpendsAtHand DEF Credit
  <2>4. QED
    BY <2>1, <2>2, <2>3, LossesGrow
<1>4. ASSUME NEW b \in Batches
      PROVE  /\ source'[b].completed = source[b].completed + Owed(b, {})
             /\ tap.verdict = "success" /\ b = tap.batch => Owed(b, {}) = 1
             /\ tap.verdict # "success" \/ b # tap.batch => Owed(b, {}) = 0
  <2>1. source'[b] = IF b = tap.batch THEN RecordProgress(source[b], tap.verdict) ELSE source[b]
    BY <1>1, <1>4 DEF RecordOutcome, TypeOK
  <2>2. source[b] \in Progress
    BY <1>4 DEF TypeOK
  <2>3. Owed(b, {}) = IF b = tap.batch /\ tap.verdict = "success" THEN 1 ELSE 0
    BY <1>1 DEF Owed, InHand
  <2>4. QED
    BY <2>1, <2>2, <2>3 DEF RecordProgress, Progress
<1>5. ASSUME NEW b \in Batches, NEW steps \in SUBSET Unsaved, Counted \subseteq steps \/ ~diskOk
      PROVE  Pays(b, steps)
  <2>1. Owed(b, steps) <= Credit + Owed(b, steps)'
    <3>1. CASE diskOk /\ Counted \subseteq steps
      <4>1. Owed(b, steps) <= Owed(b, steps)'
        BY <1>1, <1>2, <3>1 DEF Owed, InHand
      <4>2. QED
        BY <4>1, OwedType, CountTypes DEF Credit
    <3>2. CASE ~diskOk
      BY <1>3, <3>2, OwedType
    <3>3. QED
      BY <1>5, <3>1, <3>2
  <2>2. QED
    BY <1>1, <1>3, <2>1, OwedType, CountTypes DEF Pays
<1>6. SourceCovers'
  <2>1. SUFFICES ASSUME NEW b \in Batches PROVE Covers(source[b].completed, b, {})'
    BY DEF SourceCovers
  <2>2. Covers(source[b].completed, b, {})
    BY DEF Copies, SourceCovers
  <2>3. QED
    BY <1>1, <1>3, <1>4, <2>2, OwedType, CountTypes, NextCounts DEF Covers
<1>7. OverlayCovers'
  <2>1. CASE diskOk \/ Conformance
    BY <1>6, <2>1, CoreAssumption DEF RecordOutcome, OverlayCovers, SourceCovers
  <2>2. CASE ~diskOk
    <3>1. sourceDisk' = sourceDisk /\ \A b \in Batches : Pays(b, {})
      BY <1>5, <2>2 DEF RecordOutcome
    <3>2. QED
      BY <3>1, CopyKept, CountTypes DEF Copies, OverlayCovers, Covers
  <2>3. QED
    BY <2>1, <2>2
<1>8. \A b \in Batches : Pays(b, Counted) /\ Pays(b, Unsaved)
  BY <1>5 DEF Counted, Unsaved
<1>9. AuditInv'
  <2>1. SUFFICES ASSUME NEW b \in Batches
                 PROVE  Audits(source[b].completed, b)' /\ Audits(sourceDisk[b].completed, b)'
    BY DEF AuditInv
  <2>2. Audits(source[b].completed, b) /\ Audits(sourceDisk[b].completed, b)
    BY DEF Copies, AuditInv
  <2>3. Unaudited(b) = 0 /\ Unaudited(b)' \in {0, 1}
    BY <1>1 DEF Unaudited
  <2>4. Audits(source[b].completed, b)'
    <3>1. CASE diskOk /\ Owed(b, {}) = 1
      <4>1. tap.verdict = "success" /\ b = tap.batch
        BY <1>4, <3>1
      <4>2. CASE PastTotal(tap.batch, source'[tap.batch].completed)
        <5>1. Unaudited(b)' = 1
          BY <1>1, <1>2, <3>1, <4>1, <4>2 DEF RecordOutcome, Unaudited
        <5>2. QED
          BY <1>1, <1>3, <1>4, <2>2, <2>3, <3>1, <5>1, CountTypes, NextCounts DEF Audits
      <4>3. CASE ~PastTotal(tap.batch, source'[tap.batch].completed)
        BY <1>1, <1>3, <2>3, <4>1, <4>3, CountTypes, NextCounts DEF Audits, PastTotal
      <4>4. QED
        BY <4>2, <4>3
    <3>2. CASE ~diskOk \/ Owed(b, {}) = 0
      BY <1>1, <1>3, <1>4, <2>2, <2>3, <3>2, OwedType, CountTypes, NextCounts DEF Audits
    <3>3. QED
      BY <3>1, <3>2, OwedType
  <2>5. Audits(sourceDisk[b].completed, b)'
    <3>1. CASE sourceDisk' = source'
      BY <2>4, <3>1
    <3>2. CASE sourceDisk' = sourceDisk
      BY <1>1, <1>3, <2>2, <2>3, <3>2, CountTypes, NextCounts DEF Audits
    <3>3. QED
      BY <3>1, <3>2 DEF RecordOutcome
  <2>6. QED
    BY <2>4, <2>5
<1>10. QED
  BY <1>1, <1>6, <1>7, <1>8, <1>9, StationKept, SessionKept DEF Copies

\* A kill: the batch source starts from its file, the station from session.json.
LEMMA RestartCopies ==
    ASSUME TypeOK, TypeOK', TapInv, CommitInv, AnswerInv, BreakInv', Copies, [Next]_vars,
           CrashRestart
    PROVE  Copies'
<1>1. /\ source' = sourceDisk /\ sourceDisk' = sourceDisk /\ overruns' = overruns
      /\ keyed' = IF Conformance THEN [b \in Batches |-> 0] ELSE keyed
      /\ ~Conformance => disk' = disk
      /\ pc' = "idle" /\ diskOk' = diskOk
  BY DEF CrashRestart
<1>2. ASSUME NEW b \in Batches PROVE AuditPays(b)
  <2>1. Losses' = Losses + 1 /\ Losses \in Nat
    BY LossesGrow
  <2>2. Unaudited(b) = 1 => Credit' = 0
    BY <1>1 DEF Unaudited, CrashRestart, Credit, Unspent
  <2>3. QED
    BY <2>1, <2>2, CountTypes DEF AuditPays
<1>3. AuditInv'
  <2>1. SUFFICES ASSUME NEW b \in Batches PROVE Audits(sourceDisk[b].completed, b)'
    BY <1>1 DEF AuditInv, Audits
  <2>2. Losses \in Nat /\ Losses' \in Nat
    BY LossesGrow
  <2>3. QED
    BY <1>1, <1>2, <2>2, CountTypes DEF Copies, AuditInv, Audits, AuditPays
<1>4. CASE Conformance
  BY <1>1, <1>3, <1>4, ZeroKeyed DEF Copies
<1>5. CASE ~Conformance
  <2>1. ASSUME NEW b \in Batches, NEW steps \in SUBSET Unsaved PROVE Pays(b, steps)
    BY <1>1, <1>5, <2>1, LossPays
  <2>2. {} \in SUBSET Unsaved /\ Unsaved \in SUBSET Unsaved
    OBVIOUS
  <2>3. SourceCovers' /\ OverlayCovers'
    <3>1. \A b \in Batches : Covers(sourceDisk[b].completed, b, {})
      BY <1>5 DEF Copies, OverlayCovers
    <3>2. \A b \in Batches : Covers(sourceDisk[b].completed, b, {})'
      BY <1>1, <2>1, <2>2, <3>1, CopyKept, CountTypes DEF Covers
    <3>3. QED
      BY <1>1, <3>2 DEF SourceCovers, OverlayCovers, Covers
  <2>4. SessionCovers'
    BY <1>1, <1>5, <2>1, <2>2, SessionKept
  <2>5. StationCovers'
    <3>1. SUFFICES ASSUME station'.batch # None
                   PROVE  Covers(station.batch.completed, station.batch.id, Counted)'
      BY DEF StationCovers
    <3>2. station'.batch = New(disk).batch
      <4>1. PICK ready : station' = SetConnectionInputs(New(disk), FALSE, ready)
        BY <1>5 DEF CrashRestart, Booted, OnStart
      <4>2. New(disk) \in Station
        BY LoadedIsSaved DEF TypeOK
      <4>3. QED
        BY <4>1, <4>2, LegsKeepBatch
    <3>3. disk.shift # None /\ station'.batch = disk.shift.batch
      BY <3>1, <3>2 DEF New
    <3>4. disk.shift.batch.id \in Batches /\ disk.shift.batch.completed \in Nat
      BY <3>3, CopyTypes
    <3>5. Covers(disk.shift.batch.completed, disk.shift.batch.id, Unsaved)'
      BY <1>1, <1>5, <2>4, <3>3 DEF SessionCovers
    <3>6. \A b : Owed(b, Unsaved)' = Owed(b, Counted)'
      BY <1>1 DEF Owed, Unsaved, Counted
    <3>7. QED
      BY <1>1, <1>5, <3>3, <3>5, <3>6 DEF Covers
  <2>6. QED
    BY <1>3, <2>3, <2>4, <2>5 DEF Copies
<1>6. QED
  BY <1>4, <1>5

Counters == TypeOK /\ TapInv /\ CommitInv /\ AnswerInv /\ BreakInv

LEMMA CopiesStep ==
    ASSUME Counters, TypeOK', BreakInv', Copies, [Next]_vars
    PROVE  Copies'
<1> USE DEF Idle
<1>0. /\ TypeOK /\ station \in Station /\ TRUE \in BOOLEAN /\ FALSE \in BOOLEAN
      /\ station.reader \in BOOLEAN /\ station.downstream \in BOOLEAN /\ saved \in BOOLEAN
      /\ station.persistOk \in BOOLEAN
      /\ {} \in SUBSET Unsaved /\ Counted \in SUBSET Unsaved /\ Unsaved \in SUBSET Unsaved
      /\ {} \subseteq Counted /\ Counted \subseteq Unsaved
  BY DEF Counters, TypeOK, Station, Counted, Unsaved
\* a step at which the batch source and its file are left alone
<1>1. ASSUME source' = source, sourceDisk' = sourceDisk, overruns' = overruns,
             \A b \in Batches : Pays(b, {}) /\ Pays(b, Counted) /\ Pays(b, Unsaved)
                                /\ AuditPays(b),
             station'.batch = station.batch, disk' = disk
      PROVE  Copies'
  BY <1>0, <1>1, SourceKept, AuditKept, StationKept, SessionKept DEF Copies
\* one between two taps, or at which the tap in hand is not touched
<1>2. ASSUME Unspent' => Unspent, keyed' = keyed, diskOk => diskOk',
             pc \notin {"recording"} \cup Unsaved \/ (pc' = pc /\ tap' = tap),
             NEW b \in Batches
      PROVE  Pays(b, {}) /\ Pays(b, Counted) /\ Pays(b, Unsaved) /\ AuditPays(b)
  <2>1. OwesNoLess({}) /\ OwesNoLess(Counted) /\ OwesNoLess(Unsaved)
    BY <1>2 DEF OwesNoLess, Counted, Unsaved
  <2>2. pc # "auditing" \/ (pc' = pc /\ tap' = tap)
    BY <1>2 DEF Unsaved
  <2>3. QED
    BY <1>0, <1>2, <2>1, <2>2, QuietPays, QuietAudit
<1>3. ASSUME source' = source, sourceDisk' = sourceDisk, overruns' = overruns, keyed' = keyed,
             Unspent' => Unspent, diskOk => diskOk',
             pc \notin {"recording"} \cup Unsaved \/ (pc' = pc /\ tap' = tap),
             station'.batch = station.batch, disk' = disk
      PROVE  Copies'
  <2>1. \A b \in Batches : Pays(b, {}) /\ Pays(b, Counted) /\ Pays(b, Unsaved) /\ AuditPays(b)
    BY <1>2, <1>3
  <2>2. QED
    BY <1>1, <1>3, <2>1
<1>4. (Unspent' => Unspent) \/ DiskBreaks \/ CrashRestart \/ ConformanceReset
  BY CreditStep DEF Counters
<1>5. CASE CrashRestart
  BY <1>5, RestartCopies DEF Counters
<1>6. CASE DiskBreaks
  <2>1. /\ source' = source /\ sourceDisk' = sourceDisk /\ overruns' = overruns
        /\ keyed' = keyed /\ station' = station /\ disk' = disk
    BY <1>6 DEF DiskBreaks, files, memory, history
  <2>2. \A b \in Batches, steps \in SUBSET Unsaved : Pays(b, steps) /\ AuditPays(b)
    BY <1>6, <2>1, LossPays DEF Counters
  <2>3. QED
    BY <1>0, <1>1, <2>1, <2>2
<1>7. CASE ResetDemo \/ ConformanceReset
  <2>1. ASSUME ResetDemo PROVE Unspent' => Unspent
    <3>1. station'.persistOk = station.persistOk
      BY <1>0, <2>1, FreshStation DEF ResetDemo, ResetTo
    <3>2. pc = "idle" /\ pc' = "idle" /\ diskOk' = diskOk
      BY <2>1 DEF ResetDemo, ResetTo, handler
    <3>3. QED
      BY <3>1, <3>2 DEF Unspent
  <2>2. QED
    BY <1>7, <2>1, ResetCopies DEF Counters
<1> SUFFICES ASSUME Unspent' => Unspent, ~DiskBreaks, ~CrashRestart, ~ResetDemo,
                    ~ConformanceReset
             PROVE  Copies'
  BY <1>4, <1>5, <1>6, <1>7
<1>8. CASE Persist
  <2>1. /\ source' = source /\ sourceDisk' = sourceDisk /\ overruns' = overruns
        /\ keyed' = keyed /\ station' = station /\ pc = "saving" /\ diskOk' = diskOk
        /\ disk' = IF diskOk THEN ToPersisted(station) ELSE disk
    BY <1>8 DEF Persist, memory, Written
  <2>2. OwesNoLess({}) /\ OwesNoLess(Counted) /\ ~diskOk => \A b : Owed(b, Unsaved) = 0
    BY <2>1 DEF OwesNoLess, Counted, Owed
  <2>3. \A b \in Batches : Pays(b, {}) /\ Pays(b, Counted) /\ AuditPays(b)
    BY <1>0, <2>1, QuietPays, QuietAudit DEF OwesNoLess, Counted
  <2>4. SessionCovers'
    <3>1. CASE diskOk
      BY <1>0, <2>1, <2>3, <3>1, SessionSaved
    <3>2. CASE ~diskOk
      <4>1. \A b \in Batches : Pays(b, Unsaved)
        <5>1. SUFFICES ASSUME NEW b \in Batches PROVE Pays(b, Unsaved)
          OBVIOUS
        <5>2. Owed(b, Unsaved) = 0 /\ Credit' <= Credit
          BY <2>1, <3>2 DEF Owed, Credit
        <5>3. Losses <= Losses' /\ Losses \in Nat /\ Losses' \in Nat
          BY <1>0, LossesGrow
        <5>4. QED
          BY <1>0, <2>1, <5>2, <5>3, OwedType, CountTypes DEF Pays
      <4>2. QED
        BY <1>0, <2>1, <3>2, <4>1, SessionKept
    <3>3. QED
      BY <3>1, <3>2
  <2>5. QED
    BY <1>0, <2>1, <2>3, <2>4, SourceKept, AuditKept, StationKept DEF Copies
<1>9. CASE Push \/ PermanentFailure \/ RecoverableFailure \/ BridgeAttached \/ BootPulled
           \/ TickEndShift \/ PageBoot \/ DiskHeals \/ UNCHANGED vars
  <2>1. /\ source' = source /\ sourceDisk' = sourceDisk /\ overruns' = overruns
        /\ keyed' = keyed /\ station' = station /\ disk' = disk
    BY <1>9
    DEF Push, PermanentFailure, RecoverableFailure, BridgeAttached, BootPulled, TickEndShift,
        PageBoot, DiskHeals, vars, memory, files, history
  <2>2. /\ diskOk => diskOk'
        /\ pc \notin {"recording"} \cup Unsaved \/ (pc' = pc /\ tap' = tap)
    BY <1>9
    DEF Push, PermanentFailure, RecoverableFailure, BridgeAttached, BootPulled, TickEndShift,
        PageBoot, DiskHeals, vars, handler, Unsaved
  <2>3. QED
    BY <1>3, <2>1, <2>2
<1>10. ASSUME NEW w \in Windows, Elapse(w) PROVE Copies'
  BY <1>3, <1>10 DEF Elapse, files, history, handler
<1>11. ASSUME NEW c \in Chips, CardPresented(c) PROVE Copies'
  BY <1>3, <1>11 DEF CardPresented, files, history, memory, Unsaved
<1>12. CASE UpdatePersistHealth \/ Tick
  <2>1. /\ source' = source /\ sourceDisk' = sourceDisk /\ overruns' = overruns
        /\ keyed' = keyed /\ diskOk' = diskOk /\ pc \in {"health", "idle"}
        /\ station' = station \/ station' = SetPersistOk(station, saved)
    BY <1>12 DEF UpdatePersistHealth, Tick, history, memory
  <2>2. station'.batch = station.batch /\ ToPersisted(station') = ToPersisted(station)
    <3>1. SetPersistOk(station, saved).batch = station.batch
      BY <1>0, HealthKeepsBatch
    <3>2. ToPersisted(SetPersistOk(station, saved)) = ToPersisted(station)
      BY <1>0, HealthKeepsSession
    <3>3. QED
      BY <2>1, <3>1, <3>2
  <2>3. disk' \in {disk, ToPersisted(station)}
    BY <1>12, <2>2 DEF UpdatePersistHealth, Tick, Written, Probed
  <2>4. \A b \in Batches : Pays(b, {}) /\ Pays(b, Counted) /\ Pays(b, Unsaved) /\ AuditPays(b)
    BY <1>2, <2>1 DEF Unsaved
  <2>5. SessionCovers'
    BY <1>0, <2>3, <2>4, SessionSaved, SessionKept
  <2>6. QED
    BY <1>0, <2>1, <2>2, <2>4, <2>5, SourceKept, AuditKept, StationKept DEF Copies
<1>13. CASE ChipKeyed
  <2>1. /\ source' = source /\ sourceDisk' = sourceDisk /\ overruns' = overruns
        /\ keyed' = [keyed EXCEPT ![tap.batch] = @ + 1] /\ station' = station /\ disk' = disk
        /\ pc = "keying" /\ pc' = "recording" /\ diskOk' = diskOk /\ tap.verdict = "none"
        /\ tap' = [tap EXCEPT !.verdict = "success"] /\ Losses' = Losses
    BY <1>13 DEF ChipKeyed, files, Counters, TapInv, Losses
  <2>2. tap'.verdict = "success" /\ tap'.batch = tap.batch
    BY <2>1 DEF Counters, TypeOK, Tap
  <2>3. ASSUME NEW b \in Batches, NEW steps PROVE Pays(b, steps) /\ AuditPays(b)
    <3>1. Credit' <= Credit /\ Losses \in Nat
      BY <1>0, LossesGrow DEF Credit
    <3>2. Unaudited(b) = 0 /\ Owed(b, steps) = 0
      BY <2>1 DEF Unaudited, Owed, InHand
    <3>3. Owed(b, steps)' = IF b = tap.batch THEN 1 ELSE 0
      BY <2>1, <2>2 DEF Owed, InHand
    <3>4. keyed'[b] = keyed[b] + (IF b = tap.batch THEN 1 ELSE 0)
      BY <1>0, <2>1 DEF TypeOK
    <3>5. QED
      BY <1>0, <2>1, <3>1, <3>2, <3>3, <3>4, CountTypes DEF Pays, AuditPays
  <2>4. QED
    BY <1>1, <2>1, <2>3
<1>14. CASE RecordOutcome
  BY <1>14, RecordCopies DEF Counters
<1>15. CASE RecordOutcomeFails
  <2>1. /\ source' = source /\ sourceDisk' = sourceDisk /\ overruns' = overruns
        /\ keyed' = keyed /\ station' = station /\ disk' = disk
    BY <1>15 DEF RecordOutcomeFails, files, memory, history
  <2>2. \A b \in Batches, steps \in SUBSET Unsaved : Pays(b, steps) /\ AuditPays(b)
    BY <1>15, <2>1, LossPays DEF Counters
  <2>3. QED
    BY <1>0, <1>1, <2>1, <2>2
<1>16. CASE AppendOverrun
  <2>1. /\ source' = source /\ sourceDisk' = sourceDisk /\ keyed' = keyed
        /\ station' = station /\ disk' = disk /\ diskOk' = diskOk /\ tap' = tap
        /\ pc = "auditing" /\ pc' = "verdict" /\ tap.batch \in Batches /\ Losses' = Losses
        /\ overruns' = IF diskOk THEN [overruns EXCEPT ![tap.batch] = @ + 1] ELSE overruns
    BY <1>16 DEF AppendOverrun, memory, history, Counters, TapInv, Losses
  <2>2. OwesNoLess({}) /\ OwesNoLess(Counted) /\ OwesNoLess(Unsaved)
    BY <2>1 DEF OwesNoLess, Counted, Unsaved
  <2>3. \A b \in Batches : Pays(b, {}) /\ Pays(b, Counted) /\ Pays(b, Unsaved)
    BY <1>0, <2>1, <2>2, QuietPays
  <2>4. AuditInv'
    <3>1. SUFFICES ASSUME NEW b \in Batches
                   PROVE  Audits(source[b].completed, b)' /\ Audits(sourceDisk[b].completed, b)'
      BY DEF AuditInv
    <3>2. Credit = 0 /\ Credit' = 0 /\ Unaudited(b)' = 0 /\ Losses \in Nat
      BY <1>0, <2>1, LossesGrow DEF Credit, Unspent, Unaudited
    <3>3. overruns'[b] = overruns[b] + Unaudited(b)
      BY <1>0, <2>1 DEF Unaudited, TypeOK
    <3>4. QED
      BY <1>0, <2>1, <3>2, <3>3, CountTypes DEF Copies, AuditInv, Audits
  <2>5. QED
    BY <1>0, <2>1, <2>3, <2>4, SourceKept, StationKept, SessionKept DEF Copies
<1>17. CASE EmitVerdict
  <2>1. /\ source' = source /\ sourceDisk' = sourceDisk /\ overruns' = overruns
        /\ keyed' = keyed /\ disk' = disk /\ diskOk' = diskOk /\ tap' = tap
        /\ pc = "verdict" /\ pc' = "saving"
    BY <1>17 DEF EmitVerdict, Commit, files, history
  <2>2. OwesNoLess({}) /\ OwesNoLess(Unsaved)
    BY <2>1 DEF OwesNoLess, Unsaved
  <2>3. \A b \in Batches : Pays(b, {}) /\ Pays(b, Unsaved) /\ AuditPays(b)
    BY <1>0, <2>1, <2>2, QuietPays, QuietAudit
  <2>4. StationCovers'
    <3>1. CASE tap.verdict # "retry" /\ tap.updated # None
      <4>1. station'.batch = Merged(source, tap.batch)
        BY <1>0, <1>17, <2>1, <3>1
        DEF EmitVerdict, RecordVerdict, Adopt, Station, Counters, AnswerInv, Counted
      <4>2. tap.batch \in Batches
        BY <2>1 DEF Counters, TapInv
      <4>3. QED
        BY <1>0, <2>3, <4>1, <4>2, StationAdopts
    <3>2. CASE tap.verdict = "retry" \/ tap.updated = None
      <4>1. station'.batch = station.batch
        BY <1>0, <1>17, <3>2 DEF EmitVerdict, RecordVerdict, Adopt, Station
      <4>2. \A b \in Batches : Pays(b, Counted)
        <5>1. SUFFICES ASSUME NEW b \in Batches PROVE Pays(b, Counted)
          OBVIOUS
        <5>2. Owed(b, Counted) = 0 /\ Credit' <= Credit
          BY <2>1, <3>2 DEF Owed, InHand, Credit
        <5>3. Losses <= Losses' /\ Losses \in Nat /\ Losses' \in Nat
          BY <1>0, LossesGrow
        <5>4. QED
          BY <1>0, <2>1, <5>2, <5>3, OwedType, CountTypes DEF Pays
      <4>3. QED
        BY <1>0, <4>1, <4>2, StationKept
    <3>3. QED
      BY <3>1, <3>2
  <2>5. QED
    BY <1>0, <2>1, <2>3, <2>4, SourceKept, AuditKept, SessionKept DEF Copies
<1>18. ASSUME NEW b \in Batches, BeginShiftMsg(b) \/ SwapBatchMsg(b) PROVE Copies'
  <2>1. /\ source' = source /\ sourceDisk' = sourceDisk /\ overruns' = overruns
        /\ keyed' = keyed /\ disk' = disk /\ diskOk' = diskOk /\ pc = "idle"
        /\ station'.batch = Merged(source, b)
    BY <1>0, <1>18
    DEF BeginShiftMsg, SwapBatchMsg, BeginShift, SwapBatch, Station, files, history
  <2>2. \A k \in Batches : Pays(k, {}) /\ Pays(k, Unsaved) /\ AuditPays(k)
    BY <1>2, <2>1 DEF Unsaved
  <2>3. QED
    BY <1>0, <2>1, <2>2, SourceKept, AuditKept, SessionKept, StationAdopts DEF Copies
<1>19. CASE EndShiftCmd \/ BeginEndShift \/ ConfirmEmission
  <2>1. /\ source' = source /\ sourceDisk' = sourceDisk /\ overruns' = overruns
        /\ keyed' = keyed /\ disk' = disk /\ diskOk' = diskOk /\ pc \in {"idle", "confirm"}
        /\ station' \in {station, MarkShiftEnded(station), ArmEndShift(station)}
    BY <1>19 DEF EndShiftCmd, BeginEndShift, ConfirmEmission, files, history
  <2>2. station'.batch = station.batch
    BY <1>0, <2>1, EndKeepsBatch
  <2>3. QED
    BY <1>3, <2>1, <2>2 DEF Unsaved
<1>20. ASSUME NEW r \in BOOLEAN, NEW d \in BOOLEAN, NEW next,
              CommitFlip(SetConnectionInputs(station, r, d), next), files' = files,
              keyed' = keyed, diskOk' = diskOk, pc \in {"idle", "keying", "blip"}
       PROVE  Copies'
  BY <1>0, <1>3, <1>20, FlipKeepsBatch DEF files, Unsaved
<1>21. ASSUME NEW x \in BOOLEAN, ReaderPresence(x) \/ SetDownstream(x) PROVE Copies'
  BY <1>0, <1>20, <1>21 DEF ReaderPresence, SetDownstream, history
<1>22. CASE Blip \/ KeyingNotReady
  BY <1>0, <1>20, <1>22 DEF Blip, KeyingNotReady, NotReadyStation, history
<1>23. CASE TickBlip
  <2>1. files' = files /\ keyed' = keyed /\ diskOk' = diskOk /\ pc = "blip"
    BY <1>23 DEF TickBlip, history
  <2>2. CASE BlipExpired
    <3>1. CommitFlip(SetConnectionInputs(station, station.reader, TRUE), "endshift")
      BY <1>23, <2>2 DEF TickBlip
    <3>2. QED
      BY <1>0, <1>20, <2>1, <3>1
  <2>3. CASE ~BlipExpired
    <3>1. station' = station
      BY <1>23, <2>3 DEF TickBlip
    <3>2. QED
      BY <1>3, <2>1, <3>1 DEF files, Unsaved
  <2>4. QED
    BY <2>2, <2>3
<1>24. QED
  BY <1>8, <1>9, <1>10, <1>11, <1>12, <1>13, <1>14, <1>15, <1>16, <1>17, <1>18, <1>19, <1>21,
     <1>22, <1>23
  DEF Next, HandlerStep, CommitStep, KeyChip, Message, Environment

\* How the keyed chips may change, and which steps leave a tap waiting to be keyed.
LEMMA KeyedStep ==
    ASSUME TypeOK, [Next]_vars
    PROVE  /\ keyed' = keyed \/ keyed' = [b \in Batches |-> 0] \/ ChipKeyed
           /\ pc' = "keying" => /\ keyed' = keyed
                                /\ \/ pc' = pc /\ tap' = tap
                                   \/ \E c \in Chips : CardPresented(c)
<1> DEFINE Goal == /\ keyed' = keyed \/ keyed' = [b \in Batches |-> 0] \/ ChipKeyed
                   /\ pc' = "keying" => /\ keyed' = keyed
                                        /\ \/ pc' = pc /\ tap' = tap
                                           \/ \E c \in Chips : CardPresented(c)
<1> USE DEF Idle
<1>1. CASE Persist \/ Push \/ UpdatePersistHealth
  BY <1>1 DEF Persist, Push, UpdatePersistHealth, TypeOK, history
<1>2. CASE KeyChip \/ RecordOutcome \/ RecordOutcomeFails \/ AppendOverrun \/ EmitVerdict
  BY <1>2
  DEF KeyChip, ChipKeyed, RecoverableFailure, PermanentFailure, KeyingNotReady, CommitFlip,
      RecordOutcome, RecordOutcomeFails, AppendOverrun, EmitVerdict, Commit, history
<1>3. CASE Tick \/ TickBlip \/ TickEndShift \/ ConfirmEmission
  BY <1>3 DEF Tick, TickBlip, TickEndShift, ConfirmEmission, CommitFlip, Commit, history
<1>4. ASSUME NEW b \in Batches, BeginShiftMsg(b) \/ SwapBatchMsg(b) PROVE Goal
  BY <1>4 DEF BeginShiftMsg, SwapBatchMsg, Commit, history
<1>5. CASE EndShiftCmd \/ BeginEndShift \/ BridgeAttached \/ BootPulled \/ Blip
           \/ ResetDemo \/ ConformanceReset
  BY <1>5
  DEF EndShiftCmd, BeginEndShift, BridgeAttached, BootPulled, Blip, ResetDemo,
      ConformanceReset, ResetTo, CommitFlip, Commit, handler, history
<1>6. ASSUME NEW x \in BOOLEAN, ReaderPresence(x) \/ SetDownstream(x) PROVE Goal
  BY <1>6 DEF ReaderPresence, SetDownstream, CommitFlip, Commit, history
<1>7. ASSUME NEW c \in Chips, CardPresented(c) PROVE Goal
  BY <1>7 DEF CardPresented, history
<1>8. ASSUME NEW w \in Windows, Elapse(w) PROVE Goal
  BY <1>8 DEF Elapse, handler, history
<1>9. CASE PageBoot \/ DiskBreaks \/ DiskHeals \/ CrashRestart \/ UNCHANGED vars
  BY <1>9 DEF PageBoot, DiskBreaks, DiskHeals, CrashRestart, vars, handler, history
<1>10. QED
  BY <1>1, <1>2, <1>3, <1>4, <1>5, <1>6, <1>7, <1>8, <1>9
  DEF Next, HandlerStep, CommitStep, Message, Environment

LEMMA GateStep == TypeOK /\ TapInv /\ Copies /\ GateHeld /\ [Next]_vars => GateHeld'
<1> SUFFICES ASSUME TypeOK, TapInv, Copies, GateHeld, [Next]_vars,
                    OverrunPolicy = "block", pc' = "keying"
             PROVE  keyed'[tap'.batch] < Total[tap'.batch] + Losses'
  BY DEF GateHeld
<1>1. keyed' = keyed /\ Losses \in Nat /\ Losses' \in Nat /\ Losses <= Losses'
  BY KeyedStep, LossesGrow
<1>2. CASE pc' = pc /\ tap' = tap
  <2>1. tap.batch \in Batches
    BY <1>2 DEF TapInv
  <2>2. QED
    BY <1>1, <1>2, <2>1, CountTypes DEF GateHeld
<1>3. ASSUME NEW c \in Chips, CardPresented(c)
      PROVE  keyed'[tap'.batch] < Total[tap'.batch] + Losses'
  <2>1. /\ station.batch # None /\ tap'.batch = station.batch.id /\ pc = "idle"
        /\ station.batch.completed < Total[station.batch.id]
    <3>1. /\ pc = "idle" /\ station.batch # None /\ ~Blocked(station.batch)
          /\ tap' = [[NoTap EXCEPT !.batch = station.batch.id] EXCEPT !.chip = c]
      BY <1>3 DEF CardPresented, Idle
    <3>2. tap'.batch = station.batch.id
      BY <3>1 DEF NoTap
    <3>3. station.batch.id \in Batches /\ station.batch.completed \in Nat
      BY <3>1, CopyTypes
    <3>4. QED
      BY <3>1, <3>2, <3>3, CountTypes DEF Blocked
  <2>2. station.batch.id \in Batches /\ station.batch.completed \in Nat
    BY <2>1, CopyTypes
  <2>3. keyed[station.batch.id] <= station.batch.completed + Losses
    <3>1. Covers(station.batch.completed, station.batch.id, Counted)
      BY <2>1 DEF Copies, StationCovers
    <3>2. Owed(station.batch.id, Counted) = 0
      BY <2>1 DEF Owed, Counted
    <3>3. QED
      BY <1>1, <2>2, <3>1, <3>2, CountTypes DEF Covers
  <2>4. QED
    BY <1>1, <2>1, <2>2, <2>3, CountTypes
<1>4. QED
  BY <1>2, <1>3, KeyedStep

LEMMA BlockStep == TypeOK /\ TapInv /\ GateHeld /\ BlockBound /\ [Next]_vars => BlockBound'
<1> SUFFICES ASSUME TypeOK, TapInv, GateHeld, BlockBound, [Next]_vars,
                    OverrunPolicy = "block", NEW b \in Batches
             PROVE  keyed'[b] <= Total[b] + Losses'
  BY DEF BlockBound
<1>1. Losses \in Nat /\ Losses' \in Nat /\ Losses <= Losses'
  BY LossesGrow
<1>2. CASE keyed' = keyed
  BY <1>1, <1>2, CountTypes DEF BlockBound
<1>3. CASE keyed' = [k \in Batches |-> 0]
  BY <1>1, <1>3, CountTypes
<1>4. CASE ChipKeyed
  <2>1. /\ keyed'[b] = keyed[b] + (IF b = tap.batch THEN 1 ELSE 0)
        /\ keyed[tap.batch] < Total[tap.batch] + Losses
    BY <1>4 DEF ChipKeyed, TypeOK, GateHeld
  <2>2. keyed[b] <= Total[b] + Losses
    BY DEF BlockBound
  <2>3. QED
    BY <1>1, <2>1, <2>2, CountTypes
<1>5. QED
  BY <1>2, <1>3, <1>4, KeyedStep

LEMMA AccountInit == Init => AccountInv
<1> SUFFICES ASSUME Init PROVE AccountInv
  OBVIOUS
<1>1. Losses = 0 /\ Credit = 0
  BY DEF Init, Losses, Limited, Credit, Unspent
<1>2. ASSUME NEW b \in Batches
      PROVE  /\ keyed[b] = 0 /\ source[b].completed = 0 /\ sourceDisk[b].completed = 0
             /\ overruns[b] = 0 /\ Total[b] \in Nat
  BY CoreAssumption DEF Init, NoProgress
<1>3. PICK ready \in BOOLEAN : station = Booted(FreshSession, ready)
  BY DEF Init
<1>4. station.batch = None
  <2>1. New(FreshSession) \in Station /\ New(FreshSession).batch = None
    BY FreshIsSession, LoadedIsSaved DEF New, FreshSession
  <2>2. QED
    BY <1>3, <2>1, LegsKeepBatch DEF Booted
<1>5. \A b, steps : Owed(b, steps) = 0
  BY DEF Init, Owed, InHand, NoTap
<1>6. SourceCovers /\ OverlayCovers /\ StationCovers /\ SessionCovers
  BY <1>1, <1>2, <1>4, <1>5
  DEF SourceCovers, OverlayCovers, StationCovers, SessionCovers, Covers, Init, FreshSession
<1>7. AuditInv
  <2>1. SUFFICES ASSUME NEW b \in Batches
                 PROVE  Audits(source[b].completed, b) /\ Audits(sourceDisk[b].completed, b)
    BY DEF AuditInv
  <2>2. Unaudited(b) = 0
    BY DEF Unaudited, Init
  <2>3. QED
    BY <1>1, <1>2, <2>2 DEF Audits
<1>8. AnswerInv /\ BreakInv /\ GateHeld
  BY DEF Init, AnswerInv, BreakInv, GateHeld, Counted
<1>9. BlockBound
  <2>1. SUFFICES ASSUME NEW b \in Batches PROVE keyed[b] <= Total[b] + Losses
    BY DEF BlockBound
  <2>2. QED
    BY <1>1, <1>2
<1>10. QED
  BY <1>6, <1>7, <1>8, <1>9 DEF AccountInv

LEMMA AccountStep == Inv /\ Inv' /\ AccountInv /\ [Next]_vars => AccountInv'
<1> SUFFICES ASSUME Inv, Inv', AccountInv, [Next]_vars
             PROVE  AccountInv'
  OBVIOUS
<1>1. TypeOK /\ TypeOK' /\ TapInv /\ CommitInv
  BY DEF Inv
<1>2. AnswerInv' /\ BreakInv'
  BY <1>1, AnswerStep, BreakStep DEF AccountInv
<1>3. Copies'
  BY <1>1, <1>2, CopiesStep DEF AccountInv, Counters, Copies
<1>4. GateHeld' /\ BlockBound'
  BY <1>1, GateStep, BlockStep DEF AccountInv, Copies
<1>5. QED
  BY <1>2, <1>3, <1>4 DEF AccountInv, Copies

LEMMA Accounted == Spec => []AccountInv
<1>1. QED
  BY InvInit, InvStep, AccountInit, AccountStep, PTL DEF Spec

\* Policy "block" (on_card_presented's gate on the session's batch): the chips physically
\* keyed past a batch's total are no more than the kills, breakdowns of the disk and errors
\* of the batch source together; with none of them the total holds.
THEOREM TotalHolds == Spec => []BlockBound
<1>1. AccountInv => BlockBound
  BY DEF AccountInv
<1>2. QED
  BY <1>1, Accounted, PTL

\* overruns.jsonl (append_overrun in on_card_presented) has a record of every chip the
\* batch source counts past a batch's total, but for one each kill, breakdown of the disk
\* or error of the source can cost, across restarts and resets.
THEOREM OverrunsRecorded == Spec => []OverrunsAudited
<1>1. Inv /\ AccountInv => OverrunsAudited
  <2>1. SUFFICES ASSUME Inv, AccountInv, Idle, NEW b \in Batches
                 PROVE  source[b].completed <= Total[b] + overruns[b] + Losses
    BY DEF OverrunsAudited
  <2>2. TypeOK /\ Unaudited(b) = 0 /\ Audits(source[b].completed, b)
    BY <2>1 DEF Inv, Idle, Unaudited, AccountInv, AuditInv
  <2>3. Losses \in Nat
    BY <2>2 DEF Losses, TypeOK, Limited
  <2>4. QED
    BY <2>2, <2>3, CountTypes DEF Audits
<1>2. QED
  BY <1>1, Invariance, Accounted, PTL

-----------------------------------------------------------------------------
(* When the claims of the documents that the code does not always keep     *)
(* hold.                                                                   *)

\* "Persist happens before emit" holds of a running shift: it is only what is tapped
\* without one that a restart does not restore.
ShiftRecoverable == station.shift # None => CountsRecoverable

\* Between messages, on a line that takes taps, a restart restores every count of the
\* running shift (commit: persist, then push, then the pause when the write failed), whatever
\* failed before: not even a reset whose write failed leaves a shift that is not on disk.
THEOREM ShiftsRecoverable == Spec => []ShiftRecoverable
<1>1. Inv /\ HasBatch => ShiftRecoverable
  <2>1. SUFFICES ASSUME Inv, HasBatch, station.shift # None, Idle, station.connected
                 PROVE  New(disk).counts = station.counts
    BY DEF ShiftRecoverable, CountsRecoverable
  <2>2. pc \in Settled /\ station.persistOk
    BY <2>1 DEF Inv, CommitInv, Idle, Settled
  <2>3. ~resetFailed
    BY <2>1, <2>2 DEF Inv, DiskInv
  <2>4. disk = ToPersisted(station)
    BY <2>1, <2>2, <2>3 DEF Inv, DurableWhileHealthy
  <2>5. disk.shift = [meta |-> station.shift, batch |-> station.batch,
                      counts |-> station.counts]
    BY <2>1, <2>4 DEF HasBatch, ToPersisted
  <2>6. disk.shift # None
    <3>1. station.batch # None
      BY <2>1 DEF HasBatch
    <3>2. disk.shift \in PersistedShift
      BY <2>1, <2>5, <3>1 DEF Inv, TypeOK, Station, PersistedShift
    <3>3. QED
      BY <3>2, NoneAssumption
  <2>7. QED
    BY <2>5, <2>6 DEF New
<1>2. Inv /\ HasBatch /\ [Next]_vars => HasBatch'
  BY HasBatchStep
<1>3. QED
  BY <1>1, <1>2, InvInit, InvStep, HasBatchInit, PTL DEF Spec

\* The chip that was keyed and that the source is about to be told of.
Untold(b) == IF pc = "recording" /\ InHand(b) THEN 1 ELSE 0

\* As long as the process lives the source counts no chip that was not keyed: only a
\* restart can bring back, from the overlay file, what a reset had dropped.
SourceInv ==
    used.crashes = 0 => \A b \in Batches : source[b].completed + Untold(b) <= keyed[b]

LEMMA CrashesGrow ==
    ASSUME TypeOK, [Next]_vars
    PROVE  /\ used'.crashes = 0 => used.crashes = 0
           /\ CrashRestart => used'.crashes # 0
<1>1. used \in [Limited -> Nat] /\ "crashes" \in Limited
  BY DEF TypeOK, Limited
<1>2. ASSUME NEW w \in Limited, Use(w)
      PROVE  used'.crashes = used.crashes + (IF w = "crashes" THEN 1 ELSE 0)
  BY <1>1, <1>2, UseCounts
<1>3. used.crashes \in Nat
  BY <1>1
<1>4. CrashRestart => used'.crashes = used.crashes + 1
  BY <1>1, <1>2 DEF CrashRestart
<1>5. used'.crashes = used.crashes \/ used'.crashes = used.crashes + 1
  BY <1>2, <1>3, StepUses
<1>6. QED
  BY <1>3, <1>4, <1>5

LEMMA SourceInit == Init => SourceInv
<1> SUFFICES ASSUME Init, NEW b \in Batches
             PROVE  source[b].completed + Untold(b) <= keyed[b]
  BY DEF SourceInv
<1>1. source[b].completed = 0 /\ keyed[b] = 0
  BY DEF Init, NoProgress
<1>2. Untold(b) = 0
  BY DEF Init, Untold
<1>3. QED
  BY <1>1, <1>2

LEMMA SourceStep == TypeOK /\ TapInv /\ SourceInv /\ [Next]_vars => SourceInv'
<1> SUFFICES ASSUME TypeOK, TapInv, SourceInv, [Next]_vars, used'.crashes = 0,
                    NEW b \in Batches
             PROVE  source'[b].completed + Untold(b)' <= keyed'[b]
  BY DEF SourceInv
<1>0. /\ source[b].completed + Untold(b) <= keyed[b] /\ ~CrashRestart
      /\ source[b].completed \in Nat /\ keyed[b] \in Nat
  BY CrashesGrow DEF SourceInv, TypeOK, Progress
<1> DEFINE Goal == source'[b].completed + Untold(b)' <= keyed'[b]
<1> USE DEF Idle
<1>1. ASSUME source' = source, keyed' = keyed, pc' # "recording" \/ tap'.verdict = "dead"
      PROVE  Goal
  <2>1. Untold(b)' = 0 /\ Untold(b) \in {0, 1}
    BY <1>1 DEF Untold, InHand
  <2>2. QED
    BY <1>0, <1>1, <2>1
<1>2. ASSUME source' = source, keyed' = keyed, pc' = pc, tap' = tap PROVE Goal
  <2>1. Untold(b)' = Untold(b)
    BY <1>2 DEF Untold, InHand
  <2>2. QED
    BY <1>0, <1>2, <2>1
<1>3. CASE Persist \/ Push
  BY <1>1, <1>3 DEF Persist, Push, files, history
<1>4. CASE UpdatePersistHealth
  <2>1. pc' # "recording"
    BY <1>4 DEF UpdatePersistHealth, TypeOK
  <2>2. QED
    BY <1>1, <1>4, <2>1 DEF UpdatePersistHealth, history
<1>5. CASE ChipKeyed
  <2>1. tap.batch \in Batches /\ source' = source
    BY <1>5 DEF ChipKeyed, TapInv, files
  <2>2. tap' = [tap EXCEPT !.verdict = "success"] /\ keyed' = [keyed EXCEPT ![tap.batch] = @ + 1]
    BY <1>5 DEF ChipKeyed
  <2>3. tap'.batch = tap.batch
    BY <2>2 DEF TypeOK, Tap
  <2>4. Untold(b) = 0
    BY <1>5 DEF ChipKeyed, Untold
  <2>5. CASE tap.batch = b
    <3>1. keyed'[b] = keyed[b] + 1
      BY <2>2, <2>5 DEF TypeOK
    <3>2. Untold(b)' \in {0, 1}
      BY DEF Untold
    <3>3. QED
      BY <1>0, <2>1, <2>4, <3>1, <3>2
  <2>6. CASE tap.batch # b
    <3>1. keyed'[b] = keyed[b]
      BY <2>2, <2>6 DEF TypeOK
    <3>2. Untold(b)' = 0
      BY <2>3, <2>6 DEF Untold, InHand
    <3>3. QED
      BY <1>0, <2>1, <2>4, <3>1, <3>2
  <2>7. QED
    BY <2>5, <2>6
<1>6. CASE RecoverableFailure \/ PermanentFailure
  <2>1. pc' # "recording" \/ tap'.verdict = "dead"
    BY <1>6 DEF RecoverableFailure, PermanentFailure, TypeOK, Tap
  <2>2. source' = source /\ keyed' = keyed
    BY <1>6 DEF RecoverableFailure, PermanentFailure, files, history
  <2>3. QED
    BY <1>1, <2>1, <2>2
<1>7. ASSUME NEW st, NEW next, CommitFlip(st, next), next # "recording",
             source' = source, keyed' = keyed
      PROVE  Goal
  BY <1>1, <1>7 DEF CommitFlip, Commit
<1>8. CASE KeyingNotReady
  BY <1>7, <1>8 DEF KeyingNotReady, files
<1>9. CASE RecordOutcome
  <2>1. /\ tap.batch \in Batches /\ tap.verdict \in {"success", "dead"} /\ keyed' = keyed
        /\ source' = [source EXCEPT ![tap.batch] = RecordProgress(@, tap.verdict)]
        /\ pc = "recording" /\ pc' # "recording"
    BY <1>9 DEF RecordOutcome, TapInv, history
  <2>2. Untold(b)' = 0
    BY <2>1 DEF Untold
  <2>3. source'[b].completed = source[b].completed + Untold(b)
    <3>1. source[b] \in Progress /\ source \in [Batches -> Progress]
      BY DEF TypeOK
    <3>2. CASE tap.batch = b /\ tap.verdict = "success"
      <4>1. source'[b] = [source[b] EXCEPT !.completed = @ + 1]
        BY <2>1, <3>1, <3>2 DEF RecordProgress
      <4>2. Untold(b) = 1
        BY <2>1, <3>2 DEF Untold, InHand
      <4>3. QED
        BY <3>1, <4>1, <4>2 DEF Progress
    <3>3. CASE tap.batch = b /\ tap.verdict = "dead"
      <4>1. source'[b] = [source[b] EXCEPT !.failed = @ + 1]
        BY <2>1, <3>1, <3>3 DEF RecordProgress
      <4>2. Untold(b) = 0
        BY <2>1, <3>3 DEF Untold, InHand
      <4>3. QED
        BY <1>0, <3>1, <4>1, <4>2 DEF Progress
    <3>4. CASE tap.batch # b
      <4>1. source'[b] = source[b] /\ Untold(b) = 0
        BY <2>1, <3>1, <3>4 DEF Untold, InHand
      <4>2. QED
        BY <1>0, <4>1
    <3>5. QED
      BY <2>1, <3>2, <3>3, <3>4
  <2>4. keyed'[b] = keyed[b] /\ Untold(b) \in {0, 1}
    BY <2>1 DEF Untold
  <2>5. QED
    BY <1>0, <2>2, <2>3, <2>4
<1>10. CASE RecordOutcomeFails \/ AppendOverrun \/ EmitVerdict
  BY <1>1, <1>10
  DEF RecordOutcomeFails, AppendOverrun, EmitVerdict, Commit, files, history
<1>11. ASSUME NEW c \in Batches, BeginShiftMsg(c) \/ SwapBatchMsg(c) PROVE Goal
  BY <1>1, <1>11 DEF BeginShiftMsg, SwapBatchMsg, Commit, files, history
<1>12. CASE EndShiftCmd \/ BeginEndShift \/ BridgeAttached
  BY <1>1, <1>12 DEF EndShiftCmd, BeginEndShift, BridgeAttached, Commit, files, history
<1>13. ASSUME NEW present \in BOOLEAN, ReaderPresence(present) PROVE Goal
  BY <1>7, <1>13 DEF ReaderPresence, files, history
<1>14. ASSUME NEW ready \in BOOLEAN, SetDownstream(ready) PROVE Goal
  BY <1>7, <1>14 DEF SetDownstream, files
<1>15. CASE Blip
  BY <1>7, <1>15 DEF Blip, files, history
<1>16. CASE ResetDemo \/ ConformanceReset
  <2>1. /\ pc = "idle" /\ pc' = pc /\ source' = NoProgress
        /\ keyed' = [c \in Batches |-> 0]
    BY <1>16 DEF ResetDemo, ConformanceReset, ResetTo, handler
  <2>2. source'[b].completed = 0 /\ keyed'[b] = 0 /\ Untold(b)' = 0
    BY <2>1 DEF NoProgress, Untold
  <2>3. QED
    BY <2>2
<1>17. ASSUME NEW c \in Chips, CardPresented(c) PROVE Goal
  BY <1>1, <1>17 DEF CardPresented, files, history
<1>18. CASE Tick
  BY <1>1, <1>18 DEF Tick
<1>19. CASE TickBlip
  <2>1. source' = source /\ keyed' = keyed
    BY <1>19 DEF TickBlip, files, history
  <2>2. pc' # "recording"
    BY <1>19 DEF TickBlip, CommitFlip, Commit
  <2>3. QED
    BY <1>1, <2>1, <2>2
<1>20. CASE TickEndShift \/ ConfirmEmission
  BY <1>1, <1>20 DEF TickEndShift, ConfirmEmission, Commit, files, history
<1>21. ASSUME NEW w \in Windows, Elapse(w) PROVE Goal
  BY <1>2, <1>21 DEF Elapse, handler, files, history
<1>22. CASE BootPulled \/ PageBoot \/ DiskBreaks \/ DiskHeals \/ UNCHANGED vars
  BY <1>2, <1>22
  DEF BootPulled, PageBoot, DiskBreaks, DiskHeals, vars, handler, files, history
<1>23. QED
  BY <1>0, <1>3, <1>4, <1>5, <1>6, <1>8, <1>9, <1>10, <1>11, <1>12, <1>13, <1>14, <1>15, <1>16,
     <1>17, <1>18, <1>19, <1>20, <1>21, <1>22
  DEF Next, HandlerStep, CommitStep, KeyChip, Message, Environment

\* Without a kill, a breakdown of the disk or an error of the source, "block" keeps every
\* batch within its total.
TotalExact == OverrunPolicy = "block" /\ Losses = 0 => NoChipPastTotal

\* What config.rs says of overrun_policy "block" holds of every run in which nothing fails:
\* the gate of on_card_presented compares the session's batch, and no swap, shift begin,
\* reset or outage of the line makes that batch lag the source.
THEOREM BlockExact == Spec => []TotalExact
<1>1. TypeOK /\ SourceInv /\ BlockBound => TotalExact
  <2>1. SUFFICES ASSUME TypeOK, SourceInv, BlockBound, OverrunPolicy = "block", Losses = 0,
                        NEW b \in Batches
                 PROVE  source[b].completed <= Total[b]
    BY DEF TotalExact, NoChipPastTotal
  <2>2. used.crashes \in Nat /\ used.faults \in Nat /\ used.outages \in Nat
    BY <2>1 DEF TypeOK, Limited
  <2>3. used.crashes = 0
    BY <2>1, <2>2 DEF Losses
  <2>4. source[b].completed + Untold(b) <= keyed[b] /\ Untold(b) \in {0, 1}
    BY <2>1, <2>3 DEF SourceInv, Untold
  <2>5. keyed[b] <= Total[b] + 0
    BY <2>1 DEF BlockBound
  <2>6. source[b].completed \in Nat /\ keyed[b] \in Nat /\ Total[b] \in Nat
    BY <2>1, CoreAssumption DEF TypeOK, Progress
  <2>7. QED
    BY <2>4, <2>5, <2>6
<1>2. Inv => TypeOK /\ TapInv
  BY DEF Inv
<1>3. QED
  BY <1>1, <1>2, Invariance, TotalHolds, SourceInit, SourceStep, PTL DEF Spec
=============================================================================
