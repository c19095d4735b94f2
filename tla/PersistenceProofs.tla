-------------------------- MODULE PersistenceProofs --------------------------
(***************************************************************************)
(* Proofs about SessionFile, RecordLog and Persistence, for any number of  *)
(* saves, records, cuts and interruptions: a save is atomic under kills    *)
(* and power cuts, the session file implements the register of             *)
(* DurableRegister, and what a restart may lose; how many records an       *)
(* interruption or a cut spoils; and that a verdict is saved only after    *)
(* its record was logged.  The composition runs each of its parts as it    *)
(* is, so that what is proved of a part holds of it, too.                  *)
(***************************************************************************)
EXTENDS Persistence, FiniteSetTheorems, TLAPS

-----------------------------------------------------------------------------
(* The session file.                                                       *)

Saving == {"create", "write", "sync", "rename"}

\* What a save has achieved at each of its steps.
Progress ==
    /\ pc \in {"write", "sync", "rename"} => tmp # None /\ tmp.session = session
    /\ pc \in {"sync", "rename"} => tmp.whole
    /\ pc = "rename" => tmp.synced /\ renamed = None

\* Numbers grow: what is being saved is the newest session.
Newest ==
    /\ pc \in Saving \/ failed => session = used.sessions
    /\ used.sessions \in Sessions
    /\ acked <= used.sessions /\ before <= acked

\* What a restart would find, and what it would find after a cut.
Remembered ==
    /\ ~cut => AtPath.session = acked
    /\ cut => pc = "gone" /\ renamed = None
    /\ before <= disk.session /\ disk.session <= used.sessions

IInv == TypeOK /\ NeverTorn /\ Progress /\ Newest /\ Remembered

LEMMA UsedGrows ==
  ASSUME used \in [Limited -> Nat], NEW what \in Limited, Use(what)
  PROVE  /\ used' \in [Limited -> Nat]
         /\ used'[what] = used[what] + 1
         /\ \A k \in Limited \ {what} : used'[k] = used[k]
  BY DEF Use

LEMMA InitIInv == Init => IInv
  <1> SUFFICES ASSUME Init PROVE IInv
    OBVIOUS
  <1>1. Bound.sessions \in Nat
    BY SessionFileAssumption DEF Limited
  <1>2. NoFile \in File /\ NoFile.session = Fresh /\ NoFile.whole /\ NoFile.synced
    BY <1>1 DEF NoFile, File, Sessions, Fresh
  <1>3. AtPath = NoFile
    BY DEF Init, AtPath
  <1>4. used \in [Limited -> Nat] /\ used.sessions = 0
    BY DEF Init, Limited
  <1>5. TypeOK
    <2>1. session \in Sessions /\ acked \in Sessions /\ before \in Sessions
      BY <1>1 DEF Init, Sessions, Fresh
    <2>2. tmp \in File \cup {None} /\ renamed \in File \cup {None} /\ disk \in File
      BY <1>2 DEF Init
    <2> QED
      BY <1>4, <2>1, <2>2 DEF Init, TypeOK
  <1> QED
    BY <1>1, <1>2, <1>3, <1>4, <1>5
    DEF Init, IInv, NeverTorn, Progress, Newest, Remembered, Saving, Sessions, Fresh

LEMMA StepIInv == IInv /\ [Next]_vars => IInv'
  <1> SUFFICES ASSUME IInv, [Next]_vars PROVE IInv'
    OBVIOUS
  <1> USE SessionFileAssumption DEF IInv, TypeOK, Sessions, Fresh, File
  <1>b. Bound.sessions \in Nat
    BY DEF Limited
  <1>p. AtPath \in File
    BY DEF AtPath
  <1>c. /\ AtPath.session >= before
        /\ AtPath.session <= used.sessions
        /\ disk.session \in Sessions
    <2>1. AtPath.session \in Nat /\ disk.session \in Sessions
      BY <1>b, <1>p
    <2>2. acked \in Nat /\ before \in Nat /\ used.sessions \in Nat
      BY <1>b DEF Newest
    <2>3. CASE ~cut
      BY <2>1, <2>2, <2>3 DEF Remembered, Newest
    <2>4. CASE cut
      BY <2>1, <2>2, <2>4 DEF Remembered, Newest, AtPath
    <2> QED
      BY <2>1, <2>3, <2>4
  <1>1. CASE Save
    <2>1. CASE May("sessions") /\ Use("sessions") /\ session' = used.sessions + 1
      <3>1. used' \in [Limited -> Nat] /\ used'.sessions = used.sessions + 1
        BY <2>1, UsedGrows DEF Limited
      <3>2. session' \in Sessions /\ session' = used'.sessions
        BY <1>b, <2>1, <3>1 DEF May, Limited
      <3> QED
        BY <1>1, <1>b, <2>1, <3>1, <3>2
        DEF Save, files, history, NeverTorn, AtPath, Progress, Newest, Remembered, Saving
    <2>2. CASE failed /\ UNCHANGED <<session, used>>
      BY <1>1, <2>2
      DEF Save, files, history, NeverTorn, AtPath, Progress, Newest, Remembered, Saving
    <2> QED
      BY <1>1, <2>1, <2>2 DEF Save
  <1>2. CASE CreateTemp
    <2>1. tmp' = [session |-> session, whole |-> FALSE, synced |-> FALSE] /\ session' = session
      BY <1>2 DEF CreateTemp
    <2>2. tmp' \in File /\ tmp'.session = session'
      BY <2>1
    <2>3. tmp' # None
      BY <2>2
    <2> QED
      BY <1>2, <2>2, <2>3
      DEF CreateTemp, history, NeverTorn, AtPath, Progress, Newest, Remembered, Saving
  <1>3. CASE WriteAll
    <2>1. tmp \in File /\ tmp.session = session
      BY <1>3 DEF WriteAll, Progress
    <2>2. tmp' \in File /\ tmp'.session = session /\ tmp'.whole /\ tmp' # None
      BY <1>3, <2>1 DEF WriteAll, File
    <2> QED
      BY <1>3, <2>2
      DEF WriteAll, history, NeverTorn, AtPath, Progress, Newest, Remembered, Saving
  <1>4. CASE SyncAll
    <2>1. tmp \in File /\ tmp.session = session /\ tmp.whole
      BY <1>4 DEF SyncAll, Progress
    <2>2. tmp' \in File /\ tmp'.session = session /\ tmp'.whole /\ tmp'.synced /\ tmp' # None
      BY <1>4, <2>1 DEF SyncAll, File
    <2>3. AtPath' = AtPath /\ disk' = AtPath /\ renamed' = None
      BY <1>4 DEF SyncAll, AtPath
    <2>4. ~cut
      BY <1>4 DEF SyncAll, Remembered
    <2> QED
      BY <1>4, <1>p, <1>b, <2>2, <2>3, <2>4
      DEF SyncAll, history, File, NeverTorn, Progress, Newest, Remembered, Saving
  <1>5. CASE Rename
    <2>1. /\ tmp \in File /\ tmp.session = session /\ tmp.whole /\ tmp.synced /\ tmp # None
          /\ renamed = None /\ AtPath = disk /\ ~cut
      BY <1>5 DEF Rename, Progress, AtPath, Remembered
    <2>2. AtPath' = tmp /\ disk' = disk
      BY <1>5, <2>1 DEF Rename, AtPath
    <2>3. session = used.sessions
      BY <1>5 DEF Rename, Newest, Saving
    <2>4. TypeOK' /\ NeverTorn' /\ Progress'
      BY <1>5, <2>1, <2>2 DEF Rename, NeverTorn, Progress
    <2>5. Newest'
      BY <1>5, <1>b, <2>3 DEF Rename, Newest, Saving
    <2>6. disk.session = acked
      BY <2>1 DEF Remembered
    <2>7. Remembered'
      BY <1>5, <1>b, <2>1, <2>2, <2>6 DEF Rename, Remembered
    <2> QED
      BY <2>4, <2>5, <2>7
  <1>6. CASE StepFails
    BY <1>6
    DEF StepFails, files, history, NeverTorn, AtPath, Progress, Newest, Remembered, Saving
  <1>7. CASE Settle
    <2>1. AtPath' = AtPath /\ disk' = AtPath /\ renamed' = None /\ ~cut
      BY <1>7 DEF Settle, AtPath, Remembered
    <2> QED
      BY <1>7, <1>p, <1>b, <2>1
      DEF Settle, process, history, File, NeverTorn, Progress, Newest, Remembered, Saving
  <1>8. CASE Kill
    BY <1>8
    DEF Kill, files, history, NeverTorn, AtPath, Progress, Newest, Remembered, Saving
  <1>9. CASE PowerCut
    <2>1. PICK f \in {disk, AtPath} : disk' = Survivor(f)
      BY <1>9 DEF PowerCut
    <2>2. f \in File /\ f.whole /\ f.synced /\ f.session >= before
      <3>1. AtPath.session >= before
        BY <1>c
      <3> QED
        BY <2>1, <3>1, <1>p DEF NeverTorn, Remembered
    <2>3. disk' \in File /\ disk'.whole /\ disk'.synced /\ disk'.session = f.session
      BY <2>1, <2>2 DEF Survivor, File
    <2>4. AtPath' = disk' /\ renamed' = None
      BY <1>9 DEF PowerCut, AtPath
    <2>5. tmp' \in File \cup {None}
      <3>1. PICK g \in {None, tmp} : tmp' = IF g = None THEN None ELSE Survivor(g)
        BY <1>9 DEF PowerCut
      <3> QED
        BY <3>1 DEF Survivor, File
    <2>6. used' \in [Limited -> Nat] /\ used'.sessions = used.sessions
      BY <1>9, UsedGrows DEF PowerCut, Limited
    <2>7. disk'.session >= before' /\ disk'.session <= used'.sessions
      <3>1. f.session <= used.sessions
        BY <2>1, <1>c DEF Remembered
      <3> QED
        BY <1>9, <2>2, <2>3, <2>6, <3>1 DEF PowerCut
    <2>8. TypeOK' /\ NeverTorn'
      BY <1>9, <2>3, <2>4, <2>5, <2>6 DEF PowerCut, NeverTorn
    <2>9. Progress' /\ Newest' /\ Remembered'
      BY <1>9, <2>4, <2>6, <2>7 DEF PowerCut, Progress, Newest, Remembered, Saving
    <2> QED
      BY <2>8, <2>9
  <1>10. ASSUME NEW s \in Sessions, Starts(s),
                used' \in [Limited -> Nat], used'.sessions = used.sessions
         PROVE  IInv'
    <2>1. AtPath' = AtPath /\ disk' = disk /\ renamed' = renamed /\ tmp' = tmp
      BY <1>10 DEF Starts, files, AtPath
    <2>2. AtPath.session \in Sessions
      BY <1>p, <1>b DEF File
    <2>3. AtPath.session <= used.sessions /\ disk.session \in Sessions
      BY <1>c
    <2>4. before' <= acked' /\ disk.session >= before' /\ before' \in Sessions
      <3>1. CASE AtPath.session = acked
        BY <1>10, <3>1 DEF Starts, Newest, Remembered
      <3>2. CASE AtPath.session # acked
        BY <1>10, <1>b, <2>2, <3>2 DEF Starts, Remembered, AtPath
      <3> QED
        BY <3>1, <3>2
    <2> QED
      BY <1>10, <1>b, <2>1, <2>2, <2>3, <2>4
      DEF Starts, NeverTorn, Progress, Newest, Remembered, Saving
  <1>11. CASE Load
    BY <1>10, <1>11, <1>p, <1>b DEF Load, Loaded, File
  <1>12. CASE LoadUnreadable
    BY <1>10, <1>12, <1>b, UsedGrows DEF LoadUnreadable, Limited
  <1>13. CASE UNCHANGED vars
    BY <1>13
    DEF vars, process, files, history, NeverTorn, AtPath, Progress, Newest, Remembered, Saving
  <1> QED
    BY <1>1, <1>2, <1>3, <1>4, <1>5, <1>6, <1>7, <1>8, <1>9, <1>11, <1>12, <1>13 DEF Next

\* The strengthened invariant.
LEMMA Invariant == Spec => []IInv
  BY InitIInv, StepIInv, PTL DEF Spec

\* The session file, its temporary file and what is on the disk keep their types.
THEOREM TypeCorrect == Spec => []TypeOK
  <1>1. IInv => TypeOK
    BY DEF IInv
  <1> QED
    BY Invariant, <1>1, PTL

\* No reader and no power cut finds part of a session at the path.
THEOREM Atomic == Spec => []NeverTorn
  <1>1. IInv => NeverTorn
    BY DEF IInv
  <1> QED
    BY Invariant, <1>1, PTL

\* A kill costs no save that had returned; a power cut costs one at most.
THEOREM OneSaveAtMost == Spec => LosesOneSaveToACut
  <1>1. IInv /\ [Next]_vars
        => [Load => session' >= IF cut THEN before ELSE acked]_vars
    <2> SUFFICES ASSUME IInv, Load
                 PROVE  session' >= IF cut THEN before ELSE acked
      OBVIOUS
    <2>1. session' = AtPath.session
      BY DEF Load, Starts, Loaded, IInv, NeverTorn
    <2>2. AtPath.session >= before /\ (~cut => AtPath.session >= acked)
      BY SessionFileAssumption
      DEF IInv, TypeOK, Newest, Remembered, AtPath, File, Sessions, Fresh, Limited
    <2> QED
      BY <2>1, <2>2
  <1> QED
    BY Invariant, <1>1, PTL DEF Spec, LosesOneSaveToACut

\* The session file implements the register.
THEOREM Refinement == Spec => ImplementsRegister
  <1>1. Init => Register!Init
    BY InitIInv DEF Init, IInv, TypeOK, File, NoFile, Register!Init, AtPath
  <1>2. IInv /\ [Next]_vars => [Register!Next]_<<AtPath.session, disk.session>>
    <2> SUFFICES ASSUME IInv, [Next]_vars
                 PROVE  [Register!Next]_<<AtPath.session, disk.session>>
      OBVIOUS
    <2>1. CASE Save \/ CreateTemp \/ WriteAll \/ StepFails \/ Kill \/ UNCHANGED vars
      BY <2>1 DEF Save, CreateTemp, WriteAll, StepFails, Kill, vars, files, AtPath
    <2>2. CASE SyncAll \/ Settle
      BY <2>2 DEF SyncAll, Settle, AtPath, Register!Next, Register!Settle
    <2>3. CASE Rename
      <3>1. renamed = None /\ tmp # None /\ tmp.session = session /\ session \in Sessions
        BY <2>3 DEF Rename, IInv, TypeOK, Progress
      <3>2. Register!Write(session)
        BY <2>3, <3>1 DEF Rename, AtPath, Register!Write
      <3> QED
        BY <3>1, <3>2 DEF Register!Next
    <2>4. CASE PowerCut
      <3>1. PICK f \in {disk, AtPath} : disk' = Survivor(f)
        BY <2>4 DEF PowerCut
      <3>2. disk'.session = f.session
        BY <3>1 DEF Survivor, IInv, TypeOK, AtPath, File
      <3>3. AtPath' = disk'
        BY <2>4 DEF PowerCut, AtPath
      <3> QED
        BY <3>1, <3>2, <3>3 DEF Register!Next, Register!Settle, Register!PowerCut
    <2>5. CASE Load \/ LoadUnreadable
      BY <2>5 DEF Load, LoadUnreadable, Starts, files, AtPath
    <2> QED
      BY <2>1, <2>2, <2>3, <2>4, <2>5 DEF Next
  <1> QED
    BY Invariant, <1>1, <1>2, PTL DEF Spec, ImplementsRegister, Register!Spec
-----------------------------------------------------------------------------
(* The record log.                                                         *)

Lines == {lines[i] : i \in DOMAIN lines} \cup {tail}
Appending == writer \in {"writing", "written"}

\* The record being appended is newer than all others, and in the file only as the end
\* of its last line.
Numbers ==
    /\ \A line \in Lines : \A i \in DOMAIN line : line[i].record <= logUsed.records
    /\ \A r \in appended : r <= logUsed.records
    /\ writer # "idle" =>
          /\ record = logUsed.records /\ record # 0 /\ record \notin appended
          /\ \A i \in DOMAIN lines : ~In(record, lines[i])
          /\ \A i \in DOMAIN tail : tail[i].record = record => Appending /\ i = Len(tail)

\* What may still be spoiled: the next record appended, by what stands before it on its
\* line; and what stands there, when it is a record that lost its newline only.
Torn == IF Len(tail) > (IF Appending THEN 1 ELSE 0) THEN 1 ELSE 0
Cut == IF Len(tail) = 1 /\ tail[1].whole /\ tail[1].record \in appended THEN 1 ELSE 0
Budget == Cardinality(Spoiled) + Torn + Cut <= logUsed.interruptions + 2 * logUsed.cuts

LogInv == LogTypeOK /\ Numbers /\ Budget

\* The counters of events.
LEMMA LogUsedGrows ==
  ASSUME logUsed \in [LogLimited -> Nat], NEW what \in LogLimited, UseLog(what)
  PROVE  /\ logUsed' \in [LogLimited -> Nat]
         /\ logUsed'[what] = logUsed[what] + 1
         /\ \A k \in LogLimited \ {what} : logUsed'[k] = logUsed[k]
  BY DEF UseLog

LEMMA LogCounters ==
  ASSUME LogTypeOK
  PROVE  /\ {"records", "interruptions", "cuts"} = LogLimited
         /\ logUsed.records \in Nat /\ logUsed.interruptions \in Nat /\ logUsed.cuts \in Nat
         /\ LogBound.records \in Nat
  BY RecordLogAssumption DEF LogTypeOK, LogLimited

\* The beginnings of a sequence.
LEMMA Beginning ==
  ASSUME NEW S, NEW q \in Seq(S), NEW m \in 0 .. Len(q)
  PROVE  /\ SubSeq(q, 1, m) \in Seq(S) /\ Len(SubSeq(q, 1, m)) = m
         /\ DOMAIN SubSeq(q, 1, m) = 1 .. m
         /\ \A i \in 1 .. m : SubSeq(q, 1, m)[i] = q[i] /\ i \in DOMAIN q
  OBVIOUS

LEMMA LastOf ==
  ASSUME NEW S, NEW q \in Seq(S), q # <<>>
  PROVE  Last(q) = q[Len(q)] /\ Len(q) \in DOMAIN q /\ q[Len(q)] \in S
  BY DEF Last

LEMMA Appended ==
  ASSUME NEW S, NEW q \in Seq(S), NEW e \in S
  PROVE  LET a == Append(q, e) IN
         /\ a \in Seq(S) /\ a # <<>> /\ Last(a) = e /\ Len(a) = Len(q) + 1
         /\ DOMAIN a = 1 .. Len(q) + 1 /\ a[Len(q) + 1] = e
         /\ \A i \in 1 .. Len(q) : a[i] = q[i]
  BY DEF Last

PieceOf(r, w) == [record |-> r, whole |-> w]

LEMMA Pieces ==
  ASSUME NEW r \in Records, NEW w \in BOOLEAN
  PROVE  /\ PieceOf(r, w) \in Piece /\ PieceOf(r, w).record = r /\ PieceOf(r, w).whole = w
         /\ [PieceOf(r, w) EXCEPT !.whole = TRUE] = PieceOf(r, TRUE)
  <1> DEFINE made == [PieceOf(r, w) EXCEPT !.whole = TRUE]
  <1>1. /\ PieceOf(r, w) \in Piece /\ PieceOf(r, w).record = r /\ PieceOf(r, w).whole = w
        /\ PieceOf(r, TRUE) \in Piece /\ PieceOf(r, TRUE).record = r
        /\ PieceOf(r, TRUE).whole = TRUE
    BY DEF PieceOf, Piece
  <1>2. made \in Piece /\ made.record = r /\ made.whole = TRUE
    BY <1>1 DEF Piece
  <1> HIDE DEF made
  <1>3. \A p, q \in Piece : p.record = q.record /\ p.whole = q.whole => p = q
    BY DEF Piece
  <1>4. made = PieceOf(r, TRUE)
    BY <1>1, <1>2, <1>3
  <1> QED
    BY <1>1, <1>4 DEF made

\* The steps of an append.
LEMMA PartWritten ==
  ASSUME LogTypeOK, Numbers, WritePart
  PROVE  /\ record \in Records /\ tail' \in Seq(Piece) /\ Len(tail) \in Nat
         /\ Len(tail') = Len(tail) + 1 /\ tail' # <<>> /\ Last(tail') = PieceOf(record, FALSE)
         /\ DOMAIN tail' = 1 .. Len(tail) + 1 /\ DOMAIN tail = 1 .. Len(tail)
         /\ tail'[Len(tail) + 1].record = record /\ tail'[Len(tail) + 1].whole = FALSE
         /\ \A i \in DOMAIN tail : tail'[i] = tail[i]
  <1>1. record \in Records
    BY LogCounters DEF WritePart, Records, Numbers, LogTypeOK
  <1>2. PICK piece \in Piece : piece = PieceOf(record, FALSE)
    BY <1>1, Pieces
  <1>3. tail \in Seq(Piece) /\ tail' = Append(tail, piece)
    BY <1>2 DEF LogTypeOK, WritePart, PieceOf
  <1>4. Len(tail) \in Nat /\ DOMAIN tail = 1 .. Len(tail)
    BY <1>3
  <1>5. /\ tail' \in Seq(Piece) /\ tail' # <<>> /\ Last(tail') = piece
        /\ Len(tail') = Len(tail) + 1 /\ DOMAIN tail' = 1 .. Len(tail) + 1
        /\ tail'[Len(tail) + 1] = piece
        /\ \A i \in 1 .. Len(tail) : tail'[i] = tail[i]
    BY <1>3, Appended
  <1>6. piece.record = record /\ piece.whole = FALSE
    BY <1>2 DEF PieceOf
  <1> QED
    BY <1>1, <1>2, <1>4, <1>5, <1>6

LEMMA RestWritten ==
  ASSUME LogTypeOK, Numbers, WriteRest
  PROVE  /\ record \in Records /\ tail # <<>> /\ tail' \in Seq(Piece) /\ Len(tail') = Len(tail)
         /\ tail' # <<>> /\ Last(tail') = PieceOf(record, TRUE)
         /\ DOMAIN tail' = DOMAIN tail /\ Len(tail) \in DOMAIN tail
         /\ tail[Len(tail)].record = record
         /\ tail'[Len(tail)].record = record /\ tail'[Len(tail)].whole = TRUE
         /\ \A i \in DOMAIN tail : i # Len(tail) => tail'[i] = tail[i]
  <1>1. record \in Records
    BY LogCounters DEF WriteRest, Records, Numbers, LogTypeOK
  <1>2. tail \in Seq(Piece) /\ tail # <<>> /\ Last(tail) = PieceOf(record, FALSE)
    BY DEF LogTypeOK, WriteRest, PieceOf
  <1>3. Len(tail) \in DOMAIN tail /\ tail[Len(tail)] = PieceOf(record, FALSE)
    BY <1>2, LastOf
  <1>4. tail' = [tail EXCEPT ![Len(tail)] = [PieceOf(record, FALSE) EXCEPT !.whole = TRUE]]
    BY <1>3 DEF WriteRest
  <1>5. PICK piece \in Piece : piece = PieceOf(record, TRUE)
    BY <1>1, Pieces
  <1>6. tail' = [tail EXCEPT ![Len(tail)] = piece] /\ tail \in Seq(Piece) /\ tail # <<>>
    BY <1>1, <1>2, <1>4, <1>5, Pieces
  <1>7. /\ tail' \in Seq(Piece) /\ Len(tail') = Len(tail) /\ DOMAIN tail' = DOMAIN tail
        /\ tail'[Len(tail)] = piece
        /\ \A i \in DOMAIN tail : i # Len(tail) => tail'[i] = tail[i]
    BY <1>6
  <1>8. tail' # <<>> /\ Last(tail') = piece
    BY <1>6, <1>7 DEF Last
  <1>9. /\ tail[Len(tail)].record = record
        /\ tail'[Len(tail)].record = record /\ tail'[Len(tail)].whole = TRUE
    BY <1>3, <1>5, <1>7 DEF PieceOf
  <1> QED
    BY <1>1, <1>2, <1>3, <1>5, <1>7, <1>8, <1>9

LEMMA WrittenWhole ==
  ASSUME LogTypeOK, writer = "written"
  PROVE  /\ Len(tail) \in Nat \ {0} /\ Len(tail) \in DOMAIN tail
         /\ tail[Len(tail)].record = record /\ tail[Len(tail)].whole = TRUE
  <1>1. tail \in Seq(Piece) /\ tail # <<>> /\ Last(tail) = PieceOf(record, TRUE)
    BY DEF LogTypeOK, PieceOf
  <1>2. Len(tail) \in DOMAIN tail /\ tail[Len(tail)] = PieceOf(record, TRUE)
    BY <1>1, LastOf
  <1>3. Len(tail) \in Nat \ {0}
    BY <1>1
  <1> QED
    BY <1>2, <1>3 DEF PieceOf

LEMMA LineTypes ==
  ASSUME LogTypeOK, NEW line \in Lines
  PROVE  /\ line \in Seq(Piece) /\ Len(line) \in Nat /\ DOMAIN line = 1 .. Len(line)
         /\ \A i \in DOMAIN line : line[i].record \in Records /\ line[i].whole \in BOOLEAN
  <1>1. line \in Seq(Piece)
    BY DEF LogTypeOK, Lines
  <1>2. /\ Len(line) \in Nat /\ DOMAIN line = 1 .. Len(line)
        /\ \A i \in DOMAIN line : line[i] \in Piece
    BY <1>1
  <1> QED
    BY <1>1, <1>2 DEF Piece

\* What a cut leaves of a line is a beginning of it, whose last piece may be torn.
LEMMA CutLeaves ==
  ASSUME LogTypeOK, CutLog
  PROVE  \E line \in Lines : \E m \in 0 .. Len(line) :
            /\ lines' \in Seq(Seq(Piece)) /\ tail' \in Seq(Piece)
            /\ \A i \in DOMAIN lines' : i \in DOMAIN lines /\ lines'[i] = lines[i]
            /\ Len(tail') = m /\ DOMAIN tail' = 1 .. m
            /\ \A i \in 1 .. m : tail'[i].record = line[i].record /\ i \in DOMAIN line
  <1>1. PICK n \in 0 .. Len(lines) :
           LET next == IF n = Len(lines) THEN tail ELSE lines[n + 1] IN
           \E m \in 0 .. Len(next) :
              /\ lines' = SubSeq(lines, 1, n)
              /\ \/ tail' = SubSeq(next, 1, m)
                 \/ m > 0 /\ tail' = [SubSeq(next, 1, m) EXCEPT ![m].whole = FALSE]
    BY DEF CutLog
  <1> DEFINE line == IF n = Len(lines) THEN tail ELSE lines[n + 1]
  <1>2. line \in Lines
    BY DEF Lines, LogTypeOK
  <1>3. PICK m \in 0 .. Len(line) :
           /\ lines' = SubSeq(lines, 1, n)
           /\ \/ tail' = SubSeq(line, 1, m)
              \/ m > 0 /\ tail' = [SubSeq(line, 1, m) EXCEPT ![m].whole = FALSE]
    BY <1>1
  <1> HIDE DEF line
  <1>4. /\ lines' \in Seq(Seq(Piece))
        /\ \A i \in DOMAIN lines' : i \in DOMAIN lines /\ lines'[i] = lines[i]
    BY <1>3, Beginning DEF LogTypeOK
  <1> DEFINE kept == SubSeq(line, 1, m)
  <1>5. /\ kept \in Seq(Piece) /\ Len(kept) = m /\ DOMAIN kept = 1 .. m
        /\ \A i \in 1 .. m : kept[i] = line[i] /\ i \in DOMAIN line
    <2>1. line \in Seq(Piece)
      BY <1>2, LineTypes
    <2> QED
      BY <2>1, Beginning
  <1>6. tail' = kept \/ (m > 0 /\ tail' = [kept EXCEPT ![m].whole = FALSE])
    BY <1>3
  <1> HIDE DEF kept
  <1>7. /\ tail' \in Seq(Piece) /\ Len(tail') = m /\ DOMAIN tail' = 1 .. m
        /\ \A i \in 1 .. m : tail'[i].record = kept[i].record
    <2>1. CASE tail' = kept
      BY <1>5, <2>1
    <2>2. CASE m > 0 /\ tail' = [kept EXCEPT ![m].whole = FALSE]
      <3>1. m \in 1 .. m /\ kept[m] \in Piece
        BY <1>5, <2>2
      <3>2. [kept[m] EXCEPT !.whole = FALSE] \in Piece
        BY <3>1 DEF Piece
      <3>3. tail' = [kept EXCEPT ![m] = [kept[m] EXCEPT !.whole = FALSE]]
        BY <2>2
      <3>4. tail' \in Seq(Piece)
        BY <1>5, <3>1, <3>2, <3>3
      <3>5. [kept[m] EXCEPT !.whole = FALSE].record = kept[m].record
        BY <3>1 DEF Piece
      <3> QED
        BY <1>5, <3>1, <3>3, <3>4, <3>5
    <2> QED
      BY <1>6, <2>1, <2>2
  <1>8. \A i \in 1 .. m : tail'[i].record = line[i].record /\ i \in DOMAIN line
    BY <1>5, <1>7
  <1> QED
    BY <1>2, <1>4, <1>7, <1>8

LEMMA LogTypeStep == LogTypeOK /\ Numbers /\ [LogNext]_logVars => LogTypeOK'
  <1> SUFFICES ASSUME LogTypeOK, Numbers, [LogNext]_logVars PROVE LogTypeOK'
    OBVIOUS
  <1> USE LogCounters DEF LogTypeOK
  <1>1. CASE Open
    <2>1. logUsed' \in [LogLimited -> Nat]
      BY <1>1, LogUsedGrows DEF Open
    <2>2. record' \in 0 .. LogBound.records
      BY <1>1 DEF Open, MayLog
    <2> QED
      BY <1>1, <2>1, <2>2 DEF Open
  <1>2. CASE WritePart
    BY <1>2, PartWritten DEF WritePart, PieceOf
  <1>3. CASE WriteRest
    BY <1>3, RestWritten DEF WriteRest, PieceOf
  <1>4. CASE Newline
    <2>1. record \in Records
      BY <1>4 DEF Newline, Records, Numbers
    <2> QED
      BY <1>4, <2>1 DEF Newline
  <1>5. CASE Interrupted
    <2>1. logUsed' \in [LogLimited -> Nat]
      BY <1>5, LogUsedGrows DEF Interrupted
    <2> QED
      BY <1>5, <2>1 DEF Interrupted
  <1>6. CASE CutLog
    <2>1. logUsed' \in [LogLimited -> Nat]
      BY <1>6, LogUsedGrows DEF CutLog
    <2>2. lines' \in Seq(Seq(Piece)) /\ tail' \in Seq(Piece)
      BY <1>6, CutLeaves
    <2> QED
      BY <1>6, <2>1, <2>2 DEF CutLog
  <1>7. CASE UNCHANGED logVars
    BY <1>7 DEF logVars
  <1> QED
    BY <1>1, <1>2, <1>3, <1>4, <1>5, <1>6, <1>7 DEF LogNext

LEMMA NumbersStep == LogTypeOK /\ Numbers /\ [LogNext]_logVars => Numbers'
  <1> SUFFICES ASSUME LogTypeOK, Numbers, [LogNext]_logVars PROVE Numbers'
    OBVIOUS
  <1>1. CASE Open
    <2>1. /\ lines' = lines /\ tail' = tail /\ appended' = appended
          /\ record' = logUsed.records + 1 /\ logUsed'.records = logUsed.records + 1
          /\ logUsed.records \in Nat
      BY <1>1, LogUsedGrows, LogCounters DEF Open, LogTypeOK
    <2>2. ASSUME NEW line \in Lines, NEW i \in DOMAIN line
          PROVE  line[i].record <= logUsed'.records /\ line[i].record # record'
      <3>1. line[i].record <= logUsed.records /\ line[i].record \in Nat
        BY LineTypes DEF Numbers, Records
      <3> QED
        BY <2>1, <3>1
    <2>3. ASSUME NEW r \in appended PROVE r <= logUsed'.records /\ r # record'
      <3>1. r <= logUsed.records /\ r \in Nat
        BY DEF Numbers, LogTypeOK, Records
      <3> QED
        BY <2>1, <3>1
    <2>4. Lines' = Lines
      BY <2>1 DEF Lines
    <2>5. /\ \A i \in DOMAIN lines : ~In(record', lines[i])
          /\ \A i \in DOMAIN tail : tail[i].record # record'
      BY <2>2 DEF Lines, In
    <2>6. /\ \A i \in DOMAIN lines' : ~In(record, lines[i])'
          /\ \A i \in DOMAIN tail' : tail'[i].record # record'
      BY <2>1, <2>5 DEF In
    <2>7. record' = logUsed'.records /\ record' # 0 /\ record' \notin appended'
      BY <2>1, <2>3
    <2> QED
      BY <2>1, <2>2, <2>3, <2>4, <2>6, <2>7 DEF Numbers
  <1>2. CASE WritePart
    <2>1. /\ lines' = lines /\ appended' = appended /\ record' = record /\ logUsed' = logUsed
          /\ writer = "opened" /\ writer' = "writing"
      BY <1>2 DEF WritePart
    <2>2. /\ record = logUsed.records /\ record # 0 /\ record \notin appended
          /\ \A i \in DOMAIN lines : ~In(record, lines[i])
          /\ \A i \in DOMAIN tail : tail[i].record # record
      BY <2>1 DEF Numbers, Appending
    <2>3. ASSUME NEW i \in DOMAIN tail'
          PROVE  /\ tail'[i].record <= logUsed.records
                 /\ tail'[i].record = record => i = Len(tail')
      <3>1. i = Len(tail) + 1 \/ i \in DOMAIN tail
        BY <1>2, PartWritten
      <3>2. CASE i = Len(tail) + 1
        BY <1>2, <2>2, <3>2, PartWritten, LogCounters
      <3>3. CASE i \in DOMAIN tail
        <4>1. tail'[i] = tail[i] /\ tail[i].record <= logUsed.records
          BY <1>2, <3>3, PartWritten DEF Numbers, Lines
        <4> QED
          BY <2>2, <3>3, <4>1
      <3> QED
        BY <3>1, <3>2, <3>3
    <2>4. \A line \in Lines' : line \in Lines \/ line = tail'
      BY <2>1 DEF Lines
    <2>5. \A line \in Lines' : \A i \in DOMAIN line : line[i].record <= logUsed'.records
      BY <2>1, <2>3, <2>4 DEF Numbers
    <2>6. \A i \in DOMAIN lines' : ~In(record, lines[i])'
      BY <2>1, <2>2 DEF In
    <2>7. \A r \in appended' : r <= logUsed'.records
      BY <2>1 DEF Numbers
    <2> QED
      BY <2>1, <2>2, <2>3, <2>5, <2>6, <2>7 DEF Numbers, Appending
  <1>3. CASE WriteRest
    <2>1. /\ lines' = lines /\ appended' = appended /\ record' = record /\ logUsed' = logUsed
          /\ writer = "writing" /\ writer' = "written"
      BY <1>3 DEF WriteRest
    <2>2. /\ record = logUsed.records /\ record # 0 /\ record \notin appended
          /\ \A i \in DOMAIN lines : ~In(record, lines[i])
          /\ \A i \in DOMAIN tail : tail[i].record = record => i = Len(tail)
      BY <2>1 DEF Numbers
    <2>3. ASSUME NEW i \in DOMAIN tail'
          PROVE  /\ tail'[i].record <= logUsed.records
                 /\ tail'[i].record = record => i = Len(tail')
      <3>1. i \in DOMAIN tail /\ tail'[i].record = tail[i].record /\ Len(tail') = Len(tail)
        BY <1>3, RestWritten
      <3>2. tail[i].record <= logUsed.records
        BY <3>1 DEF Numbers, Lines
      <3> QED
        BY <2>2, <3>1, <3>2
    <2>4. \A line \in Lines' : line \in Lines \/ line = tail'
      BY <2>1 DEF Lines
    <2>5. \A line \in Lines' : \A i \in DOMAIN line : line[i].record <= logUsed'.records
      BY <2>1, <2>3, <2>4 DEF Numbers
    <2>6. \A i \in DOMAIN lines' : ~In(record, lines[i])'
      BY <2>1, <2>2 DEF In
    <2>7. \A r \in appended' : r <= logUsed'.records
      BY <2>1 DEF Numbers
    <2> QED
      BY <2>1, <2>2, <2>3, <2>5, <2>6, <2>7 DEF Numbers, Appending
  <1>4. ASSUME writer' = "idle", logUsed'.records = logUsed.records,
               \A r \in appended' : r \in appended \/ r = logUsed.records,
               \A line \in Lines' : \A i \in DOMAIN line :
                  \E old \in Lines : i \in DOMAIN old /\ line[i].record = old[i].record
        PROVE  Numbers'
    <2>1. \A line \in Lines' : \A i \in DOMAIN line : line[i].record <= logUsed'.records
      BY <1>4 DEF Numbers
    <2>2. \A r \in appended' : r <= logUsed'.records
      BY <1>4, LogCounters DEF Numbers
    <2> QED
      BY <1>4, <2>1, <2>2 DEF Numbers
  <1>5. CASE Newline
    <2>1. /\ lines' = Append(lines, tail) /\ tail' = <<>> /\ appended' = appended \cup {record}
          /\ writer' = "idle" /\ logUsed' = logUsed /\ record = logUsed.records
      BY <1>5 DEF Newline, Numbers
    <2>2. \A line \in Lines' : line \in Lines \/ DOMAIN line = {}
      BY <2>1 DEF Lines, LogTypeOK
    <2> QED
      BY <1>4, <2>1, <2>2
  <1>6. CASE Interrupted
    <2>1. /\ lines' = lines /\ tail' = tail /\ appended' = appended /\ writer' = "idle"
          /\ logUsed'.records = logUsed.records
      BY <1>6, LogUsedGrows, LogCounters DEF Interrupted, LogTypeOK
    <2>2. Lines' = Lines
      BY <2>1 DEF Lines
    <2> QED
      BY <1>4, <2>1, <2>2
  <1>7. CASE CutLog
    <2>1. appended' = appended /\ writer' = "idle" /\ logUsed'.records = logUsed.records
      BY <1>7, LogUsedGrows, LogCounters DEF CutLog, LogTypeOK
    <2>2. PICK was \in Lines : \E m \in 0 .. Len(was) :
            /\ \A i \in DOMAIN lines' : i \in DOMAIN lines /\ lines'[i] = lines[i]
            /\ DOMAIN tail' = 1 .. m
            /\ \A i \in 1 .. m : tail'[i].record = was[i].record /\ i \in DOMAIN was
      BY <1>7, CutLeaves
    <2>3. \A line \in Lines' : line \in Lines \/ line = tail'
      BY <2>2 DEF Lines
    <2>4. \A i \in DOMAIN tail' : i \in DOMAIN was /\ tail'[i].record = was[i].record
      BY <2>2
    <2>5. \A line \in Lines' : \A i \in DOMAIN line :
             \E old \in Lines : i \in DOMAIN old /\ line[i].record = old[i].record
      BY <2>3, <2>4
    <2> QED
      BY <1>4, <2>1, <2>5
  <1>8. CASE UNCHANGED logVars
    BY <1>8 DEF logVars, Numbers, Lines, In, Appending
  <1> QED
    BY <1>1, <1>2, <1>3, <1>5, <1>6, <1>7, <1>8 DEF LogNext

LEMMA SpoiledIs ==
  /\ \A r : r \in Spoiled
            <=> r \in appended /\ \E line \in Lines : In(r, line) /\ ~Readable(line)
  /\ \A r : r \in Spoiled'
            <=> r \in appended' /\ \E line \in Lines' : In(r, line) /\ ~Readable(line)
  BY DEF Spoiled, Lines

LEMMA SpoiledFinite ==
  ASSUME LogTypeOK
  PROVE  IsFiniteSet(Spoiled) /\ Cardinality(Spoiled) \in Nat
  <1>1. IsFiniteSet(1 .. LogBound.records)
    <2>1. 1 \in Int /\ LogBound.records \in Int
      BY LogCounters
    <2> QED
      BY <2>1, FS_Interval
  <1>2. Spoiled \subseteq Records
    BY SpoiledIs DEF LogTypeOK
  <1> QED
    BY <1>1, <1>2, FS_Subset, FS_CardinalityType DEF Records

LEMMA OneMore ==
  ASSUME NEW S, IsFiniteSet(S), NEW T, NEW x, T \subseteq S \cup {x}
  PROVE  /\ Cardinality(T) \in Nat /\ Cardinality(S) \in Nat
         /\ Cardinality(T) <= Cardinality(S) + 1
         /\ T \subseteq S => Cardinality(T) <= Cardinality(S)
  <1>1. IsFiniteSet(S \cup {x}) /\ Cardinality(S) \in Nat
        /\ Cardinality(S \cup {x}) <= Cardinality(S) + 1
    <2>1. Cardinality(S) \in Nat
      BY FS_CardinalityType
    <2>2. /\ IsFiniteSet(S \cup {x})
          /\ Cardinality(S \cup {x}) = IF x \in S THEN Cardinality(S) ELSE Cardinality(S) + 1
      BY FS_AddElement
    <2> QED
      BY <2>1, <2>2
  <1>2. Cardinality(T) <= Cardinality(S \cup {x}) /\ IsFiniteSet(T)
    BY <1>1, FS_Subset
  <1>3. Cardinality(T) \in Nat /\ Cardinality(S \cup {x}) \in Nat
    BY <1>1, <1>2, FS_CardinalityType
  <1>4. T \subseteq S => Cardinality(T) <= Cardinality(S)
    BY FS_Subset
  <1> QED
    BY <1>1, <1>2, <1>3, <1>4

LEMMA Flags ==
  /\ Torn \in Nat /\ Cut \in Nat /\ Torn' \in Nat /\ Cut' \in Nat
  /\ Torn <= 1 /\ Cut <= 1 /\ Torn' <= 1 /\ Cut' <= 1
  BY DEF Torn, Cut

\* A step by which at most one record is spoiled that was not.
Spoils == IF Spoiled' \subseteq Spoiled THEN 0 ELSE 1

LEMMA BudgetKept ==
  ASSUME LogTypeOK, LogTypeOK', Budget, NEW x, Spoiled' \subseteq Spoiled \cup {x}, NEW k \in Nat,
         Spoils + Torn' + Cut' <= Torn + Cut + k,
         logUsed'.interruptions + 2 * logUsed'.cuts
            = logUsed.interruptions + 2 * logUsed.cuts + k
  PROVE  Budget'
  <1> DEFINE now == Cardinality(Spoiled)
             next == Cardinality(Spoiled')
  <1>1. now \in Nat /\ next \in Nat /\ next <= now + Spoils /\ Spoils \in {0, 1}
    <2>1. IsFiniteSet(Spoiled)
      BY SpoiledFinite
    <2>2. /\ now \in Nat /\ next \in Nat /\ next <= now + 1
          /\ Spoiled' \subseteq Spoiled => next <= now
      BY <2>1, OneMore
    <2> HIDE DEF now, next
    <2>3. CASE Spoiled' \subseteq Spoiled
      BY <2>2, <2>3 DEF Spoils
    <2>4. CASE ~(Spoiled' \subseteq Spoiled)
      BY <2>2, <2>4 DEF Spoils
    <2> QED
      BY <2>3, <2>4
  <1>2. now + Torn + Cut <= logUsed.interruptions + 2 * logUsed.cuts
    BY DEF Budget
  <1> HIDE DEF now, next
  <1>3. Torn \in Nat /\ Cut \in Nat
    BY Flags
  <1>4. /\ logUsed.interruptions \in Nat /\ logUsed.cuts \in Nat
        /\ logUsed'.interruptions \in Nat /\ logUsed'.cuts \in Nat
    BY LogCounters DEF LogTypeOK
  <1>5. next + Torn' + Cut' <= logUsed'.interruptions + 2 * logUsed'.cuts
    <2>1. PICK torn, lost \in Nat : torn = Torn' /\ lost = Cut'
      BY Flags
    <2>2. PICK spoils \in Nat : spoils = Spoils
      BY <1>1
    <2>3. PICK bound \in Nat : bound = logUsed.interruptions + 2 * logUsed.cuts
      BY <1>4
    <2>4. /\ next <= now + spoils /\ spoils + torn + lost <= Torn + Cut + k
          /\ now + Torn + Cut <= bound
      BY <1>1, <1>2, <2>1, <2>2, <2>3
    <2>5. next + torn + lost <= bound + k
      BY <1>1, <1>3, <2>4
    <2> QED
      BY <2>1, <2>3, <2>5
  <1> QED
    BY <1>5 DEF Budget, next

LEMMA BudgetStep ==
  LogTypeOK /\ LogTypeOK' /\ Numbers /\ Budget /\ [LogNext]_logVars => Budget'
  <1> SUFFICES ASSUME LogTypeOK, LogTypeOK', Numbers, Budget, [LogNext]_logVars PROVE Budget'
    OBVIOUS
  <1>1. CASE Open \/ Interrupted \/ UNCHANGED logVars
    <2>1. lines' = lines /\ tail' = tail /\ appended' = appended
      BY <1>1 DEF Open, Interrupted, logVars
    <2>2. Spoiled' = Spoiled /\ Cut' = Cut
      BY <2>1 DEF Spoiled, Cut
    <2>3. CASE Open \/ UNCHANGED logVars
      <3>1. Torn' = Torn
        BY <2>1, <2>3 DEF Open, logVars, Torn, Appending
      <3>2. logUsed'.interruptions = logUsed.interruptions /\ logUsed'.cuts = logUsed.cuts
        BY <2>3, LogUsedGrows, LogCounters DEF Open, logVars, LogTypeOK
      <3> QED
        BY <2>2, <3>1, <3>2 DEF Budget
    <2>4. CASE Interrupted
      <3>1. /\ logUsed'.interruptions = logUsed.interruptions + 1
            /\ logUsed'.cuts = logUsed.cuts
        BY <2>4, LogUsedGrows, LogCounters DEF Interrupted, LogTypeOK
      <3>2. Spoils = 0 /\ Cut' = Cut
        BY <2>2 DEF Spoils
      <3>3. Spoils + Torn' + Cut' <= Torn + Cut + 1
        <4>1. PICK after, torn, lost \in Nat :
                 after = Torn' /\ after <= 1 /\ torn = Torn /\ lost = Cut
          BY Flags
        <4>2. after <= 1
          BY <4>1
        <4>3. 0 + after + lost <= torn + lost + 1
          BY <4>2
        <4> QED
          BY <3>2, <4>1, <4>3
      <3>4. logUsed'.interruptions + 2 * logUsed'.cuts
               = logUsed.interruptions + 2 * logUsed.cuts + 1
        BY <3>1, LogCounters
      <3>5. Spoiled' \subseteq Spoiled \cup {0}
        BY <2>2
      <3> QED
        BY <3>3, <3>4, <3>5, BudgetKept
    <2> QED
      BY <1>1, <2>3, <2>4
  <1>2. CASE WritePart
    <2>1. /\ lines' = lines /\ appended' = appended /\ logUsed' = logUsed
          /\ writer = "opened" /\ writer' = "writing" /\ record \notin appended
      BY <1>2 DEF WritePart, Numbers
    <2>2. \A line \in Lines' : line \in Lines \/ line = tail'
      BY <2>1 DEF Lines
    <2>3. Torn' = Torn
      BY <1>2, <2>1, PartWritten DEF Torn, Appending
    <2>4. Cut' = 0
      <3>1. Len(tail') = 1 => tail'[1].whole = FALSE
        BY <1>2, PartWritten
      <3> QED
        BY <3>1 DEF Cut
    <2>5. ASSUME NEW r \in Spoiled', r \notin Spoiled PROVE Cut = 1 /\ r = tail[1].record
      <3>1. r \in appended /\ In(r, tail')
        BY <2>1, <2>2, <2>5, SpoiledIs
      <3>2. PICK i \in DOMAIN tail' : tail'[i].record = r
        BY <3>1 DEF In
      <3>3. i \in DOMAIN tail /\ tail[i].record = r
        BY <1>2, <2>1, <3>1, <3>2, PartWritten
      <3>4. In(r, tail) /\ tail \in Lines
        BY <3>3 DEF In, Lines
      <3>5. Readable(tail)
        BY <2>5, <3>1, <3>4, SpoiledIs
      <3>6. i = 1
        BY <1>2, <3>3, <3>5, PartWritten DEF Readable
      <3> QED
        BY <3>1, <3>3, <3>5, <3>6 DEF Cut, Readable
    <2>6. Spoiled' \subseteq Spoiled \cup {tail[1].record}
      BY <2>5
    <2>7. Spoils + Torn' + Cut' <= Torn + Cut + 0
      <3>1. Spoils = 0 \/ (Spoils = 1 /\ Cut = 1)
        BY <2>5 DEF Spoils
      <3> QED
        BY <2>3, <2>4, <3>1, Flags
    <2>8. logUsed'.interruptions + 2 * logUsed'.cuts
             = logUsed.interruptions + 2 * logUsed.cuts + 0
      BY <2>1, LogCounters
    <2> QED
      BY <2>6, <2>7, <2>8, BudgetKept
  <1>3. CASE WriteRest
    <2>1. /\ lines' = lines /\ appended' = appended /\ logUsed' = logUsed
          /\ writer = "writing" /\ writer' = "written" /\ record \notin appended
      BY <1>3 DEF WriteRest, Numbers
    <2>2. \A line \in Lines' : line \in Lines \/ line = tail'
      BY <2>1 DEF Lines
    <2>3. Torn' = Torn
      BY <1>3, <2>1, RestWritten DEF Torn, Appending
    <2>4. Cut' = 0
      <3>1. Len(tail') = 1 => tail'[1].record \notin appended'
        BY <1>3, <2>1, RestWritten
      <3> QED
        BY <3>1 DEF Cut
    <2>5. ASSUME NEW r \in Spoiled', r \notin Spoiled PROVE FALSE
      <3>1. r \in appended /\ In(r, tail')
        BY <2>1, <2>2, <2>5, SpoiledIs
      <3>2. PICK i \in DOMAIN tail' : tail'[i].record = r
        BY <3>1 DEF In
      <3>3. i \in DOMAIN tail /\ tail[i].record = r /\ i # Len(tail)
        BY <1>3, <2>1, <3>1, <3>2, RestWritten
      <3>4. In(r, tail) /\ tail \in Lines
        BY <3>3 DEF In, Lines
      <3>5. Len(tail) # 1
        <4>1. DOMAIN tail = 1 .. Len(tail)
          BY <3>4, LineTypes
        <4> QED
          BY <3>3, <4>1
      <3> QED
        BY <2>5, <3>1, <3>4, <3>5, SpoiledIs DEF Readable
    <2>6. Spoiled' \subseteq Spoiled \cup {0}
      BY <2>5
    <2>7. Spoils + Torn' + Cut' <= Torn + Cut + 0
      <3>1. Spoils = 0
        BY <2>5 DEF Spoils
      <3> QED
        BY <2>3, <2>4, <3>1, Flags
    <2>8. logUsed'.interruptions + 2 * logUsed'.cuts
             = logUsed.interruptions + 2 * logUsed.cuts + 0
      BY <2>1, LogCounters
    <2> QED
      BY <2>6, <2>7, <2>8, BudgetKept
  <1>4. CASE Newline
    <2>1. /\ lines' = Append(lines, tail) /\ tail' = <<>> /\ appended' = appended \cup {record}
          /\ logUsed' = logUsed /\ writer = "written" /\ writer' = "idle"
          /\ \A i \in DOMAIN lines : ~In(record, lines[i])
      BY <1>4 DEF Newline, Numbers
    <2>2. \A line \in Lines' : line \in Lines \/ DOMAIN line = {}
      BY <2>1 DEF Lines, LogTypeOK
    <2>3. Torn' = 0 /\ Cut' = 0
      BY <2>1 DEF Torn, Cut
    <2>4. ASSUME NEW r \in Spoiled', r \notin Spoiled PROVE r = record /\ Torn = 1
      <3>1. PICK line \in Lines : r \in appended' /\ In(r, line) /\ ~Readable(line)
        BY <2>2, <2>4, SpoiledIs DEF In
      <3>2. r = record
        BY <2>1, <2>4, <3>1, SpoiledIs
      <3>3. line = tail
        BY <2>1, <3>1, <3>2 DEF Lines
      <3>4. tail[Len(tail)].whole = TRUE /\ Len(tail) \in Nat \ {0}
        BY <2>1, WrittenWhole
      <3>5. Len(tail) # 1
        BY <3>1, <3>3, <3>4 DEF Readable
      <3>6. Len(tail) > 1
        <4>1. PICK n \in Nat : n = Len(tail) /\ n # 0
          BY <3>4
        <4>2. n > 1
          BY <3>5, <4>1
        <4> QED
          BY <4>1, <4>2
      <3> QED
        BY <2>1, <3>2, <3>6 DEF Torn, Appending
    <2>5. Spoiled' \subseteq Spoiled \cup {record}
      BY <2>4
    <2>6. Spoils + Torn' + Cut' <= Torn + Cut + 0
      <3>1. Spoils = 0 \/ (Spoils = 1 /\ Torn = 1)
        BY <2>4 DEF Spoils
      <3> QED
        BY <2>3, <3>1, Flags
    <2>7. logUsed'.interruptions + 2 * logUsed'.cuts
             = logUsed.interruptions + 2 * logUsed.cuts + 0
      BY <2>1, LogCounters
    <2> QED
      BY <2>5, <2>6, <2>7, BudgetKept
  <1>5. CASE CutLog
    <2>1. PICK old \in Lines : \E m \in 0 .. Len(old) :
            /\ tail' \in Seq(Piece)
            /\ \A i \in DOMAIN lines' : i \in DOMAIN lines /\ lines'[i] = lines[i]
            /\ Len(tail') = m /\ DOMAIN tail' = 1 .. m
            /\ \A i \in 1 .. m : tail'[i].record = old[i].record /\ i \in DOMAIN old
      BY <1>5, CutLeaves
    <2>2. /\ Len(tail') \in Nat /\ Len(tail') <= Len(old) /\ DOMAIN tail' = 1 .. Len(tail')
          /\ \A i \in DOMAIN tail' : tail'[i].record = old[i].record /\ i \in DOMAIN old
          /\ Len(old) \in Nat
      BY <2>1, LineTypes
    <2>3. \A line \in Lines' : line \in Lines \/ line = tail'
      BY <2>1 DEF Lines
    <2>4. appended' = appended /\ logUsed'.interruptions = logUsed.interruptions
          /\ logUsed'.cuts = logUsed.cuts + 1
      BY <1>5, LogUsedGrows, LogCounters DEF CutLog, LogTypeOK
    <2>5. ASSUME NEW r \in Spoiled', r \notin Spoiled PROVE r = old[1].record /\ Cut' = 0
      <3>1. r \in appended /\ In(r, tail') /\ ~Readable(tail')
        BY <2>3, <2>4, <2>5, SpoiledIs
      <3>2. PICK i \in DOMAIN tail' : tail'[i].record = r
        BY <3>1 DEF In
      <3>3. In(r, old)
        BY <2>2, <3>2 DEF In
      <3>4. Readable(old)
        BY <2>5, <3>1, <3>3, SpoiledIs
      <3>5. i = 1 /\ Len(tail') = 1
        BY <2>2, <3>2, <3>4 DEF Readable
      <3>6. Cut' = 0
        BY <3>1, <3>5 DEF Readable, Cut
      <3> QED
        BY <2>2, <3>2, <3>5, <3>6
    <2>6. Spoiled' \subseteq Spoiled \cup {old[1].record}
      BY <2>5
    <2>7. Spoils + Torn' + Cut' <= Torn + Cut + 2
      <3>1. Spoils = 0 \/ (Spoils = 1 /\ Cut' = 0)
        BY <2>5 DEF Spoils
      <3> QED
        BY <3>1, Flags
    <2>8. logUsed'.interruptions + 2 * logUsed'.cuts
             = logUsed.interruptions + 2 * logUsed.cuts + 2
      BY <2>4, LogCounters
    <2> QED
      BY <2>6, <2>7, <2>8, BudgetKept
  <1> QED
    BY <1>1, <1>2, <1>3, <1>4, <1>5 DEF LogNext

LEMMA LogInvInit == LogInit => LogInv
  <1> SUFFICES ASSUME LogInit PROVE LogInv
    OBVIOUS
  <1>1. LogTypeOK
    BY RecordLogAssumption DEF LogInit, LogTypeOK, LogLimited
  <1>2. Numbers
    BY DEF LogInit, Numbers, Lines
  <1>3. Spoiled = {}
    BY DEF LogInit, Spoiled
  <1>4. Torn = 0 /\ Cut = 0
    BY DEF LogInit, Torn, Cut, Appending
  <1>5. Budget
    BY <1>1, <1>3, <1>4, FS_EmptySet, LogCounters DEF Budget
  <1> QED
    BY <1>1, <1>2, <1>5 DEF LogInv

LEMMA LogInvStep == LogInv /\ [LogNext]_logVars => LogInv'
  BY LogTypeStep, NumbersStep, BudgetStep DEF LogInv

LEMMA LogInvariant == LogSpec => []LogInv
  BY LogInvInit, LogInvStep, PTL DEF LogSpec

LEMMA SpoiledBound == LogInv => OneSpoiledPerInterruption
  <1> SUFFICES ASSUME LogInv PROVE OneSpoiledPerInterruption
    OBVIOUS
  <1> QED
    BY SpoiledFinite, Flags, LogCounters DEF LogInv, Budget, OneSpoiledPerInterruption

\* failures.jsonl, overruns.jsonl: of the records whose append returned without an error,
\* an interrupted append spoils one at most, a power cut two.
THEOREM FewSpoiled == LogSpec => []OneSpoiledPerInterruption
  BY LogInvariant, SpoiledBound, PTL

\* The lines of a log keep their type.
THEOREM LogTypeCorrect == LogSpec => []LogTypeOK
  <1>1. LogInv => LogTypeOK
    BY DEF LogInv
  <1> QED
    BY LogInvariant, <1>1, PTL
-----------------------------------------------------------------------------
(* The two together.                                                       *)

Logged(r) == InLog(r) \/ r \in unlogged

\* The record of every verdict, and of the tap whose append is done, is logged.
RecordInv ==
    /\ due \in {0} \cup Records /\ recordOf \in [Sessions -> {0} \cup Records]
    /\ used.cuts = 0 => \A r \in Records :
          /\ \A s \in Sessions : recordOf[s] = r => Logged(r)
          /\ due = r => IF writer = "idle" THEN Logged(r) ELSE record = r

PersistenceInv == IInv /\ LogInv /\ RecordInv

\* Each step of the composition is a step of each part, or leaves it alone.
LEMMA Parts ==
  [PersistenceNext]_<<vars, logVars, tap>> => [Next]_vars /\ [LogNext]_logVars
  <1> SUFFICES ASSUME [PersistenceNext]_<<vars, logVars, tap>>
               PROVE  [Next]_vars /\ [LogNext]_logVars
    OBVIOUS
  <1>1. CASE OpenLog \/ WriteLog \/ AppendFails
    BY <1>1 DEF OpenLog, WriteLog, AppendFails, LogNext
  <1>2. CASE SaveVerdict \/ SaveStep \/ LoadStep
    BY <1>2 DEF SaveVerdict, SaveStep, LoadStep, Next
  <1>3. CASE KillProcess
    BY <1>3 DEF KillProcess, Next, LogNext
  <1>4. CASE CutPower
    BY <1>4 DEF CutPower, Next, LogNext
  <1>5. CASE UNCHANGED <<vars, logVars, tap>>
    BY <1>5
  <1> QED
    BY <1>1, <1>2, <1>3, <1>4, <1>5 DEF PersistenceNext

\* Steps of an append take nothing out of the log.
LEMMA LogGrows ==
  ASSUME LogTypeOK, Numbers, OpenLog \/ WriteLog \/ AppendFails, NEW r, InLog(r)
  PROVE  InLog(r)'
  <1>1. PICK line \in Lines : \E i \in DOMAIN line : line[i].record = r /\ line[i].whole
    BY DEF InLog, Lines
  <1>2. PICK i \in DOMAIN line : line[i].record = r /\ line[i].whole
    BY <1>1
  <1>3. \E l \in Lines' : i \in DOMAIN l /\ l[i].record = r /\ l[i].whole
    <2>1. CASE lines' = lines /\ tail' = tail
      BY <1>2, <2>1 DEF Lines
    <2>2. CASE WritePart
      BY <1>2, <2>2, PartWritten DEF Lines, WritePart
    <2>3. CASE WriteRest
      <3>1. CASE line = tail
        <4>1. i \in DOMAIN tail' /\ tail'[i].record = r /\ tail'[i].whole
          BY <1>2, <2>3, <3>1, RestWritten
        <4> QED
          BY <4>1 DEF Lines
      <3>2. CASE line # tail
        BY <1>2, <2>3, <3>2 DEF Lines, WriteRest
      <3> QED
        BY <3>1, <3>2
    <2>4. CASE Newline
      <3>1. lines' = Append(lines, tail) /\ lines \in Seq(Seq(Piece)) /\ tail \in Seq(Piece)
        BY <2>4 DEF Newline, LogTypeOK
      <3>2. line \in {lines'[j] : j \in DOMAIN lines'}
        <4>1. /\ DOMAIN lines' = 1 .. Len(lines) + 1 /\ lines'[Len(lines) + 1] = tail
              /\ \A j \in 1 .. Len(lines) : lines'[j] = lines[j]
              /\ DOMAIN lines = 1 .. Len(lines) /\ Len(lines) \in Nat
          BY <3>1, Appended
        <4>2. \A j \in DOMAIN lines : j \in DOMAIN lines' /\ lines'[j] = lines[j]
          BY <4>1
        <4>3. Len(lines) + 1 \in DOMAIN lines'
          BY <4>1
        <4> QED
          BY <4>1, <4>2, <4>3 DEF Lines
      <3> QED
        BY <1>2, <3>2 DEF Lines
    <2> QED
      BY <2>1, <2>2, <2>3, <2>4 DEF OpenLog, Open, WriteLog, AppendFails, Interrupted
  <1> QED
    BY <1>3 DEF InLog, Lines

\* A record whose newline is written is in the log.
LEMMA NewlineLogs ==
  ASSUME LogTypeOK, Newline, NEW r, r = record
  PROVE  InLog(r)'
  <1>2. Len(tail) \in DOMAIN tail /\ tail[Len(tail)].record = record /\ tail[Len(tail)].whole
    BY WrittenWhole DEF Newline
  <1>3. tail \in {lines'[i] : i \in DOMAIN lines'}
    <2>1. lines' = Append(lines, tail) /\ lines \in Seq(Seq(Piece)) /\ tail \in Seq(Piece)
      BY DEF Newline, LogTypeOK
    <2>2. Len(lines) + 1 \in DOMAIN lines' /\ lines'[Len(lines) + 1] = tail
      BY <2>1
    <2> QED
      BY <2>2
  <1> QED
    BY <1>2, <1>3 DEF InLog

LEMMA RecordStep ==
  PersistenceInv /\ [PersistenceNext]_<<vars, logVars, tap>> => RecordInv'
  <1> SUFFICES ASSUME PersistenceInv, [PersistenceNext]_<<vars, logVars, tap>>
               PROVE  RecordInv'
    OBVIOUS
  <1> USE DEF PersistenceInv, LogInv
  <1>0. LogTypeOK' /\ used \in [Limited -> Nat]
    BY Parts, LogTypeStep DEF IInv, TypeOK
  <1>2. CASE OpenLog \/ WriteLog \/ AppendFails
    <2>1. recordOf' = recordOf /\ used' = used /\ unlogged \subseteq unlogged'
      BY <1>2 DEF OpenLog, WriteLog, AppendFails, tap, vars
    <2>2. \A r : Logged(r) => Logged(r)'
      BY <1>2, <2>1, LogGrows DEF Logged
    <2>3. due' \in {0} \cup Records
      BY <1>0, <1>2 DEF OpenLog, Open, WriteLog, AppendFails, tap, RecordInv, LogTypeOK, Records
    <2>4. ASSUME used.cuts = 0, NEW r \in Records, due' = r
          PROVE  IF writer' = "idle" THEN Logged(r)' ELSE record' = r
      <3>1. CASE OpenLog
        BY <2>4, <3>1 DEF OpenLog, Open
      <3>2. CASE WriteLog /\ ~Newline
        BY <2>4, <3>2 DEF WriteLog, WritePart, WriteRest, tap, RecordInv
      <3>3. CASE WriteLog /\ Newline
        <4>1. due = r /\ writer = "written" /\ writer' = "idle"
          BY <2>4, <3>3 DEF WriteLog, tap, Newline
        <4>2. record = r
          BY <2>4, <4>1 DEF RecordInv
        <4>3. InLog(r)'
          BY <3>3, <4>2, NewlineLogs
        <4> QED
          BY <4>1, <4>3 DEF Logged
      <3>4. CASE AppendFails
        <4>1. /\ due = r /\ writer # "idle" /\ writer' = "idle"
              /\ unlogged' = unlogged \cup {record}
          BY <2>4, <3>4 DEF AppendFails, Interrupted
        <4>2. r \in unlogged'
          BY <2>4, <4>1 DEF RecordInv
        <4> QED
          BY <4>1, <4>2 DEF Logged
      <3> QED
        BY <1>2, <3>1, <3>2, <3>3, <3>4
    <2> QED
      BY <2>1, <2>2, <2>3, <2>4 DEF RecordInv
  <1>3. ASSUME lines' = lines, tail' = tail, unlogged' = unlogged,
               used'.cuts = 0 => used.cuts = 0,
               recordOf' = recordOf,
               due' = 0 \/ (due' = due /\ writer' = writer /\ record' = record)
        PROVE  RecordInv'
    <2>1. \A r : Logged(r) => Logged(r)'
      BY <1>3 DEF Logged, InLog
    <2> QED
      BY <1>3, <2>1 DEF RecordInv, Records
  <1>4. CASE SaveVerdict
    <2>1. /\ writer = "idle" /\ Save
          /\ UNCHANGED <<lines, tail, writer, record, unlogged>>
          /\ IF session' = session THEN UNCHANGED <<due, recordOf>>
             ELSE due' = 0 /\ recordOf' = [recordOf EXCEPT ![session'] = due]
      BY <1>4 DEF SaveVerdict, AppendDone, logVars
    <2>2. used'.cuts = used.cuts
      BY <1>0, <2>1, UsedGrows DEF Save, Limited
    <2>3. CASE session' = session
      BY <1>3, <2>1, <2>2, <2>3
    <2>4. CASE session' # session
      <3>1. \A r : Logged(r) => Logged(r)'
        BY <2>1 DEF Logged, InLog
      <3>2. due' = 0 /\ recordOf' = [recordOf EXCEPT ![session'] = due]
        BY <2>1, <2>4
      <3>3. recordOf' \in [Sessions -> {0} \cup Records]
        BY <3>2 DEF RecordInv
      <3>4. ASSUME used'.cuts = 0, NEW r \in Records, NEW s \in Sessions, recordOf'[s] = r
            PROVE  Logged(r)'
        <4>1. due = r \/ recordOf[s] = r
          BY <3>2, <3>4 DEF RecordInv
        <4>2. Logged(r)
          BY <2>1, <2>2, <3>4, <4>1 DEF RecordInv
        <4> QED
          BY <3>1, <4>2
      <3>5. \A r \in Records : due' # r
        BY <3>2 DEF Records
      <3> QED
        BY <3>2, <3>3, <3>4, <3>5 DEF RecordInv
    <2> QED
      BY <2>3, <2>4
  <1>5. CASE SaveStep \/ LoadStep
    <2>1. used'.cuts = used.cuts
      BY <1>0, <1>5, UsedGrows
      DEF SaveStep, LoadStep, CreateTemp, WriteAll, SyncAll, Rename, StepFails, Settle,
          Load, LoadUnreadable, Limited
    <2> QED
      BY <1>3, <1>5, <2>1 DEF SaveStep, LoadStep, logVars, tap
  <1>6. CASE KillProcess
    BY <1>3, <1>6 DEF KillProcess, Kill, Interrupted, logVars
  <1>7. CASE CutPower
    <2>1. used'.cuts # 0
      BY <1>0, <1>7, UsedGrows DEF CutPower, PowerCut, Limited
    <2> QED
      BY <1>7, <2>1 DEF CutPower, RecordInv
  <1>8. CASE UNCHANGED <<vars, logVars, tap>>
    BY <1>3, <1>8 DEF vars, logVars, tap
  <1> QED
    BY <1>2, <1>4, <1>5, <1>6, <1>7, <1>8 DEF PersistenceNext

LEMMA PersistenceInvariant == PersistenceSpec => []PersistenceInv
  <1>1. PersistenceInit => PersistenceInv
    <2> SUFFICES ASSUME PersistenceInit PROVE PersistenceInv
      OBVIOUS
    <2>1. IInv /\ LogInv
      BY InitIInv, LogInvInit DEF PersistenceInit
    <2>2. RecordInv
      BY DEF PersistenceInit, RecordInv, Records
    <2> QED
      BY <2>1, <2>2 DEF PersistenceInv
  <1>2. PersistenceInv /\ [PersistenceNext]_<<vars, logVars, tap>> => PersistenceInv'
    BY Parts, StepIInv, LogInvStep, RecordStep DEF PersistenceInv
  <1> QED
    BY <1>1, <1>2, PTL DEF PersistenceSpec

\* The session file and the record log are each used as its module says: everything proved
\* of them alone holds of the program that uses both.
THEOREM Composition == PersistenceSpec => Spec /\ LogSpec
  BY Parts, PTL DEF PersistenceSpec, PersistenceInit, Spec, LogSpec

\* A verdict that a restart finds has its record in the log, or the append of that record
\* returned an error: failures and overruns that count are accounted for, as long as the
\* power is not cut.
THEOREM VerdictsLogged == PersistenceSpec => []RecordedBeforeSaved
  <1>1. PersistenceInv => RecordedBeforeSaved
    <2> SUFFICES ASSUME PersistenceInv, used.cuts = 0,
                        NEW s \in 1 .. AtPath.session, recordOf[s] # 0
                 PROVE  InLog(recordOf[s]) \/ recordOf[s] \in unlogged
      BY DEF RecordedBeforeSaved
    <2>1. AtPath \in File
      BY DEF PersistenceInv, IInv, TypeOK, AtPath
    <2>2. s \in Sessions
      BY <2>1, SessionFileAssumption DEF File, Sessions, Fresh, Limited
    <2>3. recordOf[s] \in Records
      BY <2>2 DEF PersistenceInv, RecordInv
    <2> QED
      BY <2>2, <2>3 DEF PersistenceInv, RecordInv, Logged
  <1> QED
    BY PersistenceInvariant, <1>1, PTL

\* The two files together keep their types: only records that were opened end with an error.
THEOREM PersistenceTypeCorrect == PersistenceSpec => []PersistenceTypeOK
  <1> DEFINE Typed == unlogged \subseteq Records
  <1>1. PersistenceInit => Typed
    BY DEF PersistenceInit
  <1>2. PersistenceInv /\ Typed /\ [PersistenceNext]_<<vars, logVars, tap>> => Typed'
    <2> SUFFICES ASSUME PersistenceInv, Typed, [PersistenceNext]_<<vars, logVars, tap>>
                 PROVE  Typed'
      OBVIOUS
    <2>1. CASE AppendFails
      <3>1. writer # "idle" /\ unlogged' = unlogged \cup {record}
        BY <2>1 DEF AppendFails, Interrupted
      <3>2. record # 0 /\ record \in 0 .. LogBound.records /\ LogBound.records \in Nat
        BY <3>1, RecordLogAssumption DEF PersistenceInv, LogInv, Numbers, LogTypeOK, LogLimited
      <3>3. record \in Records
        BY <3>2 DEF Records
      <3> QED
        BY <3>1, <3>3
    <2>2. CASE ~AppendFails
      <3>1. unlogged' = unlogged
        BY <2>2 DEF PersistenceNext, OpenLog, WriteLog, SaveVerdict, SaveStep, LoadStep,
                    KillProcess, CutPower, tap
      <3> QED
        BY <3>1
    <2> QED
      BY <2>1, <2>2
  <1>3. PersistenceInv /\ Typed => PersistenceTypeOK
    BY DEF PersistenceInv, IInv, LogInv, RecordInv, PersistenceTypeOK
  <1> HIDE DEF Typed
  <1> QED
    BY <1>1, <1>2, <1>3, PersistenceInvariant, PTL DEF PersistenceSpec
=============================================================================
