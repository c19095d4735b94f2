-------------------------- MODULE StationPageProofs --------------------------
(***************************************************************************)
(* Proofs about StationPage for any bounds and any number of emissions:    *)
(* its types and the order of what a listener hears (PInv); that the       *)
(* screen implements SnapshotMirror (OInv); what a listener misses (MInv); *)
(* that the screen catches up with the core (CInv); and that the end of    *)
(* the shift is heard (EInv).  Each invariant is inductive with those      *)
(* before it.                                                              *)
(***************************************************************************)
EXTENDS StationPage, TLAPS

Handling == step \in {"refreshing", "pushing", "settling"}

\* A running handler has its payload; an end-shift one is the armed end's.
HasPayload ==
    /\ Handling => out \in Payload
    /\ Handling /\ out.kind = "end-shift" => ends.armed

\* An armed end still lacks an emission.
Unconfirmed == ends.armed => ends.emits < EndShiftEmitsToConfirm

\* Nothing is left of the last document when a new one boots.
Clean == phase # "booted" => heard = <<>> /\ replies = {} /\ answer = None

\* What the listener heard is not newer than what the adapter applied.
NotAheadOfView == \A i \in DOMAIN heard : heard[i] <= view.seq

\* What is posted to the page, or on its way back to it.
Sent(p) == p \in replies \/ \E i \in DOMAIN evals : p = evals[i]

\* That, the payload of a running handler and the answer kept for its caller.
Travelling(p) == (Handling /\ p = out) \/ (answer # None /\ p = answer) \/ Sent(p)

\* A payload that carries no snapshot says nothing of its revision.
Older(s, p) == s.seq < p.seq /\ p.rev # None => s.rev <= p.rev

\* Nothing is newer than the core, and a later payload has no older snapshot.
Numbered ==
    /\ cache.seq <= seq /\ cache.rev <= rev
    /\ baked.seq <= seq /\ baked.rev <= cache.rev
    /\ view.seq <= seq /\ view.rev <= cache.rev
    /\ \A p \in Payload : Travelling(p) =>
         /\ p.seq <= seq /\ (p.rev # None => p.rev <= rev)
         /\ Older(cache, p) /\ Older(baked, p) /\ Older(view, p)
    /\ \A p, q \in Payload : Travelling(p) /\ Travelling(q) /\ p.rev # None => Older(p, q)

\* A snapshot is in the boot cache before it is posted or returned.
Published ==
    \A p \in Payload :
      Travelling(p) /\ p.rev # None => p.rev <= cache.rev \/ (step = "refreshing" /\ p = out)

\* What is sent was committed before the payload that is not.
SentBefore == \A p \in Payload : step = "refreshing" /\ Sent(p) => p # out

PInv == /\ TypeOK /\ HasPayload /\ Unconfirmed /\ Clean
        /\ NotAheadOfView /\ HeardInOrder
OInv == Numbered /\ Published /\ SentBefore

LEMMA InitPInv == Init => PInv
<1> SUFFICES ASSUME Init PROVE PInv
  OBVIOUS
<1>1. ends \in [armed : BOOLEAN, spaced : BOOLEAN, emits : 0 .. EndShiftEmitsToConfirm,
                confirmed : BOOLEAN]
  BY PageAssumption DEF Init, NotEnding
<1>2. used \in [Limited -> Nat]
  BY DEF Init
<1>3. cache \in Stamp /\ baked \in Stamp /\ view \in Stamp
  BY DEF Init, Start, Stamp
<1>a. /\ seq \in Nat /\ rev \in Nat /\ out = None /\ answer = None
      /\ bootSeq \in Nat /\ overtaken \in Nat
      /\ evals \in Seq(Payload) /\ heard \in Seq(Nat)
  BY DEF Init
<1>b. replies \subseteq Payload /\ attaches \subseteq Nat /\ posted \subseteq Nat
  BY DEF Init
<1>c. /\ window \in BOOLEAN /\ owed \in BOOLEAN /\ subscribed \in BOOLEAN
      /\ endHeard \in BOOLEAN /\ endExposed \in BOOLEAN /\ unbaked \in BOOLEAN
  BY DEF Init
<1>d. step = "idle" /\ phase = "loading" /\ notice = "none"
  BY DEF Init
<1>4. TypeOK
  BY <1>1, <1>2, <1>3, <1>a, <1>b, <1>c, <1>d DEF TypeOK
<1> QED
  BY <1>4 DEF Init, PInv, HasPayload, Handling, Unconfirmed, NotEnding, Clean, NotAheadOfView,
              HeardInOrder

LEMMA InitOInv == Init => OInv
<1> SUFFICES ASSUME Init PROVE OInv
  OBVIOUS
<1>1. \A p \in Payload : ~Travelling(p) /\ ~Sent(p)
  BY DEF Init, Travelling, Sent, Handling
<1> QED BY <1>1 DEF Init, OInv, Numbered, Published, SentBefore, Start

\* StationState::payload.
LEMMA IssueType ==
  ASSUME TypeOK, NEW kind \in Kinds, Issue(kind)
  PROVE  /\ seq' = seq + 1 /\ seq' \in Nat
         /\ rev' \in {rev, rev + 1} /\ rev' \in Nat
         /\ out' \in Payload /\ out'.kind = kind /\ out'.seq = seq'
         /\ out'.rev # None => out'.rev = rev'
         /\ step' = "refreshing"
  BY PageAssumption DEF TypeOK, Issue, Payload, Kinds

LEMMA UseType ==
  ASSUME TypeOK, NEW what \in Limited \ {"all"}, Use(what)
  PROVE  used' \in [Limited -> Nat]
<1>1. "all" \in Limited
  BY DEF Limited
<1>2. used \in [Limited -> Nat]
  BY DEF TypeOK
<1>3. \A f \in [Limited -> Nat], k \in Limited, n \in Nat :
        [f EXCEPT ![k] = n] \in [Limited -> Nat]
  OBVIOUS
<1>4. used[what] + 1 \in Nat /\ used["all"] + 1 \in Nat
  BY <1>1, <1>2
<1>5. [used EXCEPT ![what] = used[what] + 1] \in [Limited -> Nat]
  BY <1>2, <1>3, <1>4
<1>6. used' = [[used EXCEPT ![what] = used[what] + 1] EXCEPT !["all"] = used["all"] + 1]
  BY DEF Use
<1> QED BY <1>1, <1>3, <1>4, <1>5, <1>6

\* What a sequence holds after a payload was taken from it, or added to it.
LEMMA TailHolds ==
  ASSUME NEW S, NEW s \in Seq(S), s # <<>>
  PROVE  /\ Tail(s) \in Seq(S) /\ Head(s) \in S
         /\ \E i \in DOMAIN s : Head(s) = s[i]
         /\ \A i \in DOMAIN Tail(s) : \E j \in DOMAIN s : Tail(s)[i] = s[j]
<1>1. Len(s) \in Nat \ {0} /\ DOMAIN s = 1 .. Len(s)
  OBVIOUS
<1>2. Tail(s) \in Seq(S) /\ Head(s) \in S /\ Head(s) = s[1] /\ Len(Tail(s)) = Len(s) - 1
  OBVIOUS
<1>3. DOMAIN Tail(s) = 1 .. Len(s) - 1
  BY <1>2
<1>4. \A i \in DOMAIN Tail(s) : i + 1 \in DOMAIN s /\ Tail(s)[i] = s[i + 1]
  BY <1>1, <1>2, <1>3
<1> QED BY <1>1, <1>2, <1>4

LEMMA AppendHolds ==
  ASSUME NEW S, NEW s \in Seq(S), NEW e \in S
  PROVE  /\ Append(s, e) \in Seq(S)
         /\ DOMAIN s = 1 .. Len(s) /\ Len(s) \in Nat
         /\ DOMAIN Append(s, e) = 1 .. Len(s) + 1
         /\ \A i \in 1 .. Len(s) : Append(s, e)[i] = s[i]
         /\ Append(s, e)[Len(s) + 1] = e
<1>1. Append(s, e) \in Seq(S) /\ Len(Append(s, e)) = Len(s) + 1 /\ Len(s) \in Nat
  OBVIOUS
<1>2. DOMAIN Append(s, e) = 1 .. Len(s) + 1
  BY <1>1
<1> QED BY <1>1, <1>2

\* The adapter goes forward only, so what the listener gets next is newer.
LEMMA ApplyInOrder ==
  ASSUME PInv, NEW p \in Payload, ApplyPush(p)
  PROVE  /\ view' \in Stamp
         /\ heard' \in Seq(Nat)
         /\ endHeard' \in BOOLEAN
         /\ NotAheadOfView' /\ HeardInOrder'
<1>0. /\ view \in Stamp /\ view.seq \in Nat /\ p.seq \in Nat /\ heard \in Seq(Nat)
      /\ endHeard \in BOOLEAN /\ subscribed \in BOOLEAN
      /\ p.rev # None => p.rev \in Nat
  BY DEF PInv, TypeOK, Stamp, Payload
<1>1. CASE Stale(p)
  BY <1>0, <1>1 DEF PInv, ApplyPush, NotAheadOfView, HeardInOrder
<1>2. CASE ~Stale(p)
  <2>1. /\ view' \in Stamp /\ view'.seq = p.seq /\ p.seq > view.seq
        /\ endHeard' \in BOOLEAN
        /\ heard' = IF subscribed THEN Append(heard, p.seq) ELSE heard
    BY <1>0, <1>2 DEF ApplyPush, Stale, Stamp
  <2>2. CASE subscribed
    <3>1. /\ heard' \in Seq(Nat)
          /\ DOMAIN heard = 1 .. Len(heard) /\ Len(heard) \in Nat
          /\ DOMAIN heard' = 1 .. Len(heard) + 1
          /\ \A i \in 1 .. Len(heard) : heard'[i] = heard[i]
          /\ heard'[Len(heard) + 1] = p.seq
      BY <1>0, <2>1, <2>2, AppendHolds
    <3>a. \A i \in 1 .. Len(heard) : heard[i] \in Nat
      BY <1>0, <3>1
    <3>b. \A i \in 1 .. Len(heard) : heard[i] <= view.seq
      BY <3>1 DEF PInv, NotAheadOfView
    <3>2. \A i \in 1 .. Len(heard) : heard[i] \in Nat /\ heard[i] <= view.seq
      BY <3>a, <3>b
    <3>3. NotAheadOfView'
      <4> SUFFICES ASSUME NEW i \in 1 .. Len(heard) + 1 PROVE heard'[i] <= p.seq
        BY <2>1, <3>1 DEF NotAheadOfView
      <4>1. CASE i = Len(heard) + 1
        BY <1>0, <3>1, <4>1
      <4>2. CASE i # Len(heard) + 1
        <5>1. i \in 1 .. Len(heard)
          BY <3>1, <4>2
        <5> QED BY <1>0, <2>1, <3>1, <3>2, <5>1
      <4> QED BY <4>1, <4>2
    <3>4. \A i, j \in 1 .. Len(heard) : i < j => heard[i] < heard[j]
      BY <3>1 DEF PInv, HeardInOrder
    <3>5. HeardInOrder'
      <4> SUFFICES ASSUME NEW i \in 1 .. Len(heard) + 1, NEW j \in 1 .. Len(heard) + 1, i < j
                   PROVE  heard'[i] < heard'[j]
        BY <3>1 DEF HeardInOrder
      <4>1. CASE j = Len(heard) + 1
        <5>1. i \in 1 .. Len(heard)
          BY <3>1, <4>1
        <5> QED BY <1>0, <2>1, <3>1, <3>2, <4>1, <5>1
      <4>2. CASE j # Len(heard) + 1
        <5>1. i \in 1 .. Len(heard) /\ j \in 1 .. Len(heard)
          BY <3>1, <4>2
        <5> QED BY <3>1, <3>4, <5>1
      <4> QED BY <4>1, <4>2
    <3> QED BY <2>1, <3>1, <3>3, <3>5
  <2>3. CASE ~subscribed
    <3>1. heard' = heard
      BY <2>1, <2>3
    <3>2. \A i \in DOMAIN heard : heard[i] \in Nat /\ heard[i] <= view.seq
      BY <1>0 DEF PInv, NotAheadOfView
    <3>3. NotAheadOfView'
      BY <1>0, <2>1, <3>1, <3>2 DEF NotAheadOfView
    <3> QED BY <1>0, <2>1, <3>1, <3>3 DEF PInv, HeardInOrder
  <2> QED BY <2>1, <2>2, <2>3
<1> QED BY <1>1, <1>2

\* A step that issues a payload.
LEMMA IssuesPInv ==
  ASSUME PInv, NEW kind \in Kinds, Issue(kind),
         kind = "end-shift" => ends'.armed,
         UNCHANGED <<cache, window, baked, evals, replies, notice, owed, page>>,
         UNCHANGED <<posted, heard, overtaken, unbaked, endHeard, endExposed>>,
         attaches' \subseteq attaches,
         answer' = answer \/ (phase = "booted" /\ answer' = out'),
         ends' = ends \/ ends' = NotEnding
         \/ (/\ ends' \in [armed : BOOLEAN, spaced : BOOLEAN, emits : 0 .. EndShiftEmitsToConfirm,
                           confirmed : BOOLEAN]
             /\ ends'.armed => ends'.emits < EndShiftEmitsToConfirm),
         used' \in [Limited -> Nat]
  PROVE  PInv'
<1> USE DEF PInv, page
<1>1. /\ seq' \in Nat /\ rev' \in Nat /\ out' \in Payload /\ out'.kind = kind
      /\ step' = "refreshing"
  BY IssueType
<1>2. /\ ends' \in [armed : BOOLEAN, spaced : BOOLEAN, emits : 0 .. EndShiftEmitsToConfirm,
                    confirmed : BOOLEAN]
      /\ ends'.armed => ends'.emits < EndShiftEmitsToConfirm
  <2>1. /\ NotEnding \in [armed : BOOLEAN, spaced : BOOLEAN, emits : 0 .. EndShiftEmitsToConfirm,
                          confirmed : BOOLEAN]
        /\ ~NotEnding.armed
    BY PageAssumption DEF NotEnding
  <2> QED BY <2>1 DEF TypeOK, Unconfirmed
<1>3. TypeOK'
  BY <1>1, <1>2 DEF TypeOK
<1>4. HasPayload' /\ Unconfirmed'
  BY <1>1, <1>2 DEF HasPayload, Unconfirmed
<1>5. Clean' /\ NotAheadOfView' /\ HeardInOrder'
  BY DEF Clean, NotAheadOfView, HeardInOrder
<1> QED BY <1>3, <1>4, <1>5

LEMMA CoreStepPInv == PInv /\ CoreStep => PInv'
<1> SUFFICES ASSUME PInv, CoreStep PROVE PInv'
  OBVIOUS
<1> USE DEF PInv, core, channels, page, history
<1>0. Limited = {"changes", "selects", "flips", "ends", "unloads", "fallbacks", "drops",
                 "resets", "all"}
  BY DEF Limited
<1>1. ASSUME NEW kind \in {"data", "retry"}, Change(kind) PROVE PInv'
  <2>1. used' \in [Limited -> Nat]
    BY <1>0, <1>1, UseType DEF Change
  <2> QED BY <1>1, <2>1, IssuesPInv DEF Change, Kinds
<1>2. CASE SelectBatch
  <2>1. used' \in [Limited -> Nat]
    BY <1>0, <1>2, UseType DEF SelectBatch
  <2> QED BY <1>2, <2>1, IssuesPInv DEF SelectBatch, Kinds
<1>3. CASE BeginEndShift
  <2>1. used' \in [Limited -> Nat]
    BY <1>0, <1>3, UseType DEF BeginEndShift
  <2>2. /\ ends' \in [armed : BOOLEAN, spaced : BOOLEAN, emits : 0 .. EndShiftEmitsToConfirm,
                      confirmed : BOOLEAN]
        /\ ends'.emits = 0
    <3>1. ends' = [armed |-> TRUE, spaced |-> TRUE, emits |-> 0, confirmed |-> FALSE]
      BY <1>3 DEF BeginEndShift, NotEnding
    <3>2. 0 \in 0 .. EndShiftEmitsToConfirm
      BY PageAssumption
    <3> QED BY <3>1, <3>2
  <2>3. endExposed' \in BOOLEAN /\ endHeard' \in BOOLEAN
    BY <1>3 DEF BeginEndShift
  <2>4. TypeOK'
    BY <1>3, <2>1, <2>2, <2>3 DEF BeginEndShift, TypeOK
  <2> QED BY <1>3, <2>2, <2>4, PageAssumption
          DEF BeginEndShift, Idle, HasPayload, Handling, Unconfirmed, Clean, NotAheadOfView,
              HeardInOrder
<1>4. CASE Space
  <2>1. /\ ends' \in [armed : BOOLEAN, spaced : BOOLEAN, emits : 0 .. EndShiftEmitsToConfirm,
                      confirmed : BOOLEAN]
        /\ ends'.emits = ends.emits /\ ends'.armed = ends.armed
    BY <1>4 DEF Space, TypeOK
  <2>2. TypeOK'
    BY <1>4, <2>1 DEF Space, TypeOK
  <2> QED BY <1>4, <2>1, <2>2
          DEF Space, HasPayload, Handling, Unconfirmed, Clean, NotAheadOfView, HeardInOrder
<1>5. CASE EmitEndShift
  BY <1>5, IssuesPInv DEF EmitEndShift, Kinds, TypeOK
<1>6. CASE Refresh
  <2>1. cache' \in Stamp
    BY <1>6 DEF Refresh, TypeOK, Stamp
  <2>2. TypeOK'
    BY <1>6, <2>1 DEF Refresh, TypeOK
  <2> QED BY <1>6, <2>2
          DEF Refresh, HasPayload, Handling, Unconfirmed, Clean, NotAheadOfView, HeardInOrder
<1>7. CASE Push
  <2>1. out \in Payload
    BY <1>7 DEF Push, HasPayload, Handling
  <2>2. evals' \in Seq(Payload) /\ posted' \subseteq Nat
    BY <1>7, <2>1, AppendHolds DEF Push, TypeOK, Payload
  <2>3. TypeOK'
    BY <1>7, <2>2 DEF Push, TypeOK
  <2> QED BY <1>7, <2>1, <2>3
          DEF Push, HasPayload, Handling, Unconfirmed, Clean, NotAheadOfView, HeardInOrder
<1>8. CASE Settle
  <2>1. /\ ends' \in [armed : BOOLEAN, spaced : BOOLEAN, emits : 0 .. EndShiftEmitsToConfirm,
                      confirmed : BOOLEAN]
        /\ ends'.armed => ends'.emits < EndShiftEmitsToConfirm
    <3>1. CASE out.kind = "end-shift"
      <4>1. ends.armed /\ ends.emits < EndShiftEmitsToConfirm /\ ends.emits \in Nat
        BY <1>8, <3>1 DEF Settle, HasPayload, Handling, Unconfirmed, TypeOK
      <4>2. ends.emits + 1 \in 0 .. EndShiftEmitsToConfirm
        BY <4>1, PageAssumption
      <4>3. PICK done \in BOOLEAN :
              /\ done <=> ends.emits + 1 >= EndShiftEmitsToConfirm
              /\ ends' = [armed |-> ~done, spaced |-> FALSE, emits |-> ends.emits + 1,
                          confirmed |-> done]
        <5>1. Confirms(ends.emits + 1) \in BOOLEAN
          BY DEF Confirms
        <5> QED BY <1>8, <3>1, <5>1 DEF Settle, Confirms
      <4>4. ~done => ends.emits + 1 < EndShiftEmitsToConfirm
        BY <4>1, <4>3, PageAssumption
      <4> QED BY <4>2, <4>3, <4>4
    <3>2. CASE out.kind # "end-shift"
      BY <1>8, <3>2 DEF Settle, TypeOK, Unconfirmed
    <3> QED BY <3>1, <3>2
  <2>2. CASE step' = "answering" /\ UNCHANGED <<seq, rev, out, used>>
    <3>1. TypeOK'
      BY <1>8, <2>1, <2>2 DEF Settle, TypeOK
    <3> QED BY <1>8, <2>1, <2>2, <3>1
            DEF Settle, HasPayload, Handling, Unconfirmed, Clean, NotAheadOfView, HeardInOrder
  <2>3. CASE May("flips") /\ Use("flips") /\ Issue("flip")
    <3>1. used' \in [Limited -> Nat]
      BY <1>0, <2>3, UseType
    <3> QED BY <1>8, <2>1, <2>3, <3>1, IssuesPInv DEF Settle, Kinds
  <2> QED BY <1>8, <2>2, <2>3 DEF Settle
<1>9. CASE Answer
  <2>1. answer # None => answer \in Payload /\ phase = "booted"
    BY DEF TypeOK, Clean
  <2>2. TypeOK'
    BY <1>9, <2>1 DEF Answer, TypeOK
  <2> QED BY <1>9, <2>1, <2>2
          DEF Answer, HasPayload, Handling, Unconfirmed, Clean, NotAheadOfView, HeardInOrder
<1>10. ASSUME NEW s \in attaches, BridgeAttached(s) PROVE PInv'
  <2>1. CASE s < seq
    BY <1>10, <2>1, IssuesPInv DEF BridgeAttached, Kinds, TypeOK
  <2>2. CASE ~(s < seq)
    <3>1. TypeOK'
      BY <1>10, <2>2 DEF BridgeAttached, TypeOK
    <3> QED BY <1>10, <2>2, <3>1
            DEF BridgeAttached, HasPayload, Handling, Unconfirmed, Clean, NotAheadOfView,
                HeardInOrder
  <2> QED BY <2>1, <2>2
<1>11. CASE ResetDemo
  <2>1. used' \in [Limited -> Nat]
    BY <1>0, <1>11, UseType DEF ResetDemo
  <2>2. seq' \in Nat /\ rev' \in Nat
    BY <1>11 DEF ResetDemo, TypeOK
  <2>3. cache' \in Stamp
    BY <1>11, <2>2 DEF ResetDemo, Stamp
  <2>4. /\ NotEnding \in [armed : BOOLEAN, spaced : BOOLEAN, emits : 0 .. EndShiftEmitsToConfirm,
                          confirmed : BOOLEAN]
        /\ ~NotEnding.armed
    BY PageAssumption DEF NotEnding
  <2>5. TypeOK'
    BY <1>11, <2>1, <2>2, <2>3, <2>4 DEF ResetDemo, TypeOK
  <2> QED BY <1>11, <2>4, <2>5
          DEF ResetDemo, Idle, HasPayload, Handling, Unconfirmed, Clean, NotAheadOfView,
              HeardInOrder
<1>12. CASE BootNotice
  <2>1. TypeOK'
    BY <1>12 DEF BootNotice, TypeOK
  <2> QED BY <1>12, <2>1
          DEF BootNotice, Idle, HasPayload, Handling, Unconfirmed, Clean, NotAheadOfView,
              HeardInOrder
<1> QED BY <1>1, <1>2, <1>3, <1>4, <1>5, <1>6, <1>7, <1>8, <1>9, <1>10, <1>11, <1>12
        DEF CoreStep

\* A document goes away.
LEMMA UnloadPInv ==
  ASSUME PInv, NEW next \in {"none", "loading"}, Unload(next), window' \in BOOLEAN,
         evals' \in Seq(Payload), owed' \in BOOLEAN, used' \in [Limited -> Nat],
         UNCHANGED <<seq, rev, step, out, ends, cache, baked, attaches, endHeard, unbaked>>
  PROVE  PInv'
<1> USE DEF PInv, Unload
<1>1. view' \in Stamp
  BY DEF Start, Stamp
<1>a. subscribed' \in BOOLEAN /\ endExposed' \in BOOLEAN
  OBVIOUS
<1>b. /\ replies' \subseteq Payload /\ posted' \subseteq Nat /\ heard' \in Seq(Nat)
      /\ bootSeq' \in Nat /\ overtaken' \in Nat
  OBVIOUS
<1>2. TypeOK'
  BY <1>1, <1>a, <1>b DEF TypeOK
<1> QED BY <1>2 DEF HasPayload, Handling, Unconfirmed, Clean, NotAheadOfView, HeardInOrder

LEMMA PageStepPInv == PInv /\ PageStep => PInv'
<1> SUFFICES ASSUME PInv, PageStep PROVE PInv'
  OBVIOUS
<1> USE DEF PInv, core, channels, page, history
<1>0. Limited = {"changes", "selects", "flips", "ends", "unloads", "fallbacks", "drops",
                 "resets", "all"}
  BY DEF Limited
<1>1. CASE Reload
  <2>1. used' \in [Limited -> Nat]
    <3>1. CASE Use("unloads")
      BY <1>0, <3>1, UseType
    <3>2. CASE UNCHANGED used
      BY <3>2 DEF TypeOK
    <3> QED BY <1>1, <3>1, <3>2 DEF Reload
  <2> QED BY <1>1, <2>1, UnloadPInv DEF Reload, TypeOK
<1>2. CASE WindowLost
  <2>1. used' \in [Limited -> Nat]
    BY <1>0, <1>2, UseType DEF WindowLost
  <2>2. evals' \in Seq(Payload)
    BY <1>2 DEF WindowLost
  <2> QED BY <1>2, <2>1, <2>2, UnloadPInv DEF WindowLost, TypeOK
<1>3. CASE RenderInitScript
  <2>a. unbaked' \in BOOLEAN
    BY <1>3 DEF RenderInitScript
  <2>1. TypeOK'
    BY <1>3, <2>a DEF RenderInitScript, TypeOK
  <2> QED BY <1>3, <2>1
          DEF RenderInitScript, HasPayload, Handling, Unconfirmed, Clean, NotAheadOfView,
              HeardInOrder
<1>4. CASE WindowBuilt
  <2>1. TypeOK'
    BY <1>4 DEF WindowBuilt, TypeOK
  <2> QED BY <1>4, <2>1
          DEF WindowBuilt, HasPayload, Handling, Unconfirmed, Clean, NotAheadOfView,
              HeardInOrder
<1>5. ASSUME NEW boot \in Stamp, Attach(boot), notice' \in {"none", "queued", "handled"},
             used' \in [Limited -> Nat]
      PROVE  PInv'
  <2>a. boot.seq \in Nat
    BY DEF Stamp
  <2>b. attaches' \subseteq Nat /\ bootSeq' \in Nat /\ view' \in Stamp /\ phase' = "booted"
    BY <1>5, <2>a DEF Attach, TypeOK
  <2>c. UNCHANGED <<seq, rev, step, out, answer, ends, cache, window, baked, evals, replies,
                    owed, subscribed, posted, heard, overtaken, endHeard, endExposed, unbaked>>
    BY <1>5 DEF Attach
  <2>1. TypeOK'
    BY <1>5, <2>b, <2>c DEF TypeOK
  <2> QED BY <1>5, <2>1
          DEF Attach, HasPayload, Handling, Unconfirmed, Clean, NotAheadOfView, HeardInOrder
<1>6. CASE BootPull
  <2>1. used' \in [Limited -> Nat]
    <3>1. CASE Use("drops")
      BY <1>0, <3>1, UseType
    <3>2. CASE UNCHANGED used
      BY <3>2 DEF TypeOK
    <3> QED BY <1>6, <3>1, <3>2 DEF BootPull
  <2> QED BY <1>5, <1>6, <2>1 DEF BootPull, TypeOK
<1>7. CASE BootFallback
  <2>1. used' \in [Limited -> Nat]
    BY <1>0, <1>7, UseType DEF BootFallback
  <2> QED BY <1>5, <1>7, <2>1 DEF BootFallback, TypeOK
<1>8. CASE Subscribe
  <2>1. TypeOK'
    BY <1>8 DEF Subscribe, TypeOK
  <2> QED BY <1>8, <2>1
          DEF Subscribe, HasPayload, Handling, Unconfirmed, Clean, NotAheadOfView, HeardInOrder
<1>9. CASE RunEval
  <2>1. evals' \in Seq(Payload) /\ Head(evals) \in Payload
    BY <1>9, TailHolds DEF RunEval, TypeOK
  <2>2. CASE phase = "booted"
    <3>1. ApplyPush(Head(evals))
      BY <1>9, <2>2 DEF RunEval
    <3>2. /\ view' \in Stamp /\ heard' \in Seq(Nat) /\ endHeard' \in BOOLEAN
          /\ NotAheadOfView' /\ HeardInOrder'
      BY <2>1, <3>1, ApplyInOrder
    <3>3. TypeOK'
      BY <1>9, <2>1, <3>2 DEF RunEval, TypeOK
    <3> QED BY <1>9, <2>2, <3>2, <3>3 DEF RunEval, HasPayload, Handling, Unconfirmed, Clean
  <2>3. CASE phase # "booted"
    <3>1. TypeOK'
      BY <1>9, <2>1, <2>3 DEF RunEval, TypeOK
    <3> QED BY <1>9, <2>3, <3>1
            DEF RunEval, HasPayload, Handling, Unconfirmed, Clean, NotAheadOfView, HeardInOrder
  <2> QED BY <2>2, <2>3
<1>10. ASSUME NEW p \in replies, DeliverReply(p) PROVE PInv'
  <2>1. p \in Payload /\ phase = "booted" /\ p.seq \in Nat
    BY DEF TypeOK, Clean, Payload
  <2>2. /\ view' \in Stamp /\ heard' \in Seq(Nat) /\ endHeard' \in BOOLEAN
        /\ NotAheadOfView' /\ HeardInOrder'
    BY <1>10, <2>1, ApplyInOrder DEF DeliverReply
  <2>3. TypeOK'
    BY <1>10, <2>1, <2>2 DEF DeliverReply, TypeOK
  <2> QED BY <1>10, <2>1, <2>2, <2>3 DEF DeliverReply, HasPayload, Handling, Unconfirmed, Clean
<1> QED BY <1>1, <1>2, <1>3, <1>4, <1>6, <1>7, <1>8, <1>9, <1>10 DEF PageStep

\* The inductive invariant: types, the payload of the running handler, and the order of
\* what the listener heard.
THEOREM Types == Spec => []PInv
<1>1. Init => PInv
  BY InitPInv
<1>2. PInv /\ UNCHANGED vars => PInv'
  BY DEF vars, core, channels, page, history, PInv, TypeOK, HasPayload, Handling, Unconfirmed,
         Clean, NotAheadOfView, HeardInOrder
<1>3. PInv /\ [Next]_vars => PInv'
  BY <1>2, CoreStepPInv, PageStepPInv DEF Next
<1> QED BY <1>1, <1>3, PTL DEF Spec

\* The payloads, the queue and the page keep their types.
THEOREM TypeCorrect == Spec => []TypeOK
<1>1. PInv => TypeOK
  BY DEF PInv
<1> QED BY <1>1, Types, PTL

\* A listener gets the events of a payload once and in the order of issue, for any number
\* of payloads, answers and reloads (adapter.ts, applyPush).
THEOREM InOrder == Spec => []HeardInOrder
<1>1. PInv => HeardInOrder
  BY DEF PInv
<1> QED BY <1>1, Types, PTL

\* Numbers of payloads and stamps.
LEMMA Numbers ==
  ASSUME PInv
  PROVE  /\ seq \in Nat /\ rev \in Nat
         /\ \A s \in {cache, baked, view} : s.seq \in Nat /\ s.rev \in Nat
         /\ \A p \in Payload : p.seq \in Nat /\ (p.rev # None => p.rev \in Nat)
  BY DEF PInv, TypeOK, Stamp, Payload

\* A new payload is newer than everything there is.
LEMMA IssuesOInv ==
  ASSUME PInv, OInv, NEW kind \in Kinds, Issue(kind), step # "refreshing",
         UNCHANGED <<cache, baked, view, evals, replies>>,
         answer' = answer \/ answer' = out'
  PROVE  OInv'
<1>1. /\ seq' = seq + 1 /\ rev' \in {rev, rev + 1} /\ out' \in Payload /\ out'.seq = seq'
      /\ out'.rev # None => out'.rev = rev'
      /\ step' = "refreshing"
  BY IssueType DEF PInv
<1>2. \A p \in Payload : Sent(p)' <=> Sent(p)
  BY DEF Sent
<1>3. \A p \in Payload : Travelling(p)' => p = out' \/ Travelling(p)
  BY <1>2 DEF Travelling
<1>4. \A p \in Payload : Sent(p) => Travelling(p)
  BY DEF Travelling
<1>5. SentBefore'
  BY <1>1, <1>2, <1>4, Numbers DEF SentBefore, OInv, Numbered
<1>6. Published'
  BY <1>1, <1>3, Numbers DEF OInv, Published, Numbered, Older
<1>7. Numbered'
  <2>1. /\ cache'.seq <= seq' /\ cache'.rev <= rev'
        /\ baked'.seq <= seq' /\ baked'.rev <= cache'.rev
        /\ view'.seq <= seq' /\ view'.rev <= cache'.rev
    BY <1>1, Numbers DEF OInv, Numbered
  <2>2. ASSUME NEW p \in Payload, Travelling(p)'
        PROVE  /\ p.seq <= seq' /\ (p.rev # None => p.rev <= rev')
               /\ Older(cache, p)' /\ Older(baked, p)' /\ Older(view, p)'
    <3>1. CASE p = out'
      BY <1>1, <3>1, <2>1, Numbers DEF Older, OInv, Numbered
    <3>2. CASE Travelling(p)
      BY <1>1, <3>2, Numbers DEF Older, OInv, Numbered
    <3> QED BY <1>3, <2>2, <3>1, <3>2
  <2>3. ASSUME NEW p \in Payload, NEW q \in Payload, Travelling(p)', Travelling(q)', p.rev # None
        PROVE  Older(p, q)
    <3>1. CASE Travelling(p) /\ Travelling(q)
      BY <2>3, <3>1 DEF OInv, Numbered
    <3>2. CASE q = out' /\ Travelling(p)
      BY <1>1, <2>3, <3>2, Numbers DEF Older, OInv, Numbered
    <3>3. CASE p = out' /\ Travelling(q)
      BY <1>1, <2>3, <3>3, Numbers DEF Older, OInv, Numbered
    <3>4. CASE p = out' /\ q = out'
      BY <1>1, <2>3, <3>4, Numbers DEF Older
    <3> QED BY <1>3, <2>3, <3>1, <3>2, <3>3, <3>4
  <2> QED BY <2>1, <2>2, <2>3 DEF Numbered, Older
<1> QED BY <1>5, <1>6, <1>7 DEF OInv

\* A step that adds no payload and shows no other snapshot than one to boot from.
LEMMA FewerOInv ==
  ASSUME PInv, OInv, UNCHANGED <<seq, rev, cache, out>>,
         view' \in {view, Start, cache, baked}, baked' \in {baked, cache},
         step' = step \/ (step # "refreshing" /\ step' # "refreshing"),
         \A p \in Payload : Travelling(p)' => Travelling(p),
         step' = "refreshing" => \A p \in Payload : Sent(p)' => Sent(p)
  PROVE  OInv'
<1>1. SentBefore'
  BY DEF OInv, SentBefore
<1>2. Published'
  BY DEF OInv, Published
<1>3. /\ view'.seq <= seq /\ view'.rev <= cache.rev
      /\ \A p \in Payload : Travelling(p) => Older(view', p) /\ Older(baked', p)
  BY Numbers DEF OInv, Numbered, Start, Older
<1>4. Numbered'
  BY <1>3, Numbers DEF OInv, Numbered, Older
<1> QED BY <1>1, <1>2, <1>4 DEF OInv

\* applyPush shows no older snapshot, and none that is not in the boot cache.
LEMMA ApplyOInv ==
  ASSUME PInv, OInv, NEW p \in Payload, Sent(p), ApplyPush(p),
         UNCHANGED <<seq, rev, cache, out, baked, step>>,
         \A q \in Payload : Travelling(q)' => Travelling(q),
         \A q \in Payload : Sent(q)' => Sent(q)
  PROVE  OInv' /\ view.rev <= view'.rev
<1>1. SentBefore'
  BY DEF OInv, SentBefore
<1>2. Published'
  BY DEF OInv, Published
<1>3. Travelling(p)
  BY DEF Travelling
<1>4. CASE Stale(p)
  <2>1. view' = view
    BY <1>4 DEF ApplyPush
  <2>2. Numbered'
    BY <2>1, Numbers DEF OInv, Numbered, Older
  <2> QED BY <1>1, <1>2, <2>1, <2>2, Numbers DEF OInv
<1>5. CASE ~Stale(p)
  <2>1. /\ view'.seq = p.seq /\ view.seq < p.seq
        /\ view'.rev = IF p.rev = None THEN view.rev ELSE p.rev
    BY <1>5, Numbers DEF ApplyPush, Stale
  <2>2. p.seq <= seq /\ (p.rev # None => p.rev <= cache.rev /\ view.rev <= p.rev)
    BY <1>3, <2>1 DEF OInv, Numbered, Published, SentBefore, Older
  <2>3. ASSUME NEW q \in Payload, Travelling(q) PROVE Older(view', q)
    <3>1. CASE p.rev = None
      BY <2>1, <2>3, <3>1, Numbers DEF OInv, Numbered, Older
    <3>2. CASE p.rev # None
      <4>1. Older(p, q)
        BY <1>3, <2>3, <3>2 DEF OInv, Numbered
      <4> QED BY <2>1, <3>2, <4>1 DEF Older
    <3> QED BY <3>1, <3>2
  <2>4. view'.seq <= seq /\ view'.rev <= cache.rev /\ view.rev <= view'.rev
    BY <2>1, <2>2, Numbers DEF OInv, Numbered
  <2>5. Numbered'
    BY <2>3, <2>4, Numbers DEF OInv, Numbered, Older
  <2> QED BY <1>1, <1>2, <2>4, <2>5 DEF OInv
<1> QED BY <1>4, <1>5

\* What the last step of a handler, and the page, leave of what travels.
LEMMA CoreStepOInv == PInv /\ OInv /\ CoreStep => OInv'
<1> SUFFICES ASSUME PInv, OInv, CoreStep PROVE OInv'
  OBVIOUS
<1> USE DEF core, channels, page, history
<1>1. ASSUME NEW kind \in {"data", "retry"}, Change(kind) PROVE OInv'
  BY <1>1, IssuesOInv DEF Change, Kinds, Idle
<1>2. CASE SelectBatch
  BY <1>2, IssuesOInv DEF SelectBatch, Kinds, Idle
<1>3. CASE BeginEndShift \/ Space \/ BootNotice
  <2>1. UNCHANGED <<seq, rev, cache, out, view, baked, step, answer, replies, evals>>
    BY <1>3 DEF BeginEndShift, Space, BootNotice
  <2> QED BY <2>1, FewerOInv DEF Travelling, Sent, Handling
<1>4. CASE EmitEndShift
  BY <1>4, IssuesOInv DEF EmitEndShift, Kinds, Idle
<1>5. CASE Refresh
  <2>1. /\ cache' = [seq |-> seq, rev |-> rev] /\ step' = "pushing" /\ step = "refreshing"
        /\ UNCHANGED <<seq, rev, out, answer, view, baked, replies, evals>>
    BY <1>5 DEF Refresh
  <2>2. \A p \in Payload : (Travelling(p)' <=> Travelling(p)) /\ (Sent(p)' <=> Sent(p))
    BY <2>1 DEF Travelling, Sent, Handling
  <2>3. SentBefore'
    BY <2>1 DEF SentBefore
  <2>4. Published'
    BY <2>1, <2>2, Numbers DEF Published, OInv, Numbered
  <2>5. Numbered'
    BY <2>1, <2>2, Numbers DEF OInv, Numbered, Older
  <2> QED BY <2>3, <2>4, <2>5 DEF OInv
<1>6. CASE Push
  <2>1. /\ UNCHANGED <<seq, rev, cache, out, view, baked, answer, replies>>
        /\ step = "pushing" /\ step' \in {"settling", "answering"}
        /\ evals' = IF window THEN Append(evals, out) ELSE evals
    BY <1>6 DEF Push
  <2>2. out \in Payload /\ evals \in Seq(Payload)
    BY <2>1 DEF PInv, HasPayload, Handling, TypeOK
  <2>3. \A p \in Payload : Sent(p)' => Sent(p) \/ p = out
    <3>1. CASE window
      BY <2>1, <2>2, <3>1, AppendHolds DEF Sent
    <3>2. CASE ~window
      BY <2>1, <3>2 DEF Sent
    <3> QED BY <3>1, <3>2
  <2>4. ASSUME NEW p \in Payload, Travelling(p)' PROVE Travelling(p)
    <3>1. Travelling(out)
      <4>1. Handling
        BY <2>1 DEF Handling
      <4> QED BY <4>1 DEF Travelling
    <3>2. Sent(p)' \/ p = out \/ (answer # None /\ p = answer)
      BY <2>1, <2>4 DEF Travelling
    <3> QED BY <2>3, <3>1, <3>2 DEF Travelling
  <2> QED BY <2>1, <2>4, FewerOInv
<1>7. CASE Settle
  <2>1. UNCHANGED <<answer, cache, view, baked, replies, evals>> /\ step = "settling"
    BY <1>7 DEF Settle
  <2>2. CASE step' = "answering" /\ UNCHANGED <<seq, rev, out, used>>
    BY <2>1, <2>2, FewerOInv DEF Travelling, Sent, Handling
  <2>3. CASE Issue("flip")
    BY <2>1, <2>3, IssuesOInv DEF Kinds
  <2> QED BY <1>7, <2>2, <2>3 DEF Settle
<1>8. CASE Answer
  <2>1. /\ UNCHANGED <<seq, rev, cache, view, baked, evals>>
        /\ step = "answering" /\ step' = "idle" /\ out' = None /\ answer' = None
        /\ replies' = IF answer # None THEN replies \cup {answer} ELSE replies
    BY <1>8 DEF Answer
  <2>2. \A p \in Payload : Travelling(p)' => Travelling(p)
    BY <2>1 DEF Travelling, Sent, Handling
  <2>3. SentBefore' /\ Published'
    BY <2>1, <2>2 DEF OInv, SentBefore, Published
  <2>4. Numbered'
    BY <2>1, <2>2 DEF OInv, Numbered, Older
  <2> QED BY <2>3, <2>4 DEF OInv
<1>9. ASSUME NEW s \in attaches, BridgeAttached(s) PROVE OInv'
  <2>1. CASE s < seq
    BY <1>9, <2>1, IssuesOInv DEF BridgeAttached, Kinds, Idle
  <2>2. CASE ~(s < seq)
    <3>1. UNCHANGED <<seq, rev, cache, out, view, baked, step, answer, replies, evals>>
      BY <1>9, <2>2 DEF BridgeAttached
    <3> QED BY <3>1, FewerOInv DEF Travelling, Sent, Handling
  <2> QED BY <2>1, <2>2
<1>10. CASE ResetDemo
  <2>1. /\ UNCHANGED <<out, answer, view, baked, replies, evals, step>>
        /\ seq' \in Nat /\ seq' >= seq /\ rev' = rev + 1
        /\ cache' = [seq |-> seq', rev |-> rev'] /\ step = "idle"
    BY <1>10, Numbers DEF ResetDemo, Idle
  <2>2. \A p \in Payload : (Travelling(p)' <=> Travelling(p)) /\ (Sent(p)' <=> Sent(p))
    BY <2>1 DEF Travelling, Sent, Handling
  <2>3. SentBefore' /\ Published'
    BY <2>1, <2>2, Numbers DEF OInv, SentBefore, Published, Numbered
  <2>4. Numbered'
    BY <2>1, <2>2, Numbers DEF OInv, Numbered, Older
  <2> QED BY <2>3, <2>4 DEF OInv
<1> QED BY <1>1, <1>2, <1>3, <1>4, <1>5, <1>6, <1>7, <1>8, <1>9, <1>10 DEF CoreStep

LEMMA Taken ==
  ASSUME PInv, evals # <<>>, evals' = Tail(evals), UNCHANGED replies
  PROVE  /\ Head(evals) \in Payload /\ Sent(Head(evals))
         /\ \A p \in Payload : Sent(p)' => Sent(p)
<1>1. evals \in Seq(Payload)
  BY DEF PInv, TypeOK
<1> QED BY <1>1, TailHolds DEF Sent

LEMMA PageStepOInv == PInv /\ OInv /\ PageStep => OInv'
<1> SUFFICES ASSUME PInv, OInv, PageStep PROVE OInv'
  OBVIOUS
<1> USE DEF core, channels, page, history
<1>1. CASE Reload \/ WindowLost
  <2>1. /\ UNCHANGED <<seq, rev, cache, out, baked, step>>
        /\ view' = Start /\ answer' = None /\ replies' = {} /\ evals' \in {evals, <<>>}
    BY <1>1 DEF Reload, WindowLost, Unload
  <2>2. \A p \in Payload : Sent(p)' => Sent(p)
    <3>1. CASE evals' = evals
      BY <2>1, <3>1 DEF Sent
    <3>2. CASE evals' = <<>>
      <4>1. DOMAIN evals' = {}
        BY <3>2
      <4> QED BY <2>1, <4>1 DEF Sent
    <3> QED BY <2>1, <3>1, <3>2
  <2>3. ASSUME NEW p \in Payload, Travelling(p)' PROVE Travelling(p)
    <3>1. Handling' <=> Handling
      BY <2>1 DEF Handling
    <3>2. Sent(p)' \/ (Handling /\ p = out)
      BY <2>1, <2>3, <3>1 DEF Travelling
    <3> QED BY <2>2, <3>2 DEF Travelling
  <2> QED BY <2>1, <2>2, <2>3, FewerOInv
<1>2. CASE RenderInitScript \/ WindowBuilt \/ Subscribe \/ BootPull \/ BootFallback
  <2>1. /\ UNCHANGED <<seq, rev, cache, out, step, answer, replies, evals>>
        /\ view' \in {view, cache, baked} /\ baked' \in {baked, cache}
    BY <1>2 DEF RenderInitScript, WindowBuilt, Subscribe, BootPull, BootFallback, Attach
  <2> QED BY <2>1, FewerOInv DEF Travelling, Sent, Handling
<1>3. CASE RunEval
  <2>1. /\ UNCHANGED <<seq, rev, cache, out, step, answer, replies, baked>>
        /\ evals # <<>> /\ evals' = Tail(evals)
        /\ ApplyPush(Head(evals)) \/ UNCHANGED view
    BY <1>3 DEF RunEval
  <2>2. \A p \in Payload : (Travelling(p)' => Travelling(p)) /\ (Sent(p)' => Sent(p))
    BY <2>1, Taken DEF Travelling, Handling
  <2> QED BY <2>1, <2>2, Taken, ApplyOInv, FewerOInv
<1>4. ASSUME NEW p \in replies, DeliverReply(p) PROVE OInv'
  <2>1. /\ UNCHANGED <<seq, rev, cache, out, step, answer, evals, baked>>
        /\ replies' = replies \ {p} /\ ApplyPush(p)
    BY <1>4 DEF DeliverReply
  <2>2. \A q \in Payload : (Travelling(q)' => Travelling(q)) /\ (Sent(q)' => Sent(q))
    BY <2>1 DEF Travelling, Sent, Handling
  <2>3. p \in Payload /\ Sent(p)
    BY DEF PInv, TypeOK, Sent
  <2> QED BY <2>1, <2>2, <2>3, ApplyOInv
<1> QED BY <1>1, <1>2, <1>3, <1>4 DEF PageStep

\* Numbers and snapshots keep one order, whatever overtakes what.
THEOREM Order == Spec => []OInv
<1>1. OInv /\ UNCHANGED vars => OInv'
  BY DEF vars, core, channels, page, history, OInv, Numbered, Published, SentBefore,
         Travelling, Sent, Handling, Older
<1>2. PInv /\ OInv /\ [Next]_vars => OInv'
  BY <1>1, CoreStepOInv, PageStepOInv DEF Next
<1> QED BY <1>2, InitOInv, Types, PTL DEF Spec

\* What the mirror sees as the view.
Shown == IF phase = "booted" THEN view.rev ELSE None

\* Every step of the core and of the page is a step of the mirror, or none.
LEMMA StepMirrors ==
  PInv /\ OInv /\ [Next]_vars => [Mirror!Next]_<<rev, cache.rev, Shown>>
<1> SUFFICES ASSUME PInv, OInv, [Next]_vars
             PROVE  [Mirror!Next]_<<rev, cache.rev, Shown>>
  OBVIOUS
<1> USE DEF core, channels, page, history
<1>n. /\ rev \in Nat /\ cache.rev \in Nat /\ baked.rev \in Nat /\ view.rev \in Nat
      /\ cache.rev <= rev /\ baked.rev <= cache.rev /\ view.rev <= cache.rev
  BY Numbers DEF OInv, Numbered
<1>0. CASE UNCHANGED vars
  BY <1>0 DEF vars, Shown
<1>1. ASSUME NEW kind \in Kinds, Issue(kind), UNCHANGED <<cache, phase, view>>
      PROVE  [Mirror!Next]_<<rev, cache.rev, Shown>>
  <2>1. rev' \in {rev, rev + 1} /\ UNCHANGED <<cache.rev, Shown>>
    BY <1>1, IssueType DEF PInv, Shown
  <2> QED BY <2>1 DEF Mirror!Next, Mirror!Change, Shown
<1>2. ASSUME UNCHANGED <<rev, cache, phase, view>>
      PROVE  [Mirror!Next]_<<rev, cache.rev, Shown>>
  BY <1>2 DEF Shown
<1>3. ASSUME NEW kind \in {"data", "retry"}, Change(kind)
      PROVE  [Mirror!Next]_<<rev, cache.rev, Shown>>
  BY <1>1, <1>3 DEF Change, Kinds
<1>4. CASE SelectBatch \/ EmitEndShift
  BY <1>1, <1>4 DEF SelectBatch, EmitEndShift, Kinds
<1>5. CASE BeginEndShift \/ Space \/ BootNotice \/ Push \/ Answer
  BY <1>2, <1>5 DEF BeginEndShift, Space, BootNotice, Push, Answer
<1>6. CASE Settle
  BY <1>1, <1>2, <1>6 DEF Settle, Kinds
<1>7. ASSUME NEW s \in attaches, BridgeAttached(s)
      PROVE  [Mirror!Next]_<<rev, cache.rev, Shown>>
  BY <1>1, <1>2, <1>7 DEF BridgeAttached, Kinds
<1>8. CASE Refresh
  <2>1. rev' = rev /\ cache'.rev = rev' /\ Shown' = Shown
    BY <1>8 DEF Refresh, Shown
  <2> QED BY <2>1 DEF Mirror!Next, Mirror!Publish, Shown
<1>9. CASE ResetDemo
  <2>1. rev' = rev + 1 /\ cache'.rev = rev' /\ Shown' = Shown
    BY <1>9 DEF ResetDemo, Shown
  <2> QED BY <2>1 DEF Mirror!Next, Mirror!Publish, Shown
<1>10. CASE Reload \/ WindowLost
  <2>1. UNCHANGED <<rev, cache>> /\ phase' # "booted"
    BY <1>10 DEF Reload, WindowLost, Unload
  <2> QED BY <2>1 DEF Mirror!Next, Mirror!Close, Shown
<1>11. CASE RenderInitScript \/ WindowBuilt
  <2>1. UNCHANGED <<rev, cache>> /\ phase' # "booted" /\ phase # "booted"
    BY <1>11 DEF RenderInitScript, WindowBuilt
  <2> QED BY <2>1 DEF Shown
<1>12. CASE BootPull \/ BootFallback
  <2>1. /\ UNCHANGED <<rev, cache>> /\ phase # "booted" /\ phase' = "booted"
        /\ view' \in {cache, baked}
    BY <1>12 DEF BootPull, BootFallback, Attach
  <2>2. Shown = None /\ Shown' \in 0 .. cache.rev
    BY <1>n, <2>1 DEF Shown
  <2> QED BY <2>1, <2>2 DEF Mirror!Next, Mirror!Open, Shown
<1>13. CASE Subscribe
  BY <1>2, <1>13 DEF Subscribe
<1>14. ASSUME NEW p \in Payload, Sent(p), ApplyPush(p),
              UNCHANGED <<seq, rev, cache, out, baked, step, phase>>, phase = "booted",
              \A q \in Payload : Travelling(q)' => Travelling(q),
              \A q \in Payload : Sent(q)' => Sent(q)
       PROVE  [Mirror!Next]_<<rev, cache.rev, Shown>>
  <2>1. view.rev <= view'.rev /\ view'.rev <= cache.rev /\ view'.rev \in Nat
    <3>1. OInv' /\ view.rev <= view'.rev
      BY <1>14, ApplyOInv
    <3>2. view' \in Stamp
      BY <1>14, ApplyInOrder
    <3> QED BY <1>14, <3>1, <3>2 DEF OInv, Numbered, Stamp
  <2>2. Shown # None /\ Shown' \in Shown .. cache.rev
    BY <1>n, <1>14, <2>1, PageAssumption DEF Shown
  <2> QED BY <1>14, <2>2 DEF Mirror!Next, Mirror!Show, Shown
<1>15. CASE RunEval
  <2>1. /\ UNCHANGED <<seq, rev, cache, out, step, answer, replies, baked, phase>>
        /\ evals # <<>> /\ evals' = Tail(evals)
        /\ (phase = "booted" /\ ApplyPush(Head(evals))) \/ UNCHANGED view
    BY <1>15 DEF RunEval
  <2>2. \A p \in Payload : (Travelling(p)' => Travelling(p)) /\ (Sent(p)' => Sent(p))
    BY <2>1, Taken DEF Travelling, Handling
  <2> QED BY <1>2, <1>14, <2>1, <2>2, Taken
<1>16. ASSUME NEW p \in replies, DeliverReply(p)
       PROVE  [Mirror!Next]_<<rev, cache.rev, Shown>>
  <2>1. /\ UNCHANGED <<seq, rev, cache, out, step, answer, evals, baked, phase>>
        /\ replies' = replies \ {p} /\ ApplyPush(p)
    BY <1>16 DEF DeliverReply
  <2>2. \A q \in Payload : (Travelling(q)' => Travelling(q)) /\ (Sent(q)' => Sent(q))
    BY <2>1 DEF Travelling, Sent, Handling
  <2>3. p \in Payload /\ Sent(p) /\ phase = "booted"
    BY DEF PInv, TypeOK, Sent, Clean
  <2> QED BY <1>14, <2>1, <2>2, <2>3
<1> QED BY <1>0, <1>3, <1>4, <1>5, <1>6, <1>7, <1>8, <1>9, <1>10, <1>11, <1>12, <1>13, <1>15,
           <1>16 DEF Next, CoreStep, PageStep

\* The screen never goes back and never shows what a reload could not show again, for any
\* number of payloads, answers, reloads, fallbacks and resets (boot.rs, adapter.ts).
THEOREM Mirrors == Spec => ImplementsMirror
<1>1. Init => Mirror!Init
  BY DEF Init, Start, Mirror!Init
<1>2. Spec => [][Mirror!Next]_<<rev, cache.rev, Shown>>
  BY StepMirrors, Types, Order, PTL DEF Spec
<1> QED BY <1>1, <1>2, PTL DEF Spec, ImplementsMirror, Mirror!Spec, Shown
-----------------------------------------------------------------------------
(* What a listener misses.                                                 *)

\* A listener belongs to a booted document; a document whose window is not there has not
\* booted, and one that has not booted has applied no answer.
Listening ==
    /\ phase \in {"loading", "booted"} => window
    /\ subscribed => phase = "booted"
    /\ posted # {} => subscribed
    /\ phase # "booted" => overtaken = 0

\* A payload has been numbered but not pushed.
Unpushed == step \in {"refreshing", "pushing"}

\* It is newer than anything sent or applied, save a boot from the cache it refreshed.
Newest ==
    Unpushed => /\ out.seq = seq
                /\ \A p \in Payload : Sent(p) => p.seq < seq
                /\ overtaken < seq
                /\ view.seq < seq \/ view.seq <= bootSeq

EvalsInOrder == \A i, j \in DOMAIN evals : i < j => evals[i].seq < evals[j].seq

\* The adapter is where its boot, an answer or the last evaluation left it.
Reached ==
    /\ overtaken <= view.seq
    /\ phase = "booted" => \/ view.seq <= bootSeq
                           \/ view.seq = overtaken
                           \/ \A i \in DOMAIN evals : view.seq < evals[i].seq

Heard(s) == \E i \in DOMAIN heard : heard[i] = s

\* An answer whose payload was evaluated for the listener too was heard.
AnswerHeard == overtaken \in posted => overtaken <= bootSeq \/ Heard(overtaken)

MInv == Listening /\ Newest /\ EvalsInOrder /\ Reached /\ AnswerHeard /\ MissedOnlyByRace

LEMMA InitMInv == Init => MInv
<1> SUFFICES ASSUME Init PROVE MInv
  OBVIOUS
<1>1. evals = <<>> /\ DOMAIN evals = {}
  BY DEF Init
<1> QED BY <1>1 DEF Init, Start, MInv, Listening, Newest, Unpushed, EvalsInOrder, Reached,
                    AnswerHeard, MissedOnlyByRace

\* Numbers of the page and its history.
LEMMA PageNumbers ==
  ASSUME PInv
  PROVE  /\ bootSeq \in Nat /\ overtaken \in Nat /\ evals \in Seq(Payload)
         /\ \A i \in DOMAIN evals : evals[i] \in Payload /\ evals[i].seq \in Nat
         /\ \A s \in posted : s \in Nat
<1>1. evals \in Seq(Payload)
  BY DEF PInv, TypeOK
<1>2. \A i \in DOMAIN evals : evals[i] \in Payload
  BY <1>1
<1>3. \A e \in Payload : e.seq \in Nat
  BY DEF Payload
<1>4. bootSeq \in Nat /\ overtaken \in Nat /\ posted \subseteq Nat
  BY DEF PInv, TypeOK
<1> QED BY <1>1, <1>2, <1>3, <1>4

\* A step that neither numbers nor posts nor applies a payload.
LEMMA QuietMInv ==
  ASSUME MInv, UNCHANGED <<evals, page, window, posted, heard, overtaken>>,
         Unpushed' => /\ Unpushed /\ UNCHANGED <<out, seq>>
                      /\ \A p \in Payload : Sent(p)' => Sent(p)
  PROVE  MInv'
<1> USE DEF MInv, page
<1>1. Listening' /\ EvalsInOrder' /\ Reached' /\ AnswerHeard' /\ MissedOnlyByRace'
  BY DEF Listening, EvalsInOrder, Reached, AnswerHeard, Heard, MissedOnlyByRace
<1>2. Newest'
  BY DEF Newest
<1> QED BY <1>1, <1>2

LEMMA IssuesMInv ==
  ASSUME PInv, OInv, MInv, NEW kind \in Kinds, Issue(kind),
         UNCHANGED <<evals, replies, page, window, posted, heard, overtaken>>
  PROVE  MInv'
<1> USE DEF MInv, page
<1>1. Listening' /\ EvalsInOrder' /\ Reached' /\ AnswerHeard' /\ MissedOnlyByRace'
  BY DEF Listening, EvalsInOrder, Reached, AnswerHeard, Heard, MissedOnlyByRace
<1>2. seq' = seq + 1 /\ out'.seq = seq'
  BY IssueType DEF PInv
<1>3. \A p \in Payload : Sent(p)' => p.seq <= seq
  BY DEF Sent, Travelling, OInv, Numbered
<1>4. overtaken <= seq /\ view.seq <= seq
  BY Numbers, PageNumbers DEF Reached, OInv, Numbered
<1>5. Newest'
  BY <1>2, <1>3, <1>4, Numbers, PageNumbers DEF Newest
<1> QED BY <1>1, <1>5

LEMMA PushMInv ==
  ASSUME PInv, MInv, Push
  PROVE  MInv'
<1> USE DEF MInv, page
<1>1. /\ UNCHANGED <<seq, out, replies, page, window, heard, overtaken>>
      /\ Unpushed /\ ~Unpushed'
      /\ evals' = IF window THEN Append(evals, out) ELSE evals
      /\ posted' = IF window /\ subscribed THEN posted \cup {out.seq} ELSE posted
  BY DEF Push, Unpushed
<1>2. out \in Payload /\ out.seq \in Nat
  BY <1>1 DEF Unpushed, PInv, HasPayload, Handling, Payload
<1>3. Listening'
  BY <1>1 DEF Listening
<1>4. Newest'
  BY <1>1 DEF Newest
<1>5. /\ out.seq = seq /\ overtaken < out.seq /\ (view.seq < out.seq \/ view.seq <= bootSeq)
      /\ \A i \in DOMAIN evals : evals[i].seq < out.seq
  BY <1>1, PageNumbers DEF Newest, Sent
<1>6. CASE window
  <2>1. /\ DOMAIN evals = 1 .. Len(evals) /\ Len(evals) \in Nat
        /\ DOMAIN evals' = 1 .. Len(evals) + 1
        /\ \A i \in 1 .. Len(evals) : evals'[i] = evals[i]
        /\ evals'[Len(evals) + 1] = out
    BY <1>1, <1>2, <1>6, AppendHolds, PageNumbers
  <2>a. \A i \in DOMAIN evals' : i \in DOMAIN evals \/ i = Len(evals) + 1
    BY <2>1
  <2>2. EvalsInOrder'
    <3> SUFFICES ASSUME NEW i \in DOMAIN evals', NEW j \in DOMAIN evals', i < j
                 PROVE  evals'[i].seq < evals'[j].seq
      BY DEF EvalsInOrder
    <3>1. i \in DOMAIN evals
      BY <2>1
    <3>2. CASE j = Len(evals) + 1
      BY <1>5, <2>1, <3>1, <3>2
    <3>3. CASE j \in DOMAIN evals
      BY <2>1, <3>1, <3>3 DEF EvalsInOrder
    <3> QED BY <2>a, <3>2, <3>3
  <2>3. Reached'
    <3>1. CASE \A i \in DOMAIN evals : view.seq < evals[i].seq
      <4>1. view.seq < out.seq => \A i \in DOMAIN evals' : view.seq < evals'[i].seq
        BY <2>1, <2>a, <3>1
      <4> QED BY <1>1, <1>5, <4>1 DEF Reached
    <3>2. CASE ~\A i \in DOMAIN evals : view.seq < evals[i].seq
      BY <1>1, <3>2 DEF Reached
    <3> QED BY <3>1, <3>2
  <2>4. \A i \in DOMAIN evals : i \in DOMAIN evals' /\ evals'[i] = evals[i]
    BY <2>1
  <2>5. MissedOnlyByRace'
    <3> SUFFICES ASSUME NEW s \in posted'
                 PROVE  \/ \E i \in DOMAIN heard : heard[i] = s
                        \/ \E i \in DOMAIN evals' : evals'[i].seq = s
                        \/ s < overtaken \/ s <= bootSeq
      BY <1>1 DEF MissedOnlyByRace
    <3>1. CASE s \in posted
      BY <2>4, <3>1 DEF MissedOnlyByRace
    <3>2. CASE s = out.seq
      BY <2>1, <3>2
    <3> QED BY <1>1, <3>1, <3>2
  <2>6. AnswerHeard'
    BY <1>1, <1>5, <1>2, PageNumbers DEF AnswerHeard, Heard
  <2> QED BY <1>3, <1>4, <2>2, <2>3, <2>5, <2>6
<1>7. CASE ~window
  BY <1>1, <1>3, <1>4, <1>7
     DEF EvalsInOrder, Reached, AnswerHeard, Heard, MissedOnlyByRace
<1> QED BY <1>6, <1>7

LEMMA UnloadMInv ==
  ASSUME PInv, OInv, MInv, Reload \/ WindowLost
  PROVE  MInv'
<1> USE DEF MInv
<1>1. /\ UNCHANGED <<seq, out, step>>
      /\ evals' = evals \/ DOMAIN evals' = {}
      /\ phase' \in {"none", "loading"} /\ (phase' = "loading" => window')
      /\ subscribed' = FALSE /\ view'.seq = 0 /\ bootSeq' = 0 /\ replies' = {}
      /\ posted' = {} /\ overtaken' = 0
  <2>1. Start.seq = 0
    BY DEF Start
  <2> QED BY <2>1 DEF Reload, WindowLost, Unload
<1>2. Listening' /\ Reached' /\ AnswerHeard' /\ MissedOnlyByRace'
  BY <1>1 DEF Listening, Reached, AnswerHeard, MissedOnlyByRace
<1>3. EvalsInOrder'
  BY <1>1 DEF EvalsInOrder
<1>4. \A p \in Payload : Sent(p)' => Sent(p)
  BY <1>1 DEF Sent
<1>5. Newest'
  <2> SUFFICES ASSUME Unpushed PROVE Newest'
    BY <1>1 DEF Newest, Unpushed
  <2>1. overtaken' < seq
    BY <1>1, Numbers, PageNumbers DEF Newest
  <2> QED BY <1>1, <1>4, <2>1 DEF Newest
<1> QED BY <1>2, <1>3, <1>5

LEMMA AttachMInv ==
  ASSUME PInv, MInv, NEW boot \in {cache, baked}, Attach(boot)
  PROVE  MInv'
<1> USE DEF MInv
<1>1. /\ UNCHANGED <<seq, out, step, evals, replies, window, subscribed, posted, overtaken>>
      /\ phase = "loading" /\ view'.seq = bootSeq' /\ bootSeq' \in Nat
  BY Numbers DEF Attach, history
<1>2. posted = {} /\ overtaken = 0 /\ ~subscribed /\ window
  BY <1>1 DEF Listening
<1>3. Listening' /\ AnswerHeard' /\ MissedOnlyByRace' /\ Reached' /\ EvalsInOrder'
  BY <1>1, <1>2 DEF Listening, AnswerHeard, MissedOnlyByRace, Reached, EvalsInOrder
<1>4. \A p \in Payload : Sent(p)' => Sent(p)
  BY <1>1 DEF Sent
<1>5. Newest'
  BY <1>1, <1>4 DEF Newest, Unpushed
<1> QED BY <1>3, <1>5

\* What applyPush does, with the payload of an evaluation or of an answer.
LEMMA Applied ==
  ASSUME PInv, NEW p \in Payload, ApplyPush(p)
  PROVE  /\ view'.seq = IF p.seq <= view.seq THEN view.seq ELSE p.seq
         /\ \A s : Heard(s) => Heard(s)'
         /\ subscribed /\ p.seq > view.seq => Heard(p.seq)'
<1>1. view.seq \in Nat /\ p.seq \in Nat /\ heard \in Seq(Nat)
  BY Numbers DEF PInv, TypeOK
<1>2. CASE Stale(p)
  BY <1>1, <1>2 DEF Stale, ApplyPush, Heard
<1>3. CASE ~Stale(p)
  <2>1. /\ view'.seq = p.seq /\ p.seq > view.seq
        /\ heard' = IF subscribed THEN Append(heard, p.seq) ELSE heard
    BY <1>1, <1>3 DEF Stale, ApplyPush
  <2>2. CASE subscribed
    <3>1. /\ DOMAIN heard = 1 .. Len(heard) /\ Len(heard) \in Nat
          /\ DOMAIN heard' = 1 .. Len(heard) + 1
          /\ \A i \in 1 .. Len(heard) : heard'[i] = heard[i]
          /\ heard'[Len(heard) + 1] = p.seq
      BY <1>1, <2>1, <2>2, AppendHolds
    <3> QED BY <1>1, <2>1, <3>1 DEF Heard
  <2>3. CASE ~subscribed
    BY <1>1, <2>1, <2>3 DEF Heard
  <2> QED BY <2>2, <2>3
<1> QED BY <1>2, <1>3

\* Taking an evaluation leaves the later ones.
LEMMA TakenInOrder ==
  ASSUME PInv, EvalsInOrder, evals # <<>>, evals' = Tail(evals)
  PROVE  /\ EvalsInOrder'
         /\ \A i \in DOMAIN evals' : /\ Head(evals).seq < evals'[i].seq
                                     /\ \E j \in DOMAIN evals : evals'[i] = evals[j]
         /\ \A j \in DOMAIN evals :
              evals[j] = Head(evals) \/ \E i \in DOMAIN evals' : evals'[i] = evals[j]
         /\ \E j \in DOMAIN evals : Head(evals) = evals[j]
<1>1. evals \in Seq(Payload) /\ Len(evals) \in Nat \ {0} /\ DOMAIN evals = 1 .. Len(evals)
  BY PageNumbers
<1>2. /\ Head(evals) = evals[1] /\ DOMAIN evals' = 1 .. Len(evals) - 1
      /\ \A i \in DOMAIN evals' : i + 1 \in DOMAIN evals /\ evals'[i] = evals[i + 1]
  BY <1>1
<1>3. \A j \in DOMAIN evals : j = 1 \/ (j - 1 \in DOMAIN evals' /\ evals'[j - 1] = evals[j])
  BY <1>1, <1>2
<1>4. EvalsInOrder'
  <2> SUFFICES ASSUME NEW i \in DOMAIN evals', NEW j \in DOMAIN evals', i < j
               PROVE  evals'[i].seq < evals'[j].seq
    BY DEF EvalsInOrder
  <2>1. i + 1 < j + 1
    BY <1>1, <1>2
  <2> QED BY <1>2, <2>1 DEF EvalsInOrder
<1>5. \A i \in DOMAIN evals' : 1 < i + 1 /\ 1 \in DOMAIN evals
  BY <1>1, <1>2
<1>6. \A i \in DOMAIN evals' : Head(evals).seq < evals'[i].seq
  BY <1>2, <1>5 DEF EvalsInOrder
<1>7. \A j \in DOMAIN evals :
        evals[j] = Head(evals) \/ \E i \in DOMAIN evals' : evals'[i] = evals[j]
  BY <1>2, <1>3
<1>8. \E j \in DOMAIN evals : Head(evals) = evals[j]
  BY <1>1, <1>2
<1> QED BY <1>2, <1>4, <1>6, <1>7, <1>8

LEMMA RunEvalMInv ==
  ASSUME PInv, MInv, RunEval
  PROVE  MInv'
<1> USE DEF MInv
<1>1. /\ UNCHANGED <<seq, out, step, replies, window, phase, bootSeq, subscribed, posted,
                     overtaken>>
      /\ evals # <<>> /\ evals' = Tail(evals)
      /\ IF phase = "booted" THEN ApplyPush(Head(evals)) ELSE UNCHANGED <<view, heard, endHeard>>
  BY DEF RunEval, core
<1>2. PICK p \in Payload : p = Head(evals)
  BY <1>1, Taken
<1>3. /\ EvalsInOrder'
      /\ \A i \in DOMAIN evals' : /\ p.seq < evals'[i].seq
                                  /\ \E j \in DOMAIN evals : evals'[i] = evals[j]
      /\ \A j \in DOMAIN evals :
           evals[j] = p \/ \E i \in DOMAIN evals' : evals'[i] = evals[j]
      /\ \E j \in DOMAIN evals : p = evals[j]
  BY <1>1, <1>2, TakenInOrder
<1>4. Listening'
  BY <1>1 DEF Listening
<1>5. \A q \in Payload : Sent(q)' => Sent(q)
  BY <1>1, <1>3 DEF Sent
<1>6. CASE phase # "booted"
  <2>1. posted = {} /\ overtaken = 0 /\ UNCHANGED view
    BY <1>1, <1>6 DEF Listening
  <2> QED BY <1>1, <1>3, <1>4, <1>5, <1>6, <2>1
          DEF Newest, Unpushed, Reached, AnswerHeard, MissedOnlyByRace
<1>7. CASE phase = "booted"
  <2>1. /\ view'.seq = IF p.seq <= view.seq THEN view.seq ELSE p.seq
        /\ \A s : Heard(s) => Heard(s)'
        /\ subscribed /\ p.seq > view.seq => Heard(p.seq)'
    BY <1>1, <1>2, <1>7, Applied
  <2>2. p.seq \in Nat /\ view.seq \in Nat
    BY Numbers
  <2>3. Newest'
    <3> SUFFICES ASSUME Unpushed PROVE Newest'
      BY <1>1 DEF Newest, Unpushed
    <3>1. p.seq < seq
      BY <1>3 DEF Newest, Sent
    <3>2. view'.seq < seq \/ view'.seq <= bootSeq
      BY <2>1, <3>1 DEF Newest
    <3> QED BY <1>1, <1>5, <3>2 DEF Newest
  <2>4. Reached'
    <3>1. CASE p.seq <= view.seq
      BY <1>1, <1>3, <2>1, <3>1 DEF Reached
    <3>2. CASE ~(p.seq <= view.seq)
      <4>1. view'.seq = p.seq
        BY <2>1, <3>2
      <4>2. overtaken <= view'.seq
        BY <2>2, <3>2, <4>1, PageNumbers DEF Reached
      <4>3. \A i \in DOMAIN evals' : view'.seq < evals'[i].seq
        BY <1>3, <4>1
      <4> QED BY <1>1, <4>2, <4>3 DEF Reached
    <3> QED BY <3>1, <3>2
  <2>5. AnswerHeard'
    BY <1>1, <2>1 DEF AnswerHeard
  <2>6. MissedOnlyByRace'
    <3> SUFFICES ASSUME NEW s \in posted
                 PROVE  \/ Heard(s)'
                        \/ \E i \in DOMAIN evals' : evals'[i].seq = s
                        \/ s < overtaken \/ s <= bootSeq
      BY <1>1 DEF MissedOnlyByRace, Heard
    <3>1. subscribed /\ s \in Nat
      BY PageNumbers DEF Listening
    <3>2. CASE s = p.seq
      <4>1. CASE p.seq > view.seq
        BY <2>1, <3>1, <3>2, <4>1
      <4>2. CASE p.seq <= view.seq
        <5>1. view.seq <= bootSeq \/ view.seq = overtaken
          BY <1>3, <1>7, <2>2, <4>2 DEF Reached
        <5> QED BY <2>1, <2>2, <3>2, <4>2, <5>1, PageNumbers DEF AnswerHeard
      <4> QED BY <2>2, <4>1, <4>2
    <3>3. CASE s # p.seq
      <4>1. \/ Heard(s) \/ s < overtaken \/ s <= bootSeq
            \/ \E j \in DOMAIN evals : evals[j].seq = s
        BY DEF MissedOnlyByRace, Heard
      <4> QED BY <1>3, <2>1, <3>3, <4>1
    <3> QED BY <3>2, <3>3
  <2> QED BY <1>3, <1>4, <2>3, <2>4, <2>5, <2>6
<1> QED BY <1>6, <1>7

LEMMA DeliverReplyMInv ==
  ASSUME PInv, MInv, NEW p \in replies, DeliverReply(p)
  PROVE  MInv'
<1> USE DEF MInv
<1>1. /\ UNCHANGED <<seq, out, step, evals, window, phase, bootSeq, subscribed, posted>>
      /\ replies' = replies \ {p} /\ ApplyPush(p)
      /\ overtaken' = IF p.seq > overtaken THEN p.seq ELSE overtaken
  BY DEF DeliverReply, core
<1>2. p \in Payload /\ phase = "booted" /\ Sent(p)
  BY DEF PInv, TypeOK, Clean, Sent
<1>3. p.seq \in Nat /\ view.seq \in Nat /\ overtaken \in Nat
  BY <1>2, Numbers, PageNumbers
<1>4. Listening' /\ EvalsInOrder'
  BY <1>1, <1>2 DEF Listening, EvalsInOrder
<1>5. \A q \in Payload : Sent(q)' => Sent(q)
  BY <1>1 DEF Sent
<1>6. /\ view'.seq = IF p.seq <= view.seq THEN view.seq ELSE p.seq
      /\ \A s : Heard(s) => Heard(s)'
      /\ subscribed /\ p.seq > view.seq => Heard(p.seq)'
  BY <1>1, <1>2, Applied
<1>7. Newest'
  <2> SUFFICES ASSUME Unpushed PROVE Newest'
    BY <1>1 DEF Newest, Unpushed
  <2>1. p.seq < seq
    BY <1>2 DEF Newest
  <2>2. /\ view'.seq < seq \/ view'.seq <= bootSeq
        /\ overtaken' < seq
    BY <1>1, <1>6, <2>1 DEF Newest
  <2> QED BY <1>1, <1>5, <2>2 DEF Newest
<1>8. Reached'
  BY <1>1, <1>2, <1>3, <1>6 DEF Reached
<1>9. AnswerHeard'
  <2>1. CASE p.seq > overtaken
    <3> SUFFICES ASSUME p.seq \in posted PROVE p.seq <= bootSeq \/ Heard(p.seq)'
      BY <1>1, <2>1 DEF AnswerHeard, Heard
    <3>1. subscribed
      BY DEF Listening
    <3>2. CASE p.seq > view.seq
      BY <1>6, <3>1, <3>2
    <3>3. CASE p.seq <= view.seq
      <4>1. (\A i \in DOMAIN evals : evals[i].seq # p.seq) \/ p.seq <= bootSeq
        BY <1>2, <1>3, <2>1, <3>3, PageNumbers DEF Reached
      <4>2. Heard(p.seq) \/ p.seq <= bootSeq
        BY <1>3, <2>1, <4>1 DEF MissedOnlyByRace, Heard
      <4> QED BY <1>6, <4>2
    <3> QED BY <1>3, <3>2, <3>3
  <2>2. CASE ~(p.seq > overtaken)
    BY <1>1, <1>6, <2>2 DEF AnswerHeard, Heard
  <2> QED BY <2>1, <2>2
<1>10. MissedOnlyByRace'
  <2> SUFFICES ASSUME NEW s \in posted
               PROVE  \/ Heard(s)'
                      \/ \E i \in DOMAIN evals : evals[i].seq = s
                      \/ s < overtaken' \/ s <= bootSeq
    BY <1>1 DEF MissedOnlyByRace, Heard
  <2>1. s \in Nat
    BY PageNumbers
  <2>2. \/ Heard(s) \/ s < overtaken \/ s <= bootSeq
        \/ \E i \in DOMAIN evals : evals[i].seq = s
    BY DEF MissedOnlyByRace, Heard
  <2> QED BY <1>1, <1>3, <1>6, <2>1, <2>2
<1> QED BY <1>4, <1>7, <1>8, <1>9, <1>10

LEMMA StepMInv == PInv /\ OInv /\ MInv /\ Next => MInv'
<1> SUFFICES ASSUME PInv, OInv, MInv, Next PROVE MInv'
  OBVIOUS
<1> USE DEF core, channels, page, history
<1>1. ASSUME NEW kind \in {"data", "retry"}, Change(kind) PROVE MInv'
  BY <1>1, IssuesMInv DEF Change, Kinds
<1>2. CASE SelectBatch \/ EmitEndShift
  BY <1>2, IssuesMInv DEF SelectBatch, EmitEndShift, Kinds
<1>3. CASE BeginEndShift \/ Space \/ BootNotice \/ ResetDemo
  BY <1>3, QuietMInv DEF BeginEndShift, Space, BootNotice, ResetDemo, Idle, Unpushed
<1>4. CASE Refresh
  BY <1>4, QuietMInv DEF Refresh, Unpushed, Sent
<1>5. CASE Push
  BY <1>5, PushMInv
<1>6. CASE Settle
  BY <1>6, IssuesMInv, QuietMInv DEF Settle, Kinds, Unpushed
<1>7. CASE Answer
  BY <1>7, QuietMInv DEF Answer, Unpushed
<1>8. ASSUME NEW s \in attaches, BridgeAttached(s) PROVE MInv'
  BY <1>8, IssuesMInv, QuietMInv DEF BridgeAttached, Kinds, Idle, Unpushed
<1>9. CASE Reload \/ WindowLost
  BY <1>9, UnloadMInv
<1>10. CASE RenderInitScript \/ WindowBuilt
  <2>1. /\ UNCHANGED <<seq, out, step, evals, replies, view, bootSeq, subscribed, posted, heard,
                       overtaken>>
        /\ phase # "booted" /\ phase' # "booted" /\ (phase' = "loading" => window')
    BY <1>10 DEF RenderInitScript, WindowBuilt
  <2>2. \A p \in Payload : Sent(p)' => Sent(p)
    BY <2>1 DEF Sent
  <2> QED BY <2>1, <2>2 DEF MInv, Listening, Newest, Unpushed, EvalsInOrder, Reached,
                            AnswerHeard, Heard, MissedOnlyByRace
<1>11. CASE BootPull \/ BootFallback
  BY <1>11, AttachMInv DEF BootPull, BootFallback
<1>12. CASE Subscribe
  <2>1. /\ UNCHANGED <<seq, out, step, evals, replies, window, phase, view, bootSeq, posted,
                       heard, overtaken>>
        /\ phase = "booted" /\ ~subscribed /\ subscribed'
    BY <1>12 DEF Subscribe
  <2>2. \A p \in Payload : Sent(p)' => Sent(p)
    BY <2>1 DEF Sent
  <2> QED BY <2>1, <2>2 DEF MInv, Listening, Newest, Unpushed, EvalsInOrder, Reached,
                            AnswerHeard, Heard, MissedOnlyByRace
<1>13. CASE RunEval
  BY <1>13, RunEvalMInv
<1>14. ASSUME NEW p \in replies, DeliverReply(p) PROVE MInv'
  BY <1>14, DeliverReplyMInv
<1> QED BY <1>1, <1>2, <1>3, <1>4, <1>5, <1>6, <1>7, <1>8, <1>9, <1>10, <1>11, <1>12, <1>13,
           <1>14 DEF Next, CoreStep, PageStep

LEMMA AlwaysMInv == Spec => []MInv
<1>1. MInv /\ UNCHANGED vars => MInv'
  <2> SUFFICES ASSUME MInv, UNCHANGED vars PROVE MInv'
    OBVIOUS
  <2> QED BY QuietMInv DEF vars, core, channels, page, history, Unpushed, Sent
<1>2. PInv /\ OInv /\ MInv /\ [Next]_vars => MInv'
  BY <1>1, StepMInv
<1> QED BY <1>2, InitMInv, Types, Order, PTL DEF Spec

\* Of the payloads evaluated for it a listener misses only those an answer overtook or the
\* boot snapshot already held, for any number of calls, answers and reloads (adapter.ts,
\* applyPush; push.rs).
THEOREM OnlyRacesDrop == Spec => []MissedOnlyByRace
<1>1. MInv => MissedOnlyByRace
  BY DEF MInv
<1> QED BY <1>1, AlwaysMInv, PTL
-----------------------------------------------------------------------------
(* The screen catches up.                                                  *)

\* The boot cache is behind only while the payload that changed the snapshot refreshes it.
CacheCurrent ==
    /\ step = "refreshing" => cache.seq < seq
    /\ cache.rev = rev \/ (step = "refreshing" /\ out.rev = rev)

\* A baked script that is behind shows it by its sequence number, save after a reset.
BakedCurrent == ~unbaked /\ baked.seq = seq => baked.rev = rev

\* An answer on its way, or kept for its caller.
Reply(p) == p \in replies \/ (answer # None /\ p = answer)

\* Answers carry snapshots.
Carrying == \A p \in Payload : Reply(p) => p.rev # None

\* One number, one snapshot.
OneNumber ==
    \A p, q \in Payload : Travelling(p) /\ Travelling(q) /\ p.seq = q.seq => p.rev = q.rev

\* The payload carries the newest snapshot, and the adapter will take it.
Brings(p) == p.rev = rev /\ view.seq < p.seq

\* A page that does not show the newest snapshot will be brought it.
Brought ==
    phase = "booted" /\ ~owed /\ ~unbaked =>
      \/ view.rev = rev
      \/ Unpushed /\ Brings(out)
      \/ \E i \in DOMAIN evals : Brings(evals[i])
      \/ \E s \in attaches : s < seq

CInv == CacheCurrent /\ BakedCurrent /\ Carrying /\ OneNumber /\ Brought

LEMMA InitCInv == Init => CInv
<1> SUFFICES ASSUME Init PROVE CInv
  OBVIOUS
<1>1. \A p \in Payload : ~Travelling(p) /\ ~Reply(p)
  BY DEF Init, Travelling, Sent, Handling, Reply
<1> QED BY <1>1 DEF Init, Start, CInv, CacheCurrent, BakedCurrent, Carrying, OneNumber, Brought

\* A step that adds no payload and leaves the adapter alone.
LEMMA QuietCInv ==
  ASSUME CInv, UNCHANGED <<seq, rev, out, cache, baked, owed, unbaked, phase, view, evals>>,
         step' = step \/ (step # "refreshing" /\ step' # "refreshing" /\ (Unpushed => Unpushed')),
         \A p \in Payload : (Travelling(p)' => Travelling(p)) /\ (Reply(p)' => Reply(p)),
         \A s \in attaches : s < seq => s \in attaches'
  PROVE  CInv'
<1> USE DEF CInv
<1>1. CacheCurrent' /\ BakedCurrent' /\ Carrying' /\ OneNumber'
  BY DEF CacheCurrent, BakedCurrent, Carrying, OneNumber
<1>2. Brought'
  BY DEF Brought, Brings, Unpushed
<1> QED BY <1>1, <1>2

\* A payload that changes the snapshot will bring it; another leaves what brings it.
LEMMA IssuesCInv ==
  ASSUME PInv, OInv, CInv, NEW kind \in Kinds, Issue(kind), ~Unpushed,
         UNCHANGED <<cache, baked, owed, unbaked, phase, view, evals, replies>>,
         answer' = answer \/ (kind = "data" /\ answer' = out'),
         kind # "data" => attaches' = attaches
  PROVE  CInv'
<1> USE DEF CInv
<1>1. /\ seq' = seq + 1 /\ rev' \in {rev, rev + 1} /\ out' \in Payload /\ out'.seq = seq'
      /\ step' = "refreshing"
  BY IssueType DEF PInv
<1>2. /\ rev' # rev => out'.rev = rev'
      /\ kind = "data" => rev' # rev /\ out'.rev # None
  BY Numbers, PageAssumption DEF Issue
<1>3. CacheCurrent'
  BY <1>1, <1>2, Numbers DEF CacheCurrent, Unpushed, OInv, Numbered
<1>4. BakedCurrent'
  BY <1>1, Numbers DEF BakedCurrent, OInv, Numbered
<1>5. Carrying'
  BY <1>2 DEF Carrying, Reply
<1>6. \A p \in Payload : Travelling(p)' => p = out' \/ (Travelling(p) /\ p.seq <= seq)
  BY DEF Travelling, Sent, OInv, Numbered
<1>7. OneNumber'
  <2> SUFFICES ASSUME NEW p \in Payload, NEW q \in Payload, Travelling(p)', Travelling(q)',
                      p.seq = q.seq
               PROVE  p.rev = q.rev
    BY DEF OneNumber
  <2> QED BY <1>1, <1>6, Numbers DEF OneNumber
<1>8. Brought'
  <2>1. view.seq < seq'
    BY <1>1, Numbers DEF OInv, Numbered
  <2>2. CASE rev' # rev
    <3>1. Unpushed' /\ Brings(out)'
      BY <1>1, <1>2, <2>1, <2>2 DEF Unpushed, Brings
    <3> QED BY <3>1 DEF Brought
  <2>3. CASE rev' = rev
    <3>1. \A s \in attaches : s < seq => s \in attaches' /\ s < seq'
      BY <1>1, <1>2, <2>3, Numbers DEF PInv, TypeOK
    <3> QED BY <2>3, <3>1 DEF Brought, Brings, Unpushed
  <2> QED BY <2>2, <2>3
<1> QED BY <1>3, <1>4, <1>5, <1>7, <1>8

LEMMA RefreshCInv ==
  ASSUME PInv, CInv, Refresh
  PROVE  CInv'
<1> USE DEF CInv, channels, page, history
<1>1. /\ UNCHANGED <<seq, rev, out, baked, owed, unbaked, phase, view, evals, attaches, answer,
                     replies>>
      /\ step = "refreshing" /\ step' = "pushing" /\ cache'.rev = rev
  BY DEF Refresh
<1>2. \A p \in Payload : (Travelling(p)' => Travelling(p)) /\ (Reply(p)' => Reply(p))
  BY <1>1 DEF Travelling, Sent, Handling, Reply
<1>3. CacheCurrent' /\ BakedCurrent' /\ Carrying' /\ OneNumber'
  BY <1>1, <1>2 DEF CacheCurrent, BakedCurrent, Carrying, OneNumber
<1>4. Brought'
  BY <1>1 DEF Brought, Brings, Unpushed
<1> QED BY <1>3, <1>4

LEMMA PushCInv ==
  ASSUME PInv, MInv, CInv, Push
  PROVE  CInv'
<1> USE DEF CInv, channels, page, history
<1>1. /\ UNCHANGED <<seq, rev, out, baked, cache, owed, unbaked, phase, view, attaches, answer,
                     replies, window>>
      /\ step = "pushing" /\ step' \in {"answering", "settling"} /\ Handling
      /\ evals' = IF window THEN Append(evals, out) ELSE evals
  BY DEF Push, Handling
<1>2. out \in Payload
  BY <1>1 DEF PInv, HasPayload
<1>3. CASE window
  <2>1. /\ DOMAIN evals = 1 .. Len(evals) /\ Len(evals) \in Nat
        /\ DOMAIN evals' = 1 .. Len(evals) + 1
        /\ \A i \in 1 .. Len(evals) : evals'[i] = evals[i]
        /\ evals'[Len(evals) + 1] = out
    BY <1>1, <1>2, <1>3, AppendHolds, PageNumbers
  <2>2. /\ \A i \in DOMAIN evals' : evals'[i] = out \/ \E j \in DOMAIN evals : evals'[i] = evals[j]
        /\ \A i \in DOMAIN evals : i \in DOMAIN evals' /\ evals'[i] = evals[i]
        /\ \E i \in DOMAIN evals' : evals'[i] = out
    BY <2>1
  <2>3. \A p \in Payload : Travelling(p)' => Travelling(p)
    BY <1>1, <2>2 DEF Travelling, Sent, Handling
  <2>4. CacheCurrent' /\ BakedCurrent' /\ Carrying' /\ OneNumber'
    BY <1>1, <2>3 DEF CacheCurrent, BakedCurrent, Carrying, Reply, OneNumber
  <2>5. Brought'
    BY <1>1, <2>2 DEF Brought, Brings
  <2> QED BY <2>4, <2>5
<1>4. CASE ~window
  <2>1. \A p \in Payload : Travelling(p)' => Travelling(p)
    BY <1>1, <1>4 DEF Travelling, Sent, Handling
  <2>2. CacheCurrent' /\ BakedCurrent' /\ Carrying' /\ OneNumber'
    BY <1>1, <2>1 DEF CacheCurrent, BakedCurrent, Carrying, Reply, OneNumber
  <2>3. Brought'
    BY <1>1, <1>4 DEF Brought, MInv, Listening
  <2> QED BY <2>2, <2>3
<1> QED BY <1>3, <1>4

\* A document that goes away, or is not there yet, shows nothing.
LEMMA ClosedCInv ==
  ASSUME PInv, OInv, CInv, phase' # "booted", UNCHANGED <<seq, rev, out, step, cache>>,
         evals' = evals \/ DOMAIN evals' = {},
         replies' \subseteq replies, answer' = answer \/ answer' = None,
         UNCHANGED <<baked, unbaked>> \/ baked' = cache
  PROVE  CInv'
<1> USE DEF CInv
<1>1. \A p \in Payload : (Travelling(p)' => Travelling(p)) /\ (Reply(p)' => Reply(p))
  BY DEF Travelling, Sent, Handling, Reply
<1>2. CacheCurrent' /\ Carrying' /\ OneNumber' /\ Brought'
  BY <1>1 DEF CacheCurrent, Carrying, OneNumber, Brought
<1>3. BakedCurrent'
  BY Numbers DEF BakedCurrent, CacheCurrent
<1> QED BY <1>2, <1>3

\* A page that boots behind the core has told it so, save from a script baked before a reset.
LEMMA AttachCInv ==
  ASSUME PInv, OInv, MInv, CInv, NEW boot \in {cache, baked}, Attach(boot)
  PROVE  CInv'
<1> USE DEF CInv
<1>1. /\ UNCHANGED <<seq, rev, out, step, cache, answer, baked, evals, replies, owed, unbaked>>
      /\ view' = boot /\ attaches' = attaches \cup {boot.seq}
  BY DEF Attach, history
<1>2. \A p \in Payload : (Travelling(p)' => Travelling(p)) /\ (Reply(p)' => Reply(p))
  BY <1>1 DEF Travelling, Sent, Handling, Reply
<1>3. CacheCurrent' /\ BakedCurrent' /\ Carrying' /\ OneNumber'
  BY <1>1, <1>2 DEF CacheCurrent, BakedCurrent, Carrying, OneNumber
<1>4. Brought'
  <2> SUFFICES ASSUME ~unbaked
               PROVE  \/ boot.rev = rev
                      \/ Unpushed /\ out.rev = rev /\ boot.seq < out.seq
                      \/ boot.seq < seq
    BY <1>1 DEF Brought, Brings, Unpushed
  <2>1. CASE boot = cache
    BY <2>1, Numbers DEF CacheCurrent, Unpushed, MInv, Newest
  <2>2. CASE boot = baked
    BY <2>2, Numbers DEF BakedCurrent, OInv, Numbered
  <2> QED BY <2>1, <2>2
<1> QED BY <1>3, <1>4

\* The adapter applies a payload: it shows the newest snapshot, or what brings it is newer.
LEMMA ApplyCInv ==
  ASSUME PInv, OInv, MInv, CInv, NEW p \in Payload, Sent(p), ApplyPush(p),
         UNCHANGED <<seq, rev, out, step, cache, answer, baked, owed, unbaked, phase, attaches>>,
         \A q \in Payload : (Travelling(q)' => Travelling(q)) /\ (Reply(q)' => Reply(q)),
         \A i \in DOMAIN evals : \/ evals[i] = p
                                 \/ \E j \in DOMAIN evals' : evals'[j] = evals[i],
         p.rev # None \/ \A i \in DOMAIN evals : p.seq <= evals[i].seq
  PROVE  CInv'
<1> USE DEF CInv
<1>1. CacheCurrent' /\ BakedCurrent' /\ Carrying' /\ OneNumber'
  BY DEF CacheCurrent, BakedCurrent, Carrying, OneNumber
<1>2. /\ view'.seq = IF p.seq <= view.seq THEN view.seq ELSE p.seq
      /\ view'.rev = IF p.seq <= view.seq \/ p.rev = None THEN view.rev ELSE p.rev
  BY Numbers DEF ApplyPush, Stale
<1>3. /\ p.seq \in Nat /\ view.seq \in Nat /\ view.rev \in Nat /\ rev \in Nat
      /\ view.rev <= rev /\ (p.rev # None => p.rev \in Nat /\ p.rev <= rev)
      /\ view.seq < p.seq /\ p.rev # None => view.rev <= p.rev
      /\ Travelling(p)
  BY Numbers DEF OInv, Numbered, Older, Travelling
<1>4. Brought'
  <2> SUFFICES ASSUME phase = "booted", ~owed, ~unbaked PROVE Brought'
    BY DEF Brought
  <2>1. CASE view.rev = rev
    <3>1. view'.rev = rev
      BY <1>2, <1>3, <2>1
    <3> QED BY <3>1 DEF Brought
  <2>2. CASE Unpushed /\ Brings(out)
    <3>1. p.seq < out.seq
      BY <2>2 DEF MInv, Newest
    <3>2. view'.seq < out.seq /\ out.rev = rev
      BY <1>2, <2>2, <3>1 DEF Brings
    <3>3. Unpushed' /\ Brings(out)'
      BY <2>2, <3>2 DEF Unpushed, Brings
    <3> QED BY <3>3 DEF Brought
  <2>3. ASSUME NEW i \in DOMAIN evals, Brings(evals[i]) PROVE Brought'
    <3>1. PICK q \in Payload : q = evals[i] /\ q.seq \in Nat
      BY PageNumbers
    <3>2. q.rev = rev /\ view.seq < q.seq /\ Travelling(q) /\ q.rev # None
      BY <1>3, <2>3, <3>1, PageAssumption DEF Brings, Travelling, Sent
    <3>3. CASE p.seq < q.seq
      <4>1. view'.seq < q.seq
        BY <1>2, <3>2, <3>3
      <4>2. q # p
        BY <1>3, <3>3
      <4>3. PICK j \in DOMAIN evals' : evals'[j] = q
        BY <3>1, <4>2
      <4>4. Brings(evals[j])'
        BY <3>2, <4>1, <4>3 DEF Brings
      <4> QED BY <4>3, <4>4 DEF Brought
    <3>4. CASE q.seq <= p.seq
      <4>1. p.rev = rev
        <5>1. CASE q.seq = p.seq
          BY <1>3, <3>2, <5>1 DEF OneNumber
        <5>2. CASE q.seq < p.seq
          <6>1. p.rev # None
            BY <1>3, <3>1, <5>2
          <6>2. q.rev <= p.rev
            BY <1>3, <3>2, <5>2, <6>1 DEF OInv, Numbered, Older
          <6> QED BY <1>3, <3>2, <6>1, <6>2
        <5> QED BY <1>3, <3>1, <3>4, <5>1, <5>2
      <4>2. view.seq < p.seq
        BY <1>3, <3>1, <3>2, <3>4
      <4>3. view'.rev = rev
        BY <1>2, <1>3, <4>1, <4>2, PageAssumption
      <4> QED BY <4>3 DEF Brought
    <3> QED BY <1>3, <3>1, <3>3, <3>4
  <2>4. CASE \E s \in attaches : s < seq
    BY <2>4 DEF Brought
  <2> QED BY <2>1, <2>2, <2>3, <2>4 DEF Brought
<1> QED BY <1>1, <1>4

LEMMA CoreStepCInv == PInv /\ OInv /\ MInv /\ CInv /\ CoreStep => CInv'
<1> SUFFICES ASSUME PInv, OInv, MInv, CInv, CoreStep PROVE CInv'
  OBVIOUS
<1> USE DEF core, channels, page, history
<1>1. ASSUME NEW kind \in {"data", "retry"}, Change(kind) PROVE CInv'
  BY <1>1, IssuesCInv DEF Change, Kinds, Idle, Unpushed
<1>2. CASE SelectBatch \/ EmitEndShift
  BY <1>2, IssuesCInv DEF SelectBatch, EmitEndShift, Kinds, Idle, Unpushed
<1>3. CASE BeginEndShift \/ Space \/ BootNotice
  <2>1. UNCHANGED <<seq, rev, out, step, cache, baked, owed, unbaked, phase, view, evals,
                    attaches, answer, replies>>
    BY <1>3 DEF BeginEndShift, Space, BootNotice
  <2> QED BY <2>1, QuietCInv DEF Travelling, Sent, Handling, Reply
<1>4. CASE Refresh
  BY <1>4, RefreshCInv
<1>5. CASE Push
  BY <1>5, PushCInv
<1>6. CASE Settle
  <2>1. CASE step' = "answering" /\ UNCHANGED <<seq, rev, out, used>>
    <3>1. step = "settling" /\ UNCHANGED <<cache, baked, owed, unbaked, phase, view, evals,
                                           attaches, answer, replies>>
      BY <1>6 DEF Settle
    <3>2. \A p \in Payload : (Travelling(p)' => Travelling(p)) /\ (Reply(p)' => Reply(p))
      BY <2>1, <3>1 DEF Travelling, Sent, Handling, Reply
    <3> QED BY <2>1, <3>1, <3>2, QuietCInv DEF Unpushed
  <2>2. CASE Issue("flip")
    BY <1>6, <2>2, IssuesCInv DEF Settle, Kinds, Unpushed
  <2> QED BY <1>6, <2>1, <2>2 DEF Settle
<1>7. CASE Answer
  <2>1. /\ UNCHANGED <<seq, rev, cache, baked, owed, unbaked, phase, view, evals, attaches>>
        /\ step = "answering" /\ step' = "idle" /\ answer' = None
        /\ replies' = IF answer # None THEN replies \cup {answer} ELSE replies
    BY <1>7 DEF Answer
  <2>2. \A p \in Payload : (Travelling(p)' => Travelling(p)) /\ (Reply(p)' => Reply(p))
    BY <2>1 DEF Travelling, Sent, Handling, Reply
  <2>3. CacheCurrent' /\ BakedCurrent' /\ Carrying' /\ OneNumber'
    BY <2>1, <2>2 DEF CInv, CacheCurrent, BakedCurrent, Carrying, OneNumber
  <2>4. Brought'
    BY <2>1 DEF CInv, Brought, Brings, Unpushed
  <2> QED BY <2>3, <2>4 DEF CInv
<1>8. ASSUME NEW s \in attaches, BridgeAttached(s) PROVE CInv'
  <2>1. CASE s < seq
    BY <1>8, <2>1, IssuesCInv DEF BridgeAttached, Kinds, Idle, Unpushed
  <2>2. CASE ~(s < seq)
    <3>1. /\ UNCHANGED <<seq, rev, out, step, cache, baked, owed, unbaked, phase, view, evals,
                         answer, replies>>
          /\ attaches' = attaches \ {s}
      BY <1>8, <2>2 DEF BridgeAttached
    <3> QED BY <2>2, <3>1, QuietCInv DEF Travelling, Sent, Handling, Reply
  <2> QED BY <2>1, <2>2
<1>9. CASE ResetDemo
  <2>1. /\ UNCHANGED <<out, answer, phase, view, window, baked, replies, evals, step>>
        /\ seq' \in Nat /\ cache'.rev = rev' /\ step = "idle" /\ owed' = window /\ unbaked'
    BY <1>9, Numbers DEF ResetDemo, Idle
  <2>2. \A p \in Payload : (Travelling(p)' => Travelling(p)) /\ (Reply(p)' => Reply(p))
    BY <2>1 DEF Travelling, Sent, Handling, Reply
  <2> QED BY <2>1, <2>2
          DEF CInv, CacheCurrent, BakedCurrent, Carrying, OneNumber, Brought
<1> QED BY <1>1, <1>2, <1>3, <1>4, <1>5, <1>6, <1>7, <1>8, <1>9 DEF CoreStep

LEMMA PageStepCInv == PInv /\ OInv /\ MInv /\ CInv /\ PageStep => CInv'
<1> SUFFICES ASSUME PInv, OInv, MInv, CInv, PageStep PROVE CInv'
  OBVIOUS
<1> USE DEF core, channels, page, history
<1>1. CASE Reload \/ WindowLost
  BY <1>1, ClosedCInv DEF Reload, WindowLost, Unload
<1>2. CASE RenderInitScript \/ WindowBuilt
  BY <1>2, ClosedCInv DEF RenderInitScript, WindowBuilt
<1>3. CASE BootPull \/ BootFallback
  BY <1>3, AttachCInv DEF BootPull, BootFallback
<1>4. CASE Subscribe
  <2>1. UNCHANGED <<seq, rev, out, step, cache, baked, owed, unbaked, phase, view, evals,
                    attaches, answer, replies>>
    BY <1>4 DEF Subscribe
  <2> QED BY <2>1, QuietCInv DEF Travelling, Sent, Handling, Reply
<1>5. CASE RunEval
  <2>1. /\ UNCHANGED <<seq, rev, out, step, cache, answer, replies, baked, owed, unbaked, phase,
                       attaches>>
        /\ evals # <<>> /\ evals' = Tail(evals)
    BY <1>5 DEF RunEval
  <2>2. PICK p \in Payload : p = Head(evals)
    BY <2>1, Taken
  <2>3. /\ \A i \in DOMAIN evals' : /\ p.seq < evals'[i].seq
                                    /\ \E j \in DOMAIN evals : evals'[i] = evals[j]
        /\ \A j \in DOMAIN evals :
             evals[j] = p \/ \E i \in DOMAIN evals' : evals'[i] = evals[j]
        /\ Sent(p)
    BY <2>1, <2>2, TakenInOrder DEF MInv, Sent
  <2>4. \A q \in Payload : (Travelling(q)' => Travelling(q)) /\ (Reply(q)' => Reply(q))
    BY <2>1, <2>3 DEF Travelling, Sent, Handling, Reply
  <2>5. CASE phase = "booted"
    <3>1. ApplyPush(p)
      BY <1>5, <2>2, <2>5 DEF RunEval
    <3>2. \A i \in DOMAIN evals : p.seq <= evals[i].seq
      <4> SUFFICES ASSUME NEW i \in DOMAIN evals PROVE p.seq <= evals[i].seq
        OBVIOUS
      <4>1. CASE evals[i] = p
        BY <4>1, Numbers
      <4>2. ASSUME NEW j \in DOMAIN evals', evals'[j] = evals[i] PROVE p.seq <= evals[i].seq
        <5>1. p.seq < evals[i].seq /\ evals[i].seq \in Nat /\ p.seq \in Nat
          BY <2>3, <4>2, Numbers, PageNumbers
        <5> QED BY <5>1
      <4> QED BY <2>3, <4>1, <4>2
    <3> QED BY <2>1, <2>3, <2>4, <3>1, <3>2, ApplyCInv
  <2>6. CASE phase # "booted"
    <3>1. CacheCurrent' /\ BakedCurrent' /\ Carrying' /\ OneNumber'
      BY <2>1, <2>4 DEF CInv, CacheCurrent, BakedCurrent, Carrying, OneNumber
    <3> QED BY <2>1, <2>6, <3>1 DEF CInv, Brought
  <2> QED BY <2>5, <2>6
<1>6. ASSUME NEW p \in replies, DeliverReply(p) PROVE CInv'
  <2>1. /\ UNCHANGED <<seq, rev, out, step, cache, answer, evals, baked, owed, unbaked, phase,
                       attaches>>
        /\ replies' = replies \ {p} /\ ApplyPush(p)
    BY <1>6 DEF DeliverReply
  <2>2. \A q \in Payload : (Travelling(q)' => Travelling(q)) /\ (Reply(q)' => Reply(q))
    BY <2>1 DEF Travelling, Sent, Handling, Reply
  <2>3. p \in Payload /\ Sent(p) /\ p.rev # None
    BY DEF PInv, TypeOK, Sent, CInv, Carrying, Reply
  <2> QED BY <2>1, <2>2, <2>3, ApplyCInv
<1> QED BY <1>1, <1>2, <1>3, <1>4, <1>5, <1>6 DEF PageStep

LEMMA AlwaysCInv == Spec => []CInv
<1>1. CInv /\ UNCHANGED vars => CInv'
  <2> SUFFICES ASSUME CInv, UNCHANGED vars PROVE CInv'
    OBVIOUS
  <2> QED BY QuietCInv DEF vars, core, channels, page, history, Travelling, Sent, Handling, Reply
<1>2. PInv /\ OInv /\ MInv /\ CInv /\ [Next]_vars => CInv'
  BY <1>1, CoreStepCInv, PageStepCInv DEF Next
<1> QED BY <1>2, InitCInv, Types, Order, AlwaysMInv, PTL DEF Spec

\* When nothing is on its way the page shows the core's snapshot, however it booted and
\* whatever overtook what (adapter.ts; boot.rs; actor.rs, on_bridge_attached).
THEOREM ScreenCurrent == Spec => []PageCurrent
<1>1. CInv => PageCurrent
  <2> SUFFICES ASSUME CInv, AllDelivered, ~owed, ~unbaked PROVE view.rev = rev
    BY DEF PageCurrent
  <2>1. DOMAIN evals = {} /\ attaches = {} /\ ~Unpushed /\ phase = "booted"
    BY DEF AllDelivered, Idle, Unpushed
  <2> QED BY <2>1 DEF CInv, Brought
<1> QED BY <1>1, AlwaysCInv, PTL
-----------------------------------------------------------------------------
(* The end of the shift is heard.                                          *)

\* An end armed, or confirmed, for a page that was there to hear of it and still is.
Exposing == (ends.armed \/ ends.confirmed) /\ ~endExposed

\* Nobody waits for the answer of an emission.
NoAnswer == Idle \/ (Handling /\ out.kind = "end-shift") => answer = None

\* The listener will get the end of the shift when the page takes the payload.
WillHear(e) ==
    /\ subscribed /\ e.kind = "end-shift" /\ view.seq < e.seq
    /\ \A p \in Payload : Reply(p) => p.seq < e.seq

HeardOrWill == endHeard \/ \E i \in DOMAIN evals : WillHear(evals[i])

PageWaits == Exposing => phase = "booted" /\ (subscribed \/ notice # "none")

\* The spacing outlasts the boot notice that was queued at the last emission.
NoticeRead == Exposing /\ ends.spaced /\ ends.emits > 0 => notice # "queued"

EmissionAhead ==
    Exposing /\ Unpushed /\ out.kind = "end-shift" =>
      /\ view.seq < seq
      /\ ends.emits > 0 => subscribed

\* Any emission but the first is heard.
SecondHeard ==
    /\ Exposing /\ step = "settling" /\ out.kind = "end-shift" /\ ends.emits > 0 => HeardOrWill
    /\ Exposing /\ ends.emits > 1 => HeardOrWill

ConfirmedLate == ends.confirmed => ends.emits >= EndShiftEmitsToConfirm

EInv == /\ NoAnswer /\ PageWaits /\ NoticeRead /\ EmissionAhead /\ SecondHeard
        /\ ConfirmedLate

LEMMA InitEInv == Init => EInv
<1> SUFFICES ASSUME Init PROVE EInv
  OBVIOUS
<1>1. ~ends.armed /\ ~ends.confirmed /\ answer = None
  BY DEF Init, NotEnding
<1> QED BY <1>1 DEF EInv, NoAnswer, Exposing, PageWaits, NoticeRead, EmissionAhead, SecondHeard,
                    ConfirmedLate

\* An end that is disarmed says nothing.
LEMMA DisarmedEInv ==
  ASSUME ~Exposing', ~ends'.confirmed, NoAnswer'
  PROVE  EInv'
BY DEF EInv, PageWaits, NoticeRead, EmissionAhead, SecondHeard, ConfirmedLate

\* A step that leaves the page, its channels and the end alone, and begins no emission.
LEMMA QuietEInv ==
  ASSUME EInv, UNCHANGED <<ends, endExposed, endHeard, phase, subscribed, view, evals, notice>>,
         NoAnswer',
         \A p \in Payload : Reply(p)' => Reply(p),
         Unpushed' /\ out'.kind = "end-shift" => Unpushed /\ UNCHANGED <<out, seq>>,
         step' = "settling" /\ out'.kind = "end-shift" => step = "settling" /\ UNCHANGED out
  PROVE  EInv'
<1> USE DEF EInv
<1>1. HeardOrWill => HeardOrWill'
  BY DEF HeardOrWill, WillHear
<1>2. Exposing' = Exposing
  BY DEF Exposing
<1> QED BY <1>1, <1>2
        DEF PageWaits, NoticeRead, EmissionAhead, SecondHeard, ConfirmedLate

\* An emission begins: but for the first, the page listens.
LEMMA EmitEInv ==
  ASSUME PInv, OInv, EInv, EmitEndShift
  PROVE  EInv'
<1> USE DEF EInv, channels, page, history
<1>1. /\ UNCHANGED <<answer, replies, ends, endExposed, endHeard, phase, subscribed, view, evals,
                     notice>>
      /\ Idle /\ ends.spaced /\ (notice = "handled" => subscribed) /\ Issue("end-shift")
  BY DEF EmitEndShift
<1>2. seq' = seq + 1 /\ step' = "refreshing"
  BY <1>1 DEF Issue
<1>3. HeardOrWill => HeardOrWill'
  BY <1>1 DEF HeardOrWill, WillHear, Reply
<1>4. Exposing' = Exposing
  BY <1>1 DEF Exposing
<1>5. NoAnswer'
  BY <1>1 DEF NoAnswer
<1>6. EmissionAhead'
  <2>1. view.seq < seq'
    BY <1>2, Numbers DEF OInv, Numbered
  <2>2. Exposing /\ ends.emits > 0 => subscribed
    <3>1. notice \in {"none", "queued", "handled"}
      BY DEF PInv, TypeOK
    <3> QED BY <1>1, <3>1 DEF PageWaits, NoticeRead
  <2> QED BY <1>1, <1>4, <2>1, <2>2 DEF EmissionAhead
<1>7. PageWaits' /\ NoticeRead' /\ ConfirmedLate'
  BY <1>1, <1>4 DEF PageWaits, NoticeRead, ConfirmedLate
<1>8. SecondHeard'
  BY <1>1, <1>2, <1>3, <1>4 DEF SecondHeard
<1> QED BY <1>5, <1>6, <1>7, <1>8

\* It is evaluated before any answer to come.
LEMMA PushEInv ==
  ASSUME PInv, MInv, EInv, Push
  PROVE  EInv'
<1> USE DEF EInv, channels, page, history
<1>1. /\ UNCHANGED <<seq, out, answer, replies, ends, endExposed, endHeard, phase, subscribed,
                     view, notice, window>>
      /\ step = "pushing" /\ Unpushed /\ ~Unpushed' /\ Handling
      /\ step' = IF out.kind = "flip" THEN "answering" ELSE "settling"
      /\ evals' = IF window THEN Append(evals, out) ELSE evals
  BY DEF Push, Unpushed, Handling
<1>2. out \in Payload /\ out.seq = seq
  BY <1>1 DEF PInv, HasPayload, MInv, Newest
<1>3. /\ \A i \in DOMAIN evals : i \in DOMAIN evals' /\ evals'[i] = evals[i]
      /\ window => \E i \in DOMAIN evals' : evals'[i] = out
  <2>1. CASE window
    <3>1. /\ DOMAIN evals = 1 .. Len(evals) /\ Len(evals) \in Nat
          /\ DOMAIN evals' = 1 .. Len(evals) + 1
          /\ \A i \in 1 .. Len(evals) : evals'[i] = evals[i]
          /\ evals'[Len(evals) + 1] = out
      BY <1>1, <1>2, <2>1, AppendHolds, PageNumbers
    <3> QED BY <3>1
  <2>2. CASE ~window
    BY <1>1, <2>2
  <2> QED BY <2>1, <2>2
<1>4. HeardOrWill => HeardOrWill'
  BY <1>1, <1>3 DEF HeardOrWill, WillHear, Reply
<1>5. Exposing' = Exposing
  BY <1>1 DEF Exposing
<1>6. NoAnswer'
  BY <1>1 DEF NoAnswer, Handling, Idle
<1>7. PageWaits' /\ NoticeRead' /\ ConfirmedLate' /\ EmissionAhead'
  BY <1>1, <1>5 DEF PageWaits, NoticeRead, ConfirmedLate, EmissionAhead
<1>8. ASSUME Exposing, out.kind = "end-shift", ends.emits > 0 PROVE HeardOrWill'
  <2>1. view.seq < seq /\ subscribed
    BY <1>1, <1>8 DEF EmissionAhead
  <2>2. window /\ answer = None
    BY <1>1, <1>8 DEF PageWaits, MInv, Listening, NoAnswer
  <2>3. \A p \in Payload : Reply(p) => p.seq < seq
    BY <1>1, <2>2 DEF Reply, MInv, Newest, Sent
  <2>4. PICK i \in DOMAIN evals' : evals'[i] = out
    BY <1>3, <2>2
  <2>5. WillHear(evals[i])'
    BY <1>1, <1>2, <1>8, <2>1, <2>3, <2>4 DEF WillHear, Reply
  <2> QED BY <2>4, <2>5 DEF HeardOrWill
<1>9. SecondHeard'
  BY <1>1, <1>4, <1>5, <1>8 DEF SecondHeard
<1> QED BY <1>6, <1>7, <1>9

\* The emission is counted.
LEMMA SettleEInv ==
  ASSUME PInv, OInv, EInv, Settle
  PROVE  EInv'
<1> USE DEF EInv, channels, page, history
<1>1. /\ UNCHANGED <<answer, replies, endExposed, endHeard, phase, subscribed, view, evals,
                     notice>>
      /\ step = "settling" /\ Handling
      /\ (step' = "answering" /\ UNCHANGED <<seq, out>>) \/ Issue("flip")
  BY DEF Settle, Handling
<1>2. /\ step' # "settling" /\ step' # "idle"
      /\ step' = "answering" \/ (step' = "refreshing" /\ out'.kind # "end-shift")
  BY <1>1 DEF Issue
<1>3. NoAnswer'
  BY <1>2 DEF NoAnswer, Handling, Idle
<1>4. HeardOrWill => HeardOrWill'
  BY <1>1 DEF HeardOrWill, WillHear, Reply
<1>5. EmissionAhead'
  BY <1>2 DEF EmissionAhead, Unpushed
<1>6. CASE out.kind # "end-shift"
  <2>1. ends' = ends
    BY <1>6 DEF Settle
  <2>2. Exposing' = Exposing
    BY <1>1, <2>1 DEF Exposing
  <2> QED BY <1>1, <1>2, <1>3, <1>4, <1>5, <2>1, <2>2
          DEF PageWaits, NoticeRead, SecondHeard, ConfirmedLate
<1>7. CASE out.kind = "end-shift"
  <2>1. ends.armed /\ ends.emits \in Nat
    BY <1>1, <1>7 DEF PInv, HasPayload, TypeOK
  <2>2. PICK done \in BOOLEAN :
          /\ done <=> ends.emits + 1 >= EndShiftEmitsToConfirm
          /\ ends' = [armed |-> ~done, spaced |-> FALSE, emits |-> ends.emits + 1,
                      confirmed |-> done]
    <3>1. Confirms(ends.emits + 1) \in BOOLEAN
      BY DEF Confirms
    <3> QED BY <1>7, <3>1 DEF Settle, Confirms
  <2>3. /\ ends'.emits = ends.emits + 1 /\ ends'.spaced = FALSE
        /\ ends'.confirmed => ends'.emits >= EndShiftEmitsToConfirm
    BY <2>2
  <2>4. Exposing' => Exposing
    BY <1>1, <2>1 DEF Exposing
  <2>5. Exposing' /\ ends'.emits > 1 => HeardOrWill'
    BY <1>1, <1>4, <1>7, <2>1, <2>3, <2>4 DEF SecondHeard
  <2>6. PageWaits'
    BY <1>1, <2>4 DEF PageWaits
  <2>7. NoticeRead' /\ ConfirmedLate'
    BY <2>3 DEF NoticeRead, ConfirmedLate
  <2>8. SecondHeard'
    BY <1>2, <2>5 DEF SecondHeard
  <2> QED BY <1>3, <1>5, <2>6, <2>7, <2>8
<1> QED BY <1>6, <1>7

\* The handler returns: the answer was kept while it ran.
LEMMA AnswerEInv ==
  ASSUME EInv, Answer
  PROVE  EInv'
<1> USE DEF EInv, channels, page, history
<1>1. /\ UNCHANGED <<ends, endExposed, endHeard, phase, subscribed, view, evals, notice>>
      /\ step' = "idle" /\ answer' = None
      /\ replies' = IF answer # None THEN replies \cup {answer} ELSE replies
  BY DEF Answer
<1>2. \A p \in Payload : Reply(p)' => Reply(p)
  BY <1>1 DEF Reply
<1>3. NoAnswer'
  BY <1>1 DEF NoAnswer
<1> QED BY <1>1, <1>2, <1>3, QuietEInv DEF Unpushed

\* The page takes a payload: an end of the shift is heard, or is still ahead.
LEMMA ApplyEInv ==
  ASSUME PInv, OInv, MInv, EInv, NEW p \in Payload, ApplyPush(p), phase = "booted",
         UNCHANGED <<seq, out, step, answer, ends, endExposed, phase, subscribed, notice>>,
         \A q \in Payload : Reply(q)' => Reply(q),
         \A i \in DOMAIN evals : \/ evals[i] = p
                                 \/ \E j \in DOMAIN evals' : evals'[j] = evals[i],
         Unpushed => p.seq < seq,
         Reply(p) \/ \A i \in DOMAIN evals : p = evals[i] \/ p.seq < evals[i].seq
  PROVE  EInv'
<1> USE DEF EInv
<1>1. /\ view'.seq = IF p.seq <= view.seq THEN view.seq ELSE p.seq
      /\ endHeard => endHeard'
      /\ view.seq < p.seq /\ subscribed /\ p.kind = "end-shift" => endHeard'
  <2>1. p.seq \in Nat /\ view.seq \in Nat
    BY Numbers
  <2>2. CASE Stale(p)
    <3>1. ~(view.seq < p.seq) /\ p.seq <= view.seq
      BY <2>1, <2>2 DEF Stale
    <3>2. UNCHANGED <<view, endHeard>>
      BY <2>2 DEF ApplyPush
    <3> QED BY <3>1, <3>2
  <2>3. CASE ~Stale(p)
    <3>1. ~(p.seq <= view.seq)
      BY <2>1, <2>3 DEF Stale
    <3>2. view'.seq = p.seq
      BY <2>3 DEF ApplyPush
    <3>3. endHeard' = (endHeard \/ (subscribed /\ p.kind = "end-shift"))
      BY <2>3 DEF ApplyPush
    <3>4. endHeard => endHeard'
      BY <3>3, Zenon
    <3>5. subscribed /\ p.kind = "end-shift" => endHeard'
      BY <3>3, Zenon
    <3> QED BY <3>1, <3>2, <3>4, <3>5
  <2> QED BY <2>2, <2>3
<1>2. Exposing' = Exposing
  BY DEF Exposing
<1>3. HeardOrWill => HeardOrWill'
  <2> SUFFICES ASSUME NEW i \in DOMAIN evals, WillHear(evals[i]) PROVE HeardOrWill'
    BY <1>1 DEF HeardOrWill
  <2>1. PICK e \in Payload : e = evals[i]
    BY PageNumbers
  <2>2. /\ subscribed /\ e.kind = "end-shift" /\ view.seq < e.seq
        /\ \A q \in Payload : Reply(q) => q.seq < e.seq
    BY <2>1 DEF WillHear
  <2>3. CASE e = p
    BY <1>1, <2>2, <2>3 DEF HeardOrWill
  <2>4. CASE e # p
    <3>1. p.seq < e.seq
      BY <2>1, <2>2, <2>4
    <3>2. PICK j \in DOMAIN evals' : evals'[j] = e
      BY <2>1, <2>4
    <3>3. WillHear(evals[j])'
      BY <1>1, <2>2, <3>1, <3>2 DEF WillHear
    <3> QED BY <3>2, <3>3 DEF HeardOrWill
  <2> QED BY <2>3, <2>4
<1>4. NoAnswer' /\ PageWaits' /\ NoticeRead' /\ ConfirmedLate'
  BY <1>2 DEF NoAnswer, Idle, Handling, PageWaits, NoticeRead, ConfirmedLate
<1>5. EmissionAhead'
  BY <1>1, <1>2 DEF EmissionAhead, Unpushed
<1>6. SecondHeard'
  BY <1>2, <1>3 DEF SecondHeard
<1> QED BY <1>4, <1>5, <1>6

LEMMA CoreStepEInv == PInv /\ OInv /\ MInv /\ EInv /\ CoreStep => EInv'
<1> SUFFICES ASSUME PInv, OInv, MInv, EInv, CoreStep PROVE EInv'
  OBVIOUS
<1> USE DEF core, channels, page, history
<1>n. Idle => answer = None
  BY DEF EInv, NoAnswer
<1>1. ASSUME NEW kind \in {"data", "retry", "flip"}, Issue(kind),
             UNCHANGED <<ends, endExposed, endHeard, phase, subscribed, view, evals, notice,
                         answer, replies>>
      PROVE  EInv'
  <2>1. step' = "refreshing" /\ out'.kind # "end-shift"
    BY <1>1 DEF Issue
  <2>2. NoAnswer'
    BY <2>1 DEF NoAnswer, Idle, Handling
  <2>3. \A p \in Payload : Reply(p)' => Reply(p)
    BY <1>1 DEF Reply
  <2> QED BY <1>1, <2>1, <2>2, <2>3, QuietEInv
<1>2. ASSUME NEW kind \in {"data", "retry"}, Change(kind) PROVE EInv'
  BY <1>1, <1>2 DEF Change
<1>3. CASE SelectBatch
  <2>1. ends' = NotEnding /\ step' = "refreshing" /\ out'.kind = "data"
    BY <1>3 DEF SelectBatch, Issue
  <2>2. ~ends'.armed /\ ~ends'.confirmed
    BY <2>1 DEF NotEnding
  <2>3. NoAnswer'
    BY <2>1 DEF NoAnswer, Idle, Handling
  <2> QED BY <2>2, <2>3, DisarmedEInv DEF Exposing
<1>4. CASE BeginEndShift
  <2>1. /\ UNCHANGED <<step, out, answer, phase, subscribed, notice>> /\ Idle
        /\ endExposed' = ~(phase = "booted" /\ (subscribed \/ notice # "none"))
        /\ ends' = [NotEnding EXCEPT !.armed = TRUE, !.spaced = TRUE]
    BY <1>4 DEF BeginEndShift
  <2>2. ends'.emits = 0 /\ ends'.confirmed = FALSE
    BY <2>1 DEF NotEnding
  <2>3. NoAnswer'
    BY <1>n, <2>1 DEF NoAnswer
  <2>4. PageWaits'
    BY <2>1 DEF PageWaits, Exposing
  <2>5. NoticeRead' /\ SecondHeard' /\ ConfirmedLate' /\ EmissionAhead'
    BY <2>1, <2>2
       DEF NoticeRead, SecondHeard, ConfirmedLate, EmissionAhead, Idle, Unpushed
  <2> QED BY <2>3, <2>4, <2>5 DEF EInv
<1>5. CASE Space
  <2>1. /\ UNCHANGED <<seq, step, out, answer, replies, endExposed, endHeard, phase, subscribed,
                       view, evals, notice>>
        /\ Idle /\ notice # "queued"
        /\ ends' = [ends EXCEPT !.spaced = TRUE]
    BY <1>5 DEF Space
  <2>2. UNCHANGED <<ends.armed, ends.emits, ends.confirmed>>
    BY <2>1 DEF PInv, TypeOK
  <2>3. Exposing' = Exposing
    BY <2>1, <2>2 DEF Exposing
  <2>4. HeardOrWill => HeardOrWill'
    BY <2>1 DEF HeardOrWill, WillHear, Reply
  <2> QED BY <2>1, <2>2, <2>3, <2>4
          DEF EInv, NoAnswer, Handling, Idle, PageWaits, NoticeRead, EmissionAhead, Unpushed,
              SecondHeard, ConfirmedLate
<1>6. CASE EmitEndShift
  BY <1>6, EmitEInv
<1>7. CASE Refresh
  <2>1. /\ UNCHANGED <<seq, out, answer, replies, ends, endExposed, endHeard, phase, subscribed,
                       view, evals, notice>>
        /\ step = "refreshing" /\ step' = "pushing"
    BY <1>7 DEF Refresh
  <2>2. NoAnswer'
    BY <2>1 DEF EInv, NoAnswer, Idle, Handling
  <2> QED BY <2>1, <2>2, QuietEInv DEF Unpushed, Reply
<1>8. CASE Push
  BY <1>8, PushEInv
<1>9. CASE Settle
  BY <1>9, SettleEInv
<1>10. CASE Answer
  BY <1>10, AnswerEInv
<1>11. ASSUME NEW s \in attaches, BridgeAttached(s) PROVE EInv'
  <2>1. UNCHANGED <<answer, replies, ends, endExposed, endHeard, phase, subscribed, view, evals,
                    notice>> /\ Idle
    BY <1>11 DEF BridgeAttached
  <2>2. CASE s < seq
    BY <1>1, <1>11, <2>1, <2>2 DEF BridgeAttached
  <2>3. CASE ~(s < seq)
    <3>1. UNCHANGED <<seq, out, step>>
      BY <1>11, <2>3 DEF BridgeAttached
    <3> QED BY <1>n, <2>1, <3>1, QuietEInv DEF Unpushed, Reply, NoAnswer, Idle
  <2> QED BY <2>2, <2>3
<1>12. CASE ResetDemo
  <2>1. ends' = NotEnding /\ UNCHANGED answer /\ answer = None
    BY <1>n, <1>12 DEF ResetDemo
  <2>2. ~ends'.armed /\ ~ends'.confirmed
    BY <2>1 DEF NotEnding
  <2>3. NoAnswer'
    BY <2>1 DEF NoAnswer
  <2> QED BY <2>2, <2>3, DisarmedEInv DEF Exposing
<1>13. CASE BootNotice
  <2>1. /\ UNCHANGED <<seq, out, step, answer, replies, ends, endExposed, endHeard, phase,
                       subscribed, view, evals>>
        /\ notice = "queued" /\ notice' = "handled"
    BY <1>13 DEF BootNotice
  <2>2. Exposing' = Exposing
    BY <2>1 DEF Exposing
  <2>3. HeardOrWill => HeardOrWill'
    BY <2>1 DEF HeardOrWill, WillHear, Reply
  <2> QED BY <2>1, <2>2, <2>3
          DEF EInv, NoAnswer, Handling, Idle, PageWaits, NoticeRead, EmissionAhead, Unpushed,
              SecondHeard, ConfirmedLate
<1> QED BY <1>2, <1>3, <1>4, <1>5, <1>6, <1>7, <1>8, <1>9, <1>10, <1>11, <1>12, <1>13
        DEF CoreStep

LEMMA PageStepEInv == PInv /\ OInv /\ MInv /\ EInv /\ PageStep => EInv'
<1> SUFFICES ASSUME PInv, OInv, MInv, EInv, PageStep PROVE EInv'
  OBVIOUS
<1> USE DEF core, channels, page, history
<1>1. ASSUME ~Exposing', UNCHANGED <<step, out, ends>>, answer' \in {answer, None}
      PROVE  EInv'
  <2>1. NoAnswer'
    BY <1>1 DEF EInv, NoAnswer, Idle, Handling
  <2> QED BY <1>1, <2>1 DEF EInv, PageWaits, NoticeRead, EmissionAhead, SecondHeard, ConfirmedLate
<1>2. CASE Reload \/ WindowLost
  BY <1>1, <1>2 DEF Reload, WindowLost, Unload, Exposing
<1>3. CASE RenderInitScript \/ WindowBuilt \/ BootPull \/ BootFallback
  <2>1. phase # "booted" /\ UNCHANGED <<step, out, ends, answer, endExposed>>
    BY <1>3 DEF RenderInitScript, WindowBuilt, BootPull, BootFallback, Attach
  <2> QED BY <1>1, <2>1 DEF EInv, PageWaits, Exposing
<1>4. CASE Subscribe
  <2>1. /\ UNCHANGED <<seq, step, out, answer, replies, ends, endExposed, endHeard, phase, view,
                       evals, notice>>
        /\ subscribed'
    BY <1>4 DEF Subscribe
  <2>2. Exposing' = Exposing
    BY <2>1 DEF Exposing
  <2>3. HeardOrWill => HeardOrWill'
    BY <2>1 DEF HeardOrWill, WillHear, Reply
  <2> QED BY <2>1, <2>2, <2>3
          DEF EInv, NoAnswer, Handling, Idle, PageWaits, NoticeRead, EmissionAhead, Unpushed,
              SecondHeard, ConfirmedLate
<1>5. CASE RunEval
  <2>1. /\ UNCHANGED <<seq, step, out, answer, replies, ends, endExposed, phase, subscribed,
                       notice>>
        /\ evals # <<>> /\ evals' = Tail(evals)
    BY <1>5 DEF RunEval
  <2>2. PICK p \in Payload : p = Head(evals)
    BY <2>1, Taken
  <2>3. /\ \A i \in DOMAIN evals' : p.seq < evals'[i].seq
        /\ \A j \in DOMAIN evals :
             evals[j] = p \/ \E i \in DOMAIN evals' : evals'[i] = evals[j]
        /\ \E j \in DOMAIN evals : p = evals[j]
    BY <2>1, <2>2, TakenInOrder DEF MInv
  <2>4. CASE phase = "booted"
    <3>1. ApplyPush(p)
      BY <1>5, <2>2, <2>4 DEF RunEval
    <3>2. \A i \in DOMAIN evals : p = evals[i] \/ p.seq < evals[i].seq
      BY <2>3
    <3>3. Unpushed => p.seq < seq
      BY <2>3 DEF MInv, Newest, Sent
    <3>4. \A q \in Payload : Reply(q)' => Reply(q)
      BY <2>1 DEF Reply
    <3> QED BY <2>1, <2>3, <2>4, <3>1, <3>2, <3>3, <3>4, ApplyEInv
  <2>5. CASE phase # "booted"
    BY <1>1, <2>1, <2>5 DEF EInv, PageWaits, Exposing
  <2> QED BY <2>4, <2>5
<1>6. ASSUME NEW p \in replies, DeliverReply(p) PROVE EInv'
  <2>1. /\ UNCHANGED <<seq, step, out, answer, evals, ends, endExposed, phase, subscribed, notice>>
        /\ replies' = replies \ {p} /\ ApplyPush(p)
    BY <1>6 DEF DeliverReply
  <2>2. p \in Payload /\ phase = "booted" /\ Reply(p) /\ Sent(p)
    BY DEF PInv, TypeOK, Clean, Reply, Sent
  <2>3. Unpushed => p.seq < seq
    BY <2>2 DEF MInv, Newest
  <2>4. \A q \in Payload : Reply(q)' => Reply(q)
    BY <2>1 DEF Reply
  <2> QED BY <2>1, <2>2, <2>3, <2>4, ApplyEInv
<1> QED BY <1>2, <1>3, <1>4, <1>5, <1>6 DEF PageStep

LEMMA AlwaysEInv == Spec => []EInv
<1>1. EInv /\ UNCHANGED vars => EInv'
  <2> SUFFICES ASSUME EInv, UNCHANGED vars PROVE EInv'
    OBVIOUS
  <2>1. NoAnswer'
    BY DEF vars, core, EInv, NoAnswer, Idle, Handling
  <2> QED BY <2>1, QuietEInv DEF vars, core, channels, page, history, Unpushed, Reply
<1>2. PInv /\ OInv /\ MInv /\ EInv /\ [Next]_vars => EInv'
  BY <1>1, CoreStepEInv, PageStepEInv DEF Next
<1> QED BY <1>2, InitEInv, Types, Order, AlwaysMInv, PTL DEF Spec

\* A booted page that stays hears the end of the shift that is taken as delivered, as soon as
\* more than one emission is required (actor.rs, END_SHIFT_EMITS_TO_CONFIRM is 2).  One would
\* not do: it may fall into the time between the page's boot and its subscription.
THEOREM EndHeard == EndShiftEmitsToConfirm > 1 /\ Spec => []BootedPageHearsEnd
<1> SUFFICES ASSUME EndShiftEmitsToConfirm > 1 PROVE Spec => []BootedPageHearsEnd
  OBVIOUS
<1>1. PInv /\ EInv => BootedPageHearsEnd
  <2> SUFFICES ASSUME PInv, EInv, AllDelivered, ends.confirmed, ~endExposed PROVE endHeard
    BY DEF BootedPageHearsEnd
  <2>1. DOMAIN evals = {}
    BY DEF AllDelivered
  <2>2. ends.emits > 1
    BY PageAssumption DEF EInv, ConfirmedLate, PInv, TypeOK
  <2> QED BY <2>1, <2>2 DEF EInv, SecondHeard, Exposing, HeardOrWill
<1> QED BY <1>1, Types, AlwaysEInv, PTL
=============================================================================
