----------------------------- MODULE StationPage -----------------------------
(***************************************************************************)
(* The way of a snapshot to the screen: the core actor numbers and commits *)
(* payloads (core/state.rs, core/actor.rs), the boot cache answers the     *)
(* page's synchronous boot pull (boot.rs), payloads are evaluated in the   *)
(* page (push.rs) or answer its selectBatch (commands/ui.rs), and the      *)
(* injected adapter (bridge/src) applies them by sequence number.          *)
(*                                                                         *)
(* A snapshot is its revision.  The content of the state, its persistence  *)
(* and the conditions under which a payload arises are StationCore's.      *)
(* Evaluations keep their order; answers come on a channel of their own;   *)
(* a document may be reloaded, and its window lost, at any moment.         *)
(***************************************************************************)
EXTENDS Naturals, Sequences, FiniteSets

CONSTANTS
    None,
    EndShiftEmitsToConfirm,
    Bound   \* how many of each of the Limited kinds of event, and of all of them

\* What is bounded: payloads of the core's own, selectBatch calls, flips of the
\* persistence health, armed ends of shift, documents that go away, failed boot
\* pulls, boot notices the core's full queue refuses and demo resets; and how many
\* of these together.
Limited == {"changes", "selects", "flips", "ends", "unloads", "fallbacks", "drops",
            "resets", "all"}

ASSUME PageAssumption == /\ Bound \in [Limited -> Nat]
                         /\ EndShiftEmitsToConfirm \in Nat \ {0}
                         /\ None \notin Nat

VARIABLES
    seq, rev,    \* the core's sequence counter; revision of its snapshot
    step,        \* of the running handler
    out,         \* the payload being committed
    answer,      \* the payload its caller, a document that still exists, waits for
    ends,        \* the end of the shift: armed, spaced from the last emission, emissions
                 \* made, confirmed
    cache,       \* BootCache
    window,      \* the window labelled "main" exists
    baked,       \* what the init script falls back on
    evals,       \* evaluations posted to the window, in order
    replies,     \* answers of select_batch on their way to the page
    attaches,    \* bridge_attached messages on their way to the core
    notice,      \* the document's BootPulled: never arrives, queued, handled
    owed,        \* a reset has not reloaded the page yet
    phase,       \* of the document
    view,        \* lastSeq and the snapshot of the adapter
    bootSeq,     \* the seq it was created with
    subscribed,  \* the UI has subscribed a listener
    posted,      \* history: payloads evaluated for this document's listener
    heard,       \* history: payloads whose events that listener got, in order
    overtaken,   \* history: seq of the latest answer the document applied
    endHeard,    \* history: a listener got the armed end-shift event
    endExposed,  \* history: it was armed without a page that waits or will wait for it
    unbaked,     \* history: a reset came after the init script was baked
    used         \* how much of Bound is used up

core == <<seq, rev, step, out, answer, ends, cache>>
channels == <<window, baked, evals, replies, attaches, notice, owed>>
page == <<phase, view, bootSeq, subscribed>>
history == <<posted, heard, overtaken, endHeard, endExposed, unbaked>>
vars == <<core, channels, page, history, used>>

Kinds == {"data", "retry", "end-shift", "flip"}
Payload == [kind : Kinds, seq : Nat, rev : Nat \cup {None}]
Stamp == [seq : Nat, rev : Nat]

TypeOK ==
    /\ seq \in Nat /\ rev \in Nat
    /\ step \in {"idle", "refreshing", "pushing", "settling", "answering"}
    /\ out \in Payload \cup {None}
    /\ answer \in Payload \cup {None}
    /\ ends \in [armed : BOOLEAN, spaced : BOOLEAN, emits : 0 .. EndShiftEmitsToConfirm,
                confirmed : BOOLEAN]
    /\ cache \in Stamp
    /\ window \in BOOLEAN
    /\ baked \in Stamp
    /\ evals \in Seq(Payload)
    /\ replies \subseteq Payload
    /\ attaches \subseteq Nat
    /\ notice \in {"none", "queued", "handled"}
    /\ owed \in BOOLEAN
    /\ phase \in {"none", "building", "loading", "booted"}
    /\ view \in Stamp
    /\ bootSeq \in Nat
    /\ subscribed \in BOOLEAN
    /\ posted \subseteq Nat
    /\ heard \in Seq(Nat)
    /\ overtaken \in Nat
    /\ endHeard \in BOOLEAN /\ endExposed \in BOOLEAN
    /\ unbaked \in BOOLEAN
    /\ used \in [Limited -> Nat]
-----------------------------------------------------------------------------
May(what) == used[what] < Bound[what] /\ used.all < Bound.all
Use(what) == used' = [used EXCEPT ![what] = @ + 1, !.all = @ + 1]

Idle == step = "idle"

NotEnding == [armed |-> FALSE, spaced |-> FALSE, emits |-> 0, confirmed |-> FALSE]

Start == [seq |-> 0, rev |-> 0]

Init ==
    /\ seq = 0 /\ rev = 0
    /\ step = "idle" /\ out = None /\ answer = None
    /\ ends = NotEnding
    /\ cache = Start
    /\ window = TRUE /\ phase = "loading"
    /\ baked = Start
    /\ evals = <<>> /\ replies = {} /\ attaches = {} /\ notice = "none" /\ owed = FALSE
    /\ view = Start /\ bootSeq = 0 /\ subscribed = FALSE
    /\ posted = {} /\ heard = <<>> /\ overtaken = 0
    /\ endHeard = FALSE /\ endExposed = FALSE /\ unbaked = FALSE
    /\ used = [k \in Limited |-> 0]
-----------------------------------------------------------------------------
(* The core: number, refresh the boot cache, push, settle, answer.         *)

\* StationState::payload; kinds other than "data" and "flip" carry no snapshot.
Issue(kind) ==
    /\ seq' = seq + 1
    /\ rev' = IF kind \in {"data", "flip"} THEN rev + 1 ELSE rev
    /\ out' = [kind |-> kind, seq |-> seq', rev |-> IF rev' = rev THEN None ELSE rev']
    /\ step' = "refreshing"

\* A verdict that counts, a flip of the connection, apply-batch or a swap; or the
\* retry verdict, which changes no snapshot.
Change(kind) ==
    /\ Idle /\ May("changes") /\ Use("changes")
    /\ Issue(kind)
    /\ UNCHANGED <<answer, ends, cache, channels, page, history>>

\* selectBatch: begin_shift disarms a pending end; its payload is also the answer.
SelectBatch ==
    /\ Idle /\ phase = "booted" /\ May("selects") /\ Use("selects")
    /\ Issue("data")
    /\ answer' = out'
    /\ ends' = NotEnding
    /\ UNCHANGED <<cache, window, baked, evals, replies, attaches, notice, owed,
                   page, history>>

BeginEndShift ==
    /\ Idle /\ ~ends.confirmed /\ May("ends") /\ Use("ends")
    /\ ends' = [NotEnding EXCEPT !.armed = TRUE, !.spaced = TRUE]
    /\ endHeard' = FALSE
    /\ endExposed' = ~(phase = "booted" /\ (subscribed \/ notice # "none"))
    /\ UNCHANGED <<seq, rev, step, out, answer, cache, channels, page,
                   posted, heard, overtaken, unbaked>>

\* The emit spacing runs out.  It is long enough for the actor to reach the messages that
\* were queued at the emission.
Space ==
    /\ Idle /\ ends.armed /\ ~ends.spaced /\ notice # "queued"
    /\ ends' = [ends EXCEPT !.spaced = TRUE]
    /\ UNCHANGED <<seq, rev, step, out, answer, cache, channels, page, history, used>>

\* One emission at a tick; the gates on the connection and on verdicts are StationCore's.
\* Of the boot quiet window only this is used: a document mounts its UI before the window
\* that its own notice opened is over.
EmitEndShift ==
    /\ Idle /\ ends.armed /\ ends.spaced
    /\ notice = "handled" => subscribed
    /\ Issue("end-shift")
    /\ UNCHANGED <<answer, ends, cache, channels, page, history, used>>

Refresh ==
    /\ step = "refreshing"
    /\ cache' = [seq |-> seq, rev |-> rev]
    /\ step' = "pushing"
    /\ UNCHANGED <<seq, rev, out, answer, ends, channels, page, history, used>>

\* EvalPusher::push: without a main window the payload is dropped.  Emissions are
\* counted after their commit, whatever became of the push.
Push ==
    /\ step = "pushing"
    /\ evals' = IF window THEN Append(evals, out) ELSE evals
    /\ posted' = IF window /\ subscribed THEN posted \cup {out.seq} ELSE posted
    /\ step' = IF out.kind = "flip" THEN "answering" ELSE "settling"
    /\ UNCHANGED <<seq, rev, out, answer, ends, cache, window, baked, replies,
                   attaches, notice, owed, page, heard, overtaken, endHeard, endExposed,
                   unbaked, used>>

Confirms(emits) == emits >= EndShiftEmitsToConfirm

\* update_persist_health: unchanged, or a flip with a payload of its own.
Settle ==
    /\ step = "settling"
    /\ \/ step' = "answering" /\ UNCHANGED <<seq, rev, out, used>>
       \/ May("flips") /\ Use("flips") /\ Issue("flip")
    /\ IF out.kind = "end-shift"
       THEN LET emits == ends.emits + 1
                done == Confirms(emits)
            IN ends' = [armed |-> ~done, spaced |-> FALSE, emits |-> emits, confirmed |-> done]
       ELSE UNCHANGED ends
    /\ UNCHANGED <<answer, cache, channels, page, history>>

\* The handler returns.
Answer ==
    /\ step = "answering"
    /\ step' = "idle" /\ out' = None /\ answer' = None
    /\ replies' = IF answer # None THEN replies \cup {answer} ELSE replies
    /\ UNCHANGED <<seq, rev, ends, cache, window, baked, evals, attaches, notice,
                   owed, page, history, used>>

(* (Names ending in "Faulty" are plausible bugs; no specification uses them.) *)

\* An adapter that was created behind the core gets a catch-up payload; faulty: not.
BridgeAttachedFaulty(s) ==
    /\ Idle /\ s \in attaches
    /\ attaches' = attaches \ {s}
    /\ UNCHANGED <<core, window, baked, evals, replies, notice, owed, page, history, used>>

BridgeAttached(s) ==
    /\ Idle /\ s \in attaches
    /\ attaches' = attaches \ {s}
    /\ IF s < seq THEN Issue("data") ELSE UNCHANGED <<seq, rev, out, step>>
    /\ UNCHANGED <<answer, ends, cache, window, baked, evals, replies, notice, owed,
                   page, history, used>>

\* The demo reset publishes a fresh state and pushes nothing: rebuilding the three
\* legs of the connection consumes no, one or two sequence numbers.
ResetDemo ==
    /\ Idle /\ May("resets") /\ Use("resets")
    /\ \E n \in 0 .. 2 : seq' = seq + n
    /\ rev' = rev + 1
    /\ cache' = [seq |-> seq', rev |-> rev']
    /\ owed' = window
    /\ unbaked' = TRUE
    /\ ends' = NotEnding
    /\ UNCHANGED <<step, out, answer, window, baked, evals, replies, attaches,
                   notice, page, posted, heard, overtaken, endHeard, endExposed>>

\* The boot notice starts the quiet window anew; faulty: it is read and forgotten.
BootNoticeFaulty ==
    /\ Idle /\ notice = "queued"
    /\ notice' = "none"
    /\ UNCHANGED <<core, window, baked, evals, replies, attaches, owed, page, history, used>>

BootNotice ==
    /\ Idle /\ notice = "queued"
    /\ notice' = "handled"
    /\ UNCHANGED <<core, window, baked, evals, replies, attaches, owed, page, history, used>>
-----------------------------------------------------------------------------
(* The document.                                                           *)

\* The old document is gone with its adapter, listener and awaited answers.
Unload(next) ==
    /\ phase' = next
    /\ subscribed' = FALSE
    /\ view' = Start /\ bootSeq' = 0
    /\ answer' = None /\ replies' = {}
    /\ posted' = {} /\ heard' = <<>> /\ overtaken' = 0
    /\ notice' = "none" /\ endExposed' = TRUE

\* location.reload() of the UI, or the shell's reload.
Reload ==
    /\ window /\ phase = "booted"
    /\ \/ owed /\ UNCHANGED used
       \/ May("unloads") /\ Use("unloads")
    /\ owed' = FALSE
    /\ Unload("loading")
    /\ UNCHANGED <<seq, rev, step, out, ends, cache, window, baked, evals, attaches,
                   endHeard, unbaked>>

\* The browser process is gone, and what was posted to it.
WindowLost ==
    /\ window /\ May("unloads") /\ Use("unloads")
    /\ window' = FALSE
    /\ evals' = <<>>
    /\ owed' = FALSE
    /\ Unload("none")
    /\ UNCHANGED <<seq, rev, step, out, ends, cache, baked, attaches, endHeard,
                   unbaked>>

\* WindowFactory::create_main: the script is rendered, then the window is built.
RenderInitScript ==
    /\ phase = "none"
    /\ phase' = "building"
    /\ baked' = cache
    /\ unbaked' = FALSE
    /\ UNCHANGED <<core, window, evals, replies, attaches, notice, owed, view, bootSeq,
                   subscribed, posted, heard, overtaken, endHeard, endExposed, used>>

WindowBuilt ==
    /\ phase = "building"
    /\ phase' = "loading"
    /\ window' = TRUE
    /\ UNCHANGED <<core, baked, evals, replies, attaches, notice, owed, view, bootSeq,
                   subscribed, history, used>>

\* createStationAdapter(boot) and bridge_attached.
Attach(boot) ==
    /\ phase = "loading" /\ phase' = "booted"
    /\ view' = boot
    /\ bootSeq' = boot.seq
    /\ attaches' = attaches \cup {boot.seq}
    /\ UNCHANGED <<seq, rev, step, out, answer, ends, cache, window, baked, evals, replies,
                   owed, subscribed, history>>

\* The synchronous boot pull; its notice is dropped if the core's queue is full.
BootPull ==
    /\ Attach(cache)
    /\ \/ notice' = "queued" /\ UNCHANGED used
       \/ May("drops") /\ Use("drops") /\ UNCHANGED notice

\* It failed: the snapshot baked into the script, and no notice.
BootFallback ==
    /\ May("fallbacks") /\ Use("fallbacks")
    /\ Attach(baked) /\ UNCHANGED notice

Subscribe ==
    /\ phase = "booted" /\ ~subscribed
    /\ subscribed' = TRUE
    /\ UNCHANGED <<core, channels, phase, view, bootSeq, history, used>>

\* Faulty guards of applyPush: a duplicate let through; only a duplicate refused; a
\* gap taken for a fault.
StaleFaulty(p) == p.seq < view.seq
DuplicateOnlyFaulty(p) == p.seq = view.seq
GapFaulty(p) == p.seq # view.seq + 1
Stale(p) == p.seq <= view.seq

\* applyPush: the snapshot is swapped, then the listener called.
ApplyPush(p) ==
    IF Stale(p) THEN UNCHANGED <<view, heard, endHeard>>
    ELSE /\ view' = [seq |-> p.seq, rev |-> IF p.rev = None THEN view.rev ELSE p.rev]
         /\ heard' = IF subscribed THEN Append(heard, p.seq) ELSE heard
         /\ endHeard' = (endHeard \/ (subscribed /\ p.kind = "end-shift"))

\* An evaluation that runs while the document is being replaced has no effect.
RunEval ==
    /\ window /\ evals # <<>>
    /\ evals' = Tail(evals)
    /\ IF phase = "booted" THEN ApplyPush(Head(evals))
                           ELSE UNCHANGED <<view, heard, endHeard>>
    /\ UNCHANGED <<core, window, baked, replies, attaches, notice, owed, phase, bootSeq,
                   subscribed, posted, overtaken, endExposed, unbaked, used>>

DeliverReply(p) ==
    /\ p \in replies /\ replies' = replies \ {p}
    /\ ApplyPush(p)
    /\ overtaken' = IF p.seq > overtaken THEN p.seq ELSE overtaken
    /\ UNCHANGED <<core, window, baked, evals, attaches, notice, owed, phase, bootSeq,
                   subscribed, posted, endExposed, unbaked, used>>
-----------------------------------------------------------------------------
CoreStep == \/ \E kind \in {"data", "retry"} : Change(kind)
            \/ SelectBatch \/ BeginEndShift \/ Space \/ EmitEndShift
            \/ Refresh \/ Push \/ Settle \/ Answer
            \/ \E s \in attaches : BridgeAttached(s)
            \/ ResetDemo \/ BootNotice

PageStep == \/ Reload \/ WindowLost \/ RenderInitScript \/ WindowBuilt
            \/ BootPull \/ BootFallback \/ Subscribe
            \/ RunEval \/ \E p \in replies : DeliverReply(p)

Next == CoreStep \/ PageStep

Spec == Init /\ [][Next]_vars
-----------------------------------------------------------------------------
AllDelivered == Idle /\ phase = "booted" /\ evals = <<>> /\ replies = {} /\ attaches = {}

\* When nothing is on its way to the page it shows the core's snapshot, however it
\* booted and whatever overtook what.  Not while a reset still owes the reload, nor in a
\* window whose script was baked before a reset: a boot that falls back on it may be at
\* the sequence number a reset left where it was, and so escapes bridge_attached.
PageCurrent == AllDelivered /\ ~owed /\ ~unbaked => view.rev = rev

\* A document's listener gets the events of a payload once, in the order of issue,
\* although a payload may come by both channels.
HeardInOrder == \A i, j \in DOMAIN heard : i < j => heard[i] < heard[j]

\* Of what was evaluated for the listener it misses only what an answer overtook
\* or the boot snapshot already contained.
MissedOnlyByRace ==
    \A s \in posted :
        \/ \E i \in DOMAIN heard : heard[i] = s
        \/ \E i \in DOMAIN evals : evals[i].seq = s
        \/ s < overtaken
        \/ s <= bootSeq

\* An end of shift armed for a page that has booted, and whose boot notice was not
\* refused, is heard once it is confirmed, if that page stays: the quiet window leaves
\* at most one of its emissions to a page that listens not yet.
BootedPageHearsEnd == AllDelivered /\ ends.confirmed /\ ~endExposed => endHeard

\* No document shows what a reload could not show again: the boot cache is never
\* behind the screen, and the screen never goes back.
Mirror == INSTANCE SnapshotMirror
            WITH NoView <- None, truth <- rev, published <- cache.rev,
                 view <- IF phase = "booted" THEN view.rev ELSE None

ImplementsMirror == Mirror!Spec
-----------------------------------------------------------------------------
(* Claims of the documentation that the code does not keep.                *)

\* "race-free": a listener gets the events of every payload evaluated for it.
NothingDropped ==
    AllDelivered => \A s \in posted : s <= bootSeq \/ \E i \in DOMAIN heard : heard[i] = s

\* An end of shift is taken as delivered only when a listener got it.
EndShiftHeard == AllDelivered /\ ends.confirmed => endHeard
=============================================================================
