------------------------------- MODULE DevExit -------------------------------
(***************************************************************************)
(* The exit chord of src-tauri/src/devexit.rs: a chord held for HOLD_MS    *)
(* ends the process (or, in a probe, passes it), and a launch that asked   *)
(* for the chord refuses to run when a synthetic tap of it is not heard.   *)
(*                                                                         *)
(* The keys are the operator's; the operating system turns them into       *)
(* events, of which a release may be lost; the handler runs on the event   *)
(* loop, each hold's timer and the verification on tasks of their own.     *)
(* Time is discrete.  The event loop is prompt: time passes, and the chord *)
(* is pressed again, only when its queue is empty.  Timers may wake late,  *)
(* never early.                                                            *)
(***************************************************************************)
EXTENDS Naturals, Sequences

CONSTANTS
    None,
    HoldTime,    \* units the chord is to be held: HOLD_MS
    CanaryTime,  \* units the verification waits for its tap
    ProbeTime,   \* units a probe waits for a hold
    Bound        \* how many of each of the Limited kinds of event

\* What is bounded: presses of the chord, key repeats, lost releases, taps of the
\* verification that come to nothing.
Limited == {"presses", "repeats", "lost", "undelivered"}

ASSUME DevExitAssumption ==
    /\ {HoldTime, CanaryTime, ProbeTime} \subseteq Nat \ {0}
    /\ Bound \in [Limited -> Nat]
    /\ None \notin Nat

ExitUnverified == 71

VARIABLES
    probe,      \* an --exit-probe launch
    down,       \* the keys of the chord are down
    heldFor,    \* units since they went down
    events,     \* the chord's events on the event loop
    gen,        \* Hold::gen
    pressed,    \* Hold::pressed
    timers,     \* sleeping hold tasks: generation and units to go
    seen,       \* delivery_seen
    held,       \* chord_held
    task,       \* the verification's, then the probe's, task
    patience,   \* units until it gives up
    exit,       \* exit code of the process
    fired,      \* history: for how long the chord was down when a hold fired
    used        \* how much of Bound is used up

keys == <<down, heldFor>>
hold == <<gen, pressed, timers>>
flags == <<seen, held>>
arming == <<task, patience>>
vars == <<probe, keys, events, hold, flags, arming, exit, fired, used>>

Timer == [gen : Nat, left : 0 .. HoldTime]

TypeOK ==
    /\ probe \in BOOLEAN
    /\ down \in BOOLEAN /\ heldFor \in 0 .. HoldTime
    /\ events \in Seq({"Pressed", "Released"})
    /\ gen \in Nat
    /\ pressed \in 1 .. gen \cup {None}
    /\ timers \subseteq Timer
    /\ seen \in BOOLEAN /\ held \in BOOLEAN
    /\ task \in {"injecting", "verifying", "awaiting", "done"}
    /\ patience \in Nat
    /\ exit \in {None, 0, 1, ExitUnverified}
    /\ fired \in 0 .. HoldTime \cup {None}
    /\ used \in [Limited -> Nat]
-----------------------------------------------------------------------------
May(what) == used[what] < Bound[what]
Use(what) == used' = [used EXCEPT ![what] = @ + 1]

Running == exit = None

Init ==
    /\ probe \in BOOLEAN
    /\ down = FALSE /\ heldFor = 0
    /\ events = <<>>
    /\ gen = 0 /\ pressed = None /\ timers = {}
    /\ seen = FALSE /\ held = FALSE
    /\ task = "injecting" /\ patience = CanaryTime
    /\ exit = None /\ fired = None
    /\ used = [k \in Limited |-> 0]
-----------------------------------------------------------------------------
(* The keys.                                                               *)

ChordDown ==
    /\ Running /\ ~down /\ events = <<>> /\ May("presses") /\ Use("presses")
    /\ down' = TRUE /\ heldFor' = 0
    /\ events' = Append(events, "Pressed")
    /\ UNCHANGED <<probe, hold, flags, arming, exit, fired>>

KeyRepeat ==
    /\ Running /\ down /\ May("repeats") /\ Use("repeats")
    /\ events' = Append(events, "Pressed")
    /\ UNCHANGED <<probe, keys, hold, flags, arming, exit, fired>>

ChordUp ==
    /\ Running /\ down /\ down' = FALSE /\ heldFor' = 0
    /\ \/ events' = Append(events, "Released") /\ UNCHANGED used
       \/ events' = events /\ May("lost") /\ Use("lost")
    /\ UNCHANGED <<probe, hold, flags, arming, exit, fired>>
-----------------------------------------------------------------------------
(* The handler.  Definitions whose names end in "Faulty" are plausible     *)
(* bugs, each beside the definition it imitates.                           *)

NextGen == gen + 1

\* Pressed: a repeat keeps the deadline of the hold it belongs to.
Pressed ==
    /\ Running /\ events # <<>> /\ Head(events) = "Pressed"
    /\ events' = Tail(events)
    /\ seen' = TRUE
    /\ IF pressed # None THEN UNCHANGED hold
       ELSE /\ gen' = gen + 1
            /\ pressed' = NextGen
            /\ timers' = timers \cup {[gen |-> NextGen, left |-> HoldTime]}
    /\ UNCHANGED <<probe, keys, held, arming, exit, fired, used>>

\* Faulty: the release leaves the press in place.
ClearedFaulty == pressed
Cleared == None

Released ==
    /\ Running /\ events # <<>> /\ Head(events) = "Released"
    /\ events' = Tail(events)
    /\ pressed' = Cleared
    /\ UNCHANGED <<probe, keys, gen, timers, flags, arming, exit, fired, used>>

\* Faulty: any press that is still down will do, not only the timer's own.
StillDownFaulty(g) == pressed # None /\ down
StillDown(g) == pressed = g /\ down

\* A timer that has run out fires for the press that started it, or not at all.
TimerFires(t) ==
    /\ Running /\ t \in timers /\ t.left = 0
    /\ timers' = timers \ {t}
    /\ IF ~StillDown(t.gen) THEN UNCHANGED <<held, exit, fired>>
       ELSE /\ fired' = heldFor
            /\ IF probe THEN held' = TRUE /\ UNCHANGED exit
                        ELSE exit' = 0 /\ UNCHANGED held
    /\ UNCHANGED <<probe, keys, events, gen, pressed, seen, arming, used>>
-----------------------------------------------------------------------------
(* verify_delivery, arm_verified and spawn_probe.                          *)

\* The tap is down and up at once, and leaves the keys up also when the operator
\* held them.
InjectChordTap ==
    /\ Running /\ task = "injecting" /\ task' = "verifying"
    /\ \/ /\ events' = events \o <<"Pressed", "Released">>
          /\ down' = FALSE /\ heldFor' = 0
          /\ UNCHANGED used
       \/ /\ May("undelivered") /\ Use("undelivered")
          /\ UNCHANGED <<events, keys>>
    /\ UNCHANGED <<probe, hold, flags, patience, exit, fired>>

Verified ==
    /\ Running /\ task = "verifying" /\ seen
    /\ IF probe THEN task' = "awaiting" /\ patience' = ProbeTime
                ELSE task' = "done" /\ UNCHANGED patience
    /\ UNCHANGED <<probe, keys, events, hold, flags, exit, fired, used>>

Unverified ==
    /\ Running /\ task = "verifying" /\ ~seen /\ patience = 0
    /\ task' = "done"
    /\ exit' = IF probe THEN 1 ELSE ExitUnverified
    /\ UNCHANGED <<probe, keys, events, hold, flags, patience, fired, used>>

ProbeEnds ==
    /\ Running /\ task = "awaiting" /\ task' = "done"
    /\ \/ held /\ exit' = 0
       \/ ~held /\ patience = 0 /\ exit' = 1
    /\ UNCHANGED <<probe, keys, events, hold, flags, patience, fired, used>>
-----------------------------------------------------------------------------
\* Time passes when the event loop has nothing to do.  A poll that is due is made
\* before; a timer that is due may be late.
TimePasses ==
    /\ Running /\ events = <<>>
    /\ task \in {"verifying", "awaiting"} => patience > 0
    /\ heldFor' = IF down /\ heldFor < HoldTime THEN heldFor + 1 ELSE heldFor
    /\ timers' = {[t EXCEPT !.left = IF @ > 0 THEN @ - 1 ELSE 0] : t \in timers}
    /\ patience' = IF task \in {"verifying", "awaiting"} THEN patience - 1 ELSE patience
    /\ UNCHANGED <<probe, down, events, gen, pressed, flags, task, exit, fired, used>>

Handler == Pressed \/ Released
Hold == \E t \in timers : TimerFires(t)
Task == InjectChordTap \/ Verified \/ Unverified \/ ProbeEnds

Next == ChordDown \/ KeyRepeat \/ ChordUp \/ Handler \/ Hold \/ Task \/ TimePasses

Spec == Init /\ [][Next]_vars

\* The event loop and the runtime's tasks run, and time passes.
FairSpec == Spec /\ WF_vars(Handler) /\ WF_vars(Hold) /\ WF_vars(Task) /\ WF_vars(TimePasses)
-----------------------------------------------------------------------------
ReleaseLost == used.lost > 0

\* A hold fires only when the chord has been down, without a break, for the whole
\* time, whatever earlier presses left sleeping; as long as no release was lost.
FiresOnlyAfterHold == fired # None /\ ~ReleaseLost => fired >= HoldTime

\* Holding the chord gets the operator out, after whatever was pressed before; as
\* long as no release was lost (then one more press and release is needed).
HeldChordExits == <>[](down \/ ~Running) => <>(~Running \/ ReleaseLost)

\* Claim: "a lost release event or a transient ghost can never fire the exit".
LostReleaseNeverFires == fired # None => fired >= HoldTime
=============================================================================
