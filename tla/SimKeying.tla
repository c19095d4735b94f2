------------------------------ MODULE SimKeying ------------------------------
(***************************************************************************)
(* The simulated keying layer of src-tauri/src/seams/keying.rs and those   *)
(* who share its policy: the core actor (core/actor.rs), which arms the    *)
(* outcome a presentation asks for, draws an outcome a moment later and    *)
(* judges the chip by it, and the sim console (commands/sim.rs), whose     *)
(* sim_arm_policy changes the same policy from another thread at any time, *)
(* also between those two moments.  Both hold the mutex for one access.    *)
(*                                                                         *)
(* A message may arrive whenever the actor is idle.  The latency of a draw *)
(* is the gap between Draw and Judge.  Persistence, the batch and what the *)
(* verdict does to them are StationCore's.                                 *)
(***************************************************************************)
EXTENDS Naturals

CONSTANTS
    Chips,    \* names the console may make sticky
    Word,     \* weights are unsigned numbers below Word, added modulo Word (2^32)
    Weights,  \* the weights station.toml and the console may set
    None      \* Rust's Option::None

ForcedOutcome == {"keyed", "recoverable", "permanent", "notready"}
TapVerdict == {"success", "retry", "dead"}
WeightNames == {"keyed", "recoverable", "permanent"}
EscalationThreshold == 3

ASSUME KeyingAssumption ==
    /\ Word \in Nat \ {0}
    /\ Weights \subseteq [WeightNames -> 0 .. Word - 1]
    /\ None \notin Chips \cup ForcedOutcome

VARIABLES
    policy,      \* SimPolicy, behind its mutex
    reader,      \* reader_present
    downstream,  \* downstream_ready
    blip,        \* blip_until is set
    ledger,      \* RetryLedger, of the sticky chips: any other reference is used once
    tap,         \* the presentation in hand, or the last one until the next message
    lent,        \* history: the armed outcome is the console's
    stuck        \* history: the console made a chip sticky since the last reset

vars == <<policy, reader, downstream, blip, ledger, tap, lent, stuck>>

SimPolicy == [forced : ForcedOutcome \cup {None}, weights : Weights,
              sticky : Chips \cup {None}, ready : BOOLEAN]
Tap == [step : {"none", "drawing", "drawn", "judged"},
        asked : ForcedOutcome \cup {None},
        outcome : ForcedOutcome \cup {None},
        chip : Chips \cup {None},
        verdict : TapVerdict \cup {None},
        lent : BOOLEAN]
NoTap == [step |-> "none", asked |-> None, outcome |-> None, chip |-> None,
          verdict |-> None, lent |-> FALSE]
NoFailures == [c \in Chips |-> 0]

TypeOK ==
    /\ policy \in SimPolicy
    /\ reader \in BOOLEAN /\ downstream \in BOOLEAN /\ blip \in BOOLEAN
    /\ ledger \in [Chips -> 0 .. EscalationThreshold - 1]
    /\ tap \in Tap
    /\ lent \in BOOLEAN /\ stuck \in BOOLEAN

Idle == tap.step \in {"none", "judged"}

\* run: the downstream leg is seeded by the layer's own readiness.
Init ==
    /\ policy \in [forced : {None}, weights : Weights, sticky : {None}, ready : {TRUE}]
    /\ reader = FALSE
    /\ downstream = policy.ready
    /\ blip = FALSE
    /\ ledger = NoFailures
    /\ tap = NoTap
    /\ lent = FALSE /\ stuck = FALSE
-----------------------------------------------------------------------------
(* The sim console, on a thread of its own.                                *)

\* A field the patch does not name keeps its value; an empty sticky name clears it.
ArmPolicy(forced, weights, sticky) ==
    /\ policy' = [policy EXCEPT !.forced = forced, !.weights = weights, !.sticky = sticky]
    /\ lent' = (lent \/ forced # policy.forced)
    /\ stuck' = (stuck \/ sticky # None)
    /\ UNCHANGED <<reader, downstream, blip, ledger, tap>>
-----------------------------------------------------------------------------
(* Messages of the actor.                                                  *)

ReaderPresence(present) ==
    /\ Idle
    /\ reader' = present
    /\ tap' = NoTap
    /\ UNCHANGED <<policy, downstream, blip, ledger, lent, stuck>>

\* (Definitions whose names end in "Faulty" are plausible bugs; no specification
\* uses them.)  Faulty: only a layer that goes down is told so.
TellLayerFaulty(ready) == IF ready THEN policy ELSE [policy EXCEPT !.ready = FALSE]
TellLayer(ready) == [policy EXCEPT !.ready = ready]

SetDownstream(ready) ==
    /\ Idle
    /\ policy' = TellLayer(ready)
    /\ downstream' = ready
    /\ tap' = NoTap
    /\ UNCHANGED <<reader, blip, ledger, lent, stuck>>

\* A blip takes the leg down and leaves the layer as it is.
Blip ==
    /\ Idle
    /\ blip' = TRUE
    /\ downstream' = FALSE
    /\ tap' = NoTap
    /\ UNCHANGED <<policy, reader, ledger, lent, stuck>>

\* on_tick once blip_until is past: the leg comes back, whatever took it down.
BlipExpires ==
    /\ Idle /\ blip
    /\ blip' = FALSE
    /\ policy' = TellLayer(TRUE)
    /\ downstream' = TRUE
    /\ tap' = NoTap
    /\ UNCHANGED <<reader, ledger, lent, stuck>>

\* begin_shift and ResetDemo clear the ledger and leave the policy alone.
ClearLedger ==
    /\ Idle
    /\ ledger' = NoFailures
    /\ tap' = NoTap
    /\ UNCHANGED <<policy, reader, downstream, blip, lent, stuck>>

\* Faulty: the sticky chip outlives the reset.
DisarmedFaulty == [policy EXCEPT !.forced = None, !.ready = TRUE]
Disarmed == [policy EXCEPT !.forced = None, !.sticky = None, !.ready = TRUE]

ConformanceReset ==
    /\ Idle
    /\ policy' = Disarmed
    /\ reader' = TRUE /\ downstream' = TRUE
    /\ ledger' = NoFailures
    /\ tap' = NoTap
    /\ lent' = FALSE /\ stuck' = FALSE
    /\ UNCHANGED blip
-----------------------------------------------------------------------------
(* A presentation: gates, arm, draw, latency, verdict.                     *)

Connected == reader /\ downstream

\* Faulty: the outcome is armed before the gates, also for a tap they refuse.
ArmedFaulty(asked, admitted) ==
    IF asked # None THEN [policy EXCEPT !.forced = asked] ELSE policy
Armed(asked, admitted) ==
    IF asked # None /\ admitted THEN [policy EXCEPT !.forced = asked] ELSE policy

\* A card on a reader asks for nothing, sim_present_chip for what it likes,
\* conformance_fire_tap for a verdict; `open` is the rest of the gates: a session
\* file that can be written, an active batch, no blocked overrun.
CardPresented(asked, open) ==
    /\ Idle
    /\ LET admitted == Connected /\ open
       IN /\ policy' = Armed(asked, admitted)
          /\ tap' = IF admitted THEN [NoTap EXCEPT !.step = "drawing", !.asked = asked]
                                ELSE NoTap
          /\ lent' = (lent /\ ~(admitted /\ asked # None))
    /\ UNCHANGED <<reader, downstream, blip, ledger, stuck>>

\* u32 addition of a release build.
Plus(a, b) == (a + b) % Word

RollsOf(w) ==
    LET total == Plus(Plus(w["keyed"], w["recoverable"]), w["permanent"])
    IN IF total = 0 THEN {0} ELSE 0 .. total - 1

ByWeight(w, roll) ==
    IF roll < w["keyed"] THEN "keyed"
    ELSE IF roll < Plus(w["keyed"], w["recoverable"]) THEN "recoverable"
    ELSE "permanent"

\* SimKeying::draw: takes the armed outcome, copies the sticky name.
Draw ==
    /\ tap.step = "drawing"
    /\ \E roll \in RollsOf(policy.weights) :
         tap' = [tap EXCEPT !.step = "drawn",
                            !.outcome = IF policy.forced # None THEN policy.forced
                                        ELSE IF ~policy.ready THEN "notready"
                                        ELSE ByWeight(policy.weights, roll),
                            !.chip = policy.sticky,
                            !.lent = lent]
    /\ policy' = [policy EXCEPT !.forced = None]
    /\ lent' = FALSE
    /\ UNCHANGED <<reader, downstream, blip, ledger, stuck>>

\* record_failure: the first one of a reference nothing else has.
Attempt == IF tap.chip = None THEN 1 ELSE ledger[tap.chip] + 1

Retry == tap.outcome = "recoverable" /\ Attempt < EscalationThreshold

Judge ==
    /\ tap.step = "drawn"
    /\ tap.outcome # "notready"
    /\ tap' = [tap EXCEPT !.step = "judged",
                          !.verdict = IF tap.outcome = "keyed" THEN "success"
                                      ELSE IF Retry THEN "retry" ELSE "dead"]
    /\ ledger' = [c \in Chips |-> IF c # tap.chip THEN ledger[c]
                                  ELSE IF Retry THEN Attempt ELSE 0]
    /\ UNCHANGED <<policy, reader, downstream, blip, lent, stuck>>

\* No verdict: the leg goes down, the layer's own readiness stays.
NotReady ==
    /\ tap.step = "drawn" /\ tap.outcome = "notready"
    /\ tap' = [tap EXCEPT !.step = "judged"]
    /\ downstream' = FALSE
    /\ UNCHANGED <<policy, reader, blip, ledger, lent, stuck>>
-----------------------------------------------------------------------------
Console == \E forced \in ForcedOutcome \cup {policy.forced}, weights \in Weights,
              sticky \in Chips \cup {None} : ArmPolicy(forced, weights, sticky)

Message == \/ \E present \in BOOLEAN : ReaderPresence(present)
           \/ \E ready \in BOOLEAN : SetDownstream(ready)
           \/ Blip \/ BlipExpires \/ ClearLedger \/ ConformanceReset
           \/ \E asked \in ForcedOutcome \cup {None}, open \in BOOLEAN :
                 CardPresented(asked, open)

KeyChip == Draw \/ Judge \/ NotReady

Next == Console \/ Message \/ KeyChip

Spec == Init /\ [][Next]_vars
-----------------------------------------------------------------------------
\* force_for_verdict: what conformance_fire_tap arms for the verdict it wants.
ForceForVerdict(verdict) ==
    CASE verdict = "success" -> "keyed"
      [] verdict = "retry" -> "recoverable"
      [] verdict = "dead" -> "permanent"

\* The line is never up over a policy that is not ready, and would refuse every chip,
\* through readiness reports, blips that overlap them, refusals and resets.  (An outcome
\* armed as not ready still refuses one chip of a layer that is.)
UpMeansReady == downstream => policy.ready

\* A presentation that asked for a verdict gets exactly that one: never what an earlier
\* or a refused presentation asked for, never a third strike.  Exempt are a console that
\* armed an outcome between this tap's arming and its draw, and one that made a chip
\* sticky since the last reset.
FiredAsRequested ==
    tap.step = "judged" /\ ~tap.lent /\ ~stuck
    => \A v \in TapVerdict : tap.asked = ForceForVerdict(v) => tap.verdict = v

Weighty(w, outcome) ==
    /\ outcome \in WeightNames
    /\ w[outcome] > 0 \/ (outcome = "permanent" /\ \A n \in WeightNames : w[n] = 0)

\* A real tap, which asks for nothing, gets a verdict and one that has a weight, also
\* when the sum of the weights wraps around: never a refusal, never what somebody else's
\* presentation asked for.  If all weights are zero every chip is dead.
DrawsByWeight ==
    [][tap.step = "drawing" /\ tap'.step = "drawn" /\ tap.asked = None /\ ~lent
       => Weighty(policy.weights, tap'.outcome)]_vars
=============================================================================
