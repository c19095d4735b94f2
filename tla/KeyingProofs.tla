----------------------------- MODULE KeyingProofs -----------------------------
(***************************************************************************)
(* Proofs about SimKeying for any sticky names, any word and any weights:  *)
(* the line is never up over a layer that would refuse, a forced           *)
(* presentation gets what it asked for, and a real tap an outcome with a   *)
(* weight although u32 addition wraps around.                              *)
(***************************************************************************)
EXTENDS SimKeying, TLAPS

\* The armed outcome is the presentation's own while it waits to be drawn, and
\* nobody's otherwise, unless the console lent one.
ArmedInv ==
    ~lent => policy.forced = IF tap.step = "drawing" THEN tap.asked ELSE None

\* Without a name from the console the references are fresh ones.
FreshInv == ~stuck => policy.sticky = None /\ tap.chip = None

\* A tap in hand was admitted.
AdmittedInv == tap.step = "drawing" => downstream

\* What was drawn for a forced tap, and how it was judged.
DrawnInv ==
    tap.step \in {"drawn", "judged"} /\ tap.asked # None /\ ~tap.lent
    => tap.outcome = tap.asked
JudgedInv ==
    tap.step = "judged" /\ tap.chip = None
    => /\ tap.outcome = "keyed" => tap.verdict = "success"
       /\ tap.outcome = "recoverable" => tap.verdict = "retry"
       /\ tap.outcome = "permanent" => tap.verdict = "dead"

IInv == TypeOK /\ UpMeansReady /\ ArmedInv /\ FreshInv /\ AdmittedInv /\ DrawnInv /\ JudgedInv

-----------------------------------------------------------------------------
\* u32 addition either does not wrap or wraps once.
LEMMA PlusWraps ==
    ASSUME NEW a \in 0 .. Word - 1, NEW b \in 0 .. Word - 1
    PROVE  Plus(a, b) = IF a + b < Word THEN a + b ELSE a + b - Word
BY KeyingAssumption, SMTT(30) DEF Plus

LEMMA PlusType ==
    ASSUME NEW a \in 0 .. Word - 1, NEW b \in 0 .. Word - 1
    PROVE  Plus(a, b) \in 0 .. Word - 1
BY PlusWraps, KeyingAssumption

\* Whatever wraps, a roll of the sum never falls to an outcome without a weight, but
\* for the dead verdict of weights that are all zero.
LEMMA ByWeightWeighty ==
    ASSUME NEW w \in Weights, NEW roll \in RollsOf(w)
    PROVE  Weighty(w, ByWeight(w, roll))
<1> DEFINE k == w["keyed"]
           r == w["recoverable"]
           p == w["permanent"]
           s == Plus(k, r)
           t == Plus(s, p)
<1>1. k \in 0 .. Word - 1 /\ r \in 0 .. Word - 1 /\ p \in 0 .. Word - 1
  BY KeyingAssumption DEF WeightNames
<1>2. s = IF k + r < Word THEN k + r ELSE k + r - Word
  BY <1>1, PlusWraps
<1>3. s \in 0 .. Word - 1
  BY <1>1, PlusType
<1>4. t = IF s + p < Word THEN s + p ELSE s + p - Word
  BY <1>1, <1>3, PlusWraps
<1>5. roll \in Nat /\ (t = 0 => roll = 0) /\ (t # 0 => roll < t)
  <2>1. t \in 0 .. Word - 1
    BY <1>1, <1>3, PlusType
  <2> QED BY <2>1, KeyingAssumption DEF RollsOf
<1> HIDE DEF k, r, p, s, t
<1>6. CASE roll < k
  BY <1>1, <1>5, <1>6 DEF Weighty, ByWeight, WeightNames, k, r, s
<1>7. CASE ~(roll < k) /\ roll < s
  <2>1. r > 0
    BY <1>1, <1>2, <1>5, <1>7, KeyingAssumption
  <2> QED BY <1>7, <2>1 DEF Weighty, ByWeight, WeightNames, k, r, s
<1>8. CASE ~(roll < k) /\ ~(roll < s)
  <2>1. p > 0 \/ (k = 0 /\ r = 0 /\ p = 0)
    BY <1>1, <1>2, <1>3, <1>4, <1>5, <1>8, KeyingAssumption
  <2> QED BY <1>8, <2>1 DEF Weighty, ByWeight, WeightNames, k, r, s, p
<1> QED BY <1>6, <1>7, <1>8
-----------------------------------------------------------------------------
LEMMA InitIInv == Init => IInv
<1> SUFFICES ASSUME Init PROVE IInv
  OBVIOUS
<1>1. policy \in SimPolicy /\ policy.ready /\ policy.forced = None /\ policy.sticky = None
  <2>1. PICK w \in Weights :
          policy = [forced |-> None, weights |-> w, sticky |-> None, ready |-> TRUE]
    BY DEF Init
  <2> QED BY <2>1 DEF SimPolicy
<1>2. TypeOK
  <2>1. tap \in Tap
    BY DEF Init, Tap, NoTap
  <2>2. ledger \in [Chips -> 0 .. EscalationThreshold - 1]
    BY DEF Init, NoFailures, EscalationThreshold
  <2>3. reader \in BOOLEAN /\ downstream \in BOOLEAN /\ blip \in BOOLEAN
    BY <1>1 DEF Init, SimPolicy
  <2> QED BY <1>1, <2>1, <2>2, <2>3 DEF Init, TypeOK
<1> QED
  BY <1>1, <1>2 DEF Init, IInv, UpMeansReady, ArmedInv, FreshInv, AdmittedInv, DrawnInv, JudgedInv,
              NoTap

LEMMA TypeStep == TypeOK /\ [Next]_vars => TypeOK'
<1> SUFFICES ASSUME TypeOK, [Next]_vars PROVE TypeOK'
  OBVIOUS
<1> USE DEF TypeOK
<1>n. NoTap \in Tap /\ NoFailures \in [Chips -> 0 .. EscalationThreshold - 1]
  BY DEF NoTap, Tap, NoFailures, EscalationThreshold
<1>1. ASSUME NEW forced \in ForcedOutcome \cup {policy.forced}, NEW weights \in Weights,
             NEW sticky \in Chips \cup {None}, ArmPolicy(forced, weights, sticky)
      PROVE  TypeOK'
  BY <1>1 DEF ArmPolicy, SimPolicy
<1>2. ASSUME NEW present \in BOOLEAN, ReaderPresence(present) PROVE TypeOK'
  BY <1>2, <1>n DEF ReaderPresence
<1>3. ASSUME NEW ready \in BOOLEAN, SetDownstream(ready) PROVE TypeOK'
  BY <1>3, <1>n DEF SetDownstream, TellLayer, SimPolicy
<1>4. CASE Blip
  BY <1>4, <1>n DEF Blip
<1>5. CASE BlipExpires
  BY <1>5, <1>n DEF BlipExpires, TellLayer, SimPolicy
<1>6. CASE ClearLedger
  BY <1>6, <1>n DEF ClearLedger
<1>7. CASE ConformanceReset
  BY <1>7, <1>n DEF ConformanceReset, Disarmed, SimPolicy
<1>8. ASSUME NEW asked \in ForcedOutcome \cup {None}, NEW open \in BOOLEAN,
             CardPresented(asked, open)
      PROVE  TypeOK'
  <2>1. policy' \in SimPolicy
    BY <1>8 DEF CardPresented, Armed, SimPolicy
  <2>2. tap' \in Tap
    BY <1>8, <1>n DEF CardPresented, Tap
  <2> QED BY <1>8, <2>1, <2>2 DEF CardPresented
<1>9. CASE Draw
  <2>1. policy' \in SimPolicy
    BY <1>9 DEF Draw, SimPolicy
  <2>2. tap' \in Tap
    BY <1>9 DEF Draw, SimPolicy, Tap, ByWeight, ForcedOutcome
  <2> QED BY <1>9, <2>1, <2>2 DEF Draw
<1>10. CASE Judge
  <2>1. tap' \in Tap
    BY <1>10 DEF Judge, Tap, TapVerdict
  <2>2. ledger' \in [Chips -> 0 .. EscalationThreshold - 1]
    BY <1>10 DEF Judge, Retry, Attempt, EscalationThreshold, Tap
  <2> QED BY <1>10, <2>1, <2>2 DEF Judge
<1>11. CASE NotReady
  BY <1>11 DEF NotReady, Tap
<1>12. CASE UNCHANGED vars
  BY <1>12 DEF vars
<1> QED
  BY <1>1, <1>2, <1>3, <1>4, <1>5, <1>6, <1>7, <1>8, <1>9, <1>10, <1>11, <1>12
  DEF Next, Console, Message, KeyChip

LEMMA StepIInv == IInv /\ [Next]_vars => IInv'
<1> SUFFICES ASSUME IInv, [Next]_vars PROVE IInv'
  OBVIOUS
<1>t. TypeOK /\ TypeOK'
  BY TypeStep DEF IInv
<1> USE DEF IInv, UpMeansReady, ArmedInv, FreshInv, AdmittedInv, DrawnInv, JudgedInv
<1>1. ASSUME NEW forced \in ForcedOutcome \cup {policy.forced}, NEW weights \in Weights,
             NEW sticky \in Chips \cup {None}, ArmPolicy(forced, weights, sticky)
      PROVE  IInv'
  BY <1>1, <1>t DEF ArmPolicy, TypeOK, SimPolicy
<1>2. ASSUME NEW present \in BOOLEAN, ReaderPresence(present) PROVE IInv'
  BY <1>2, <1>t DEF ReaderPresence, NoTap, Idle
<1>3. ASSUME NEW ready \in BOOLEAN, SetDownstream(ready) PROVE IInv'
  BY <1>3, <1>t DEF SetDownstream, TellLayer, NoTap, Idle, TypeOK, SimPolicy
<1>4. CASE Blip
  BY <1>4, <1>t DEF Blip, NoTap, Idle
<1>5. CASE BlipExpires
  BY <1>5, <1>t DEF BlipExpires, TellLayer, NoTap, Idle, TypeOK, SimPolicy
<1>6. CASE ClearLedger
  BY <1>6, <1>t DEF ClearLedger, NoTap, Idle
<1>7. CASE ConformanceReset
  BY <1>7, <1>t DEF ConformanceReset, Disarmed, NoTap, TypeOK, SimPolicy
<1>8. ASSUME NEW asked \in ForcedOutcome \cup {None}, NEW open \in BOOLEAN,
             CardPresented(asked, open)
      PROVE  IInv'
  BY <1>8, <1>t DEF CardPresented, Armed, Connected, NoTap, Idle, TypeOK, SimPolicy, Tap
<1>9. CASE Draw
  BY <1>9, <1>t DEF Draw, TypeOK, SimPolicy, Tap
<1>10. CASE Judge
  BY <1>10, <1>t DEF Judge, Retry, Attempt, EscalationThreshold, TypeOK, Tap
<1>11. CASE NotReady
  BY <1>11, <1>t DEF NotReady, TypeOK, Tap
<1>12. CASE UNCHANGED vars
  BY <1>12, <1>t DEF vars
<1> QED
  BY <1>1, <1>2, <1>3, <1>4, <1>5, <1>6, <1>7, <1>8, <1>9, <1>10, <1>11, <1>12
  DEF Next, Console, Message, KeyChip

\* The invariant of the proofs, and with it the type invariant.
THEOREM Invariant == Spec => []IInv
<1> QED BY InitIInv, StepIInv, PTL DEF Spec

\* The numbers of the policy and of the draws keep their width, whatever is set and drawn.
THEOREM TypeCorrect == Spec => []TypeOK
<1>1. IInv => TypeOK
  BY DEF IInv
<1> QED BY <1>1, Invariant, PTL

\* A line that is up has a layer that takes chips, through readiness reports, blips,
\* refusals and resets in any order.
THEOREM Ready == Spec => []UpMeansReady
<1>1. IInv => UpMeansReady
  BY DEF IInv
<1> QED BY <1>1, Invariant, PTL

\* A presentation that asks for a verdict gets it, whatever was armed, refused or left
\* over before, as long as the console keeps out of it.
THEOREM AsRequested == Spec => []FiredAsRequested
<1>1. IInv => FiredAsRequested
  <2> SUFFICES ASSUME IInv, tap.step = "judged", ~tap.lent, ~stuck,
                      NEW v \in TapVerdict, tap.asked = ForceForVerdict(v)
               PROVE  tap.verdict = v
    BY DEF FiredAsRequested
  <2>1. /\ v = "success" => tap.asked = "keyed"
        /\ v = "retry" => tap.asked = "recoverable"
        /\ v = "dead" => tap.asked = "permanent"
        /\ tap.asked # None
    BY KeyingAssumption DEF ForceForVerdict, TapVerdict, ForcedOutcome
  <2>2. tap.outcome = tap.asked /\ tap.chip = None
    BY <2>1 DEF IInv, FreshInv, DrawnInv
  <2> QED BY <2>1, <2>2 DEF IInv, JudgedInv, TapVerdict
<1> QED BY <1>1, Invariant, PTL

\* A real tap draws an outcome that has a weight, for every width of the numbers.
THEOREM ByItsWeight == Spec => DrawsByWeight
<1>1. IInv /\ [Next]_vars
      => [tap.step = "drawing" /\ tap'.step = "drawn" /\ tap.asked = None /\ ~lent
          => Weighty(policy.weights, tap'.outcome)]_vars
  <2> SUFFICES ASSUME IInv, [Next]_vars, tap.step = "drawing", tap'.step = "drawn",
                      tap.asked = None, ~lent
               PROVE  Weighty(policy.weights, tap'.outcome)
    OBVIOUS
  <2>1. Draw
    BY DEF Next, Console, Message, KeyChip, ArmPolicy, ReaderPresence, SetDownstream, Blip,
           BlipExpires, ClearLedger, ConformanceReset, CardPresented, Judge, NotReady, Idle,
           vars
  <2>2. policy.ready /\ policy.forced = None /\ policy.weights \in Weights
    BY DEF IInv, UpMeansReady, ArmedInv, AdmittedInv, TypeOK, SimPolicy
  <2>3. PICK roll \in RollsOf(policy.weights) :
          tap'.outcome = ByWeight(policy.weights, roll)
    BY <2>1, <2>2 DEF Draw, IInv, TypeOK, Tap
  <2> QED BY <2>2, <2>3, ByWeightWeighty
<1> QED BY <1>1, Invariant, PTL DEF Spec, DrawsByWeight
=============================================================================
