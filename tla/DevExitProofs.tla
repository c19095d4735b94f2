---------------------------- MODULE DevExitProofs ----------------------------
(***************************************************************************)
(* Proofs about DevExit for any hold time, any number of presses, repeats, *)
(* taps and timers: its types, and that the chord fires only after a hold  *)
(* of the full length, unless a release was lost.                          *)
(*                                                                         *)
(* The property is not inductive: a timer knows its press only by its      *)
(* generation.  HeldSince says that the keys have been down since the      *)
(* press a timer belongs to, which holds because a press that is over is   *)
(* forgotten before the next one can be made (Released).                   *)
(***************************************************************************)
EXTENDS DevExit, TLAPS

\* While the keys are down only presses and their repeats are on the event loop.
OnlyPresses == down => \A i \in DOMAIN events : events[i] = "Pressed"

\* Once they are up the press is forgotten, or a release that will see to it is the last event.
WillForget ==
    ~ReleaseLost /\ ~down =>
      /\ events = <<>> => pressed = None
      /\ events # <<>> => events[Len(events)] = "Released"

\* A timer of the present press has no longer to go than the keys have yet to be down.
HeldSince ==
    ~ReleaseLost /\ down =>
      \A t \in timers : t.gen = pressed => heldFor + t.left >= HoldTime

\* No timer belongs to a press to come.
TimersPast == \A t \in timers : t.gen <= gen

IInv == TypeOK /\ OnlyPresses /\ WillForget /\ HeldSince /\ TimersPast /\ FiresOnlyAfterHold

LEMMA LimitedKinds ==
  /\ Limited = {"presses", "repeats", "lost", "undelivered"}
  /\ TypeOK => used.lost \in Nat
BY DEF Limited, TypeOK

LEMMA Times ==
  /\ {HoldTime, CanaryTime, ProbeTime} \subseteq Nat \ {0}
  /\ HoldTime \in Nat /\ CanaryTime \in Nat /\ ProbeTime \in Nat
  /\ 0 \in 0 .. HoldTime
BY DevExitAssumption

\* Counting an event; a lost release stays lost.
LEMMA Using ==
  ASSUME TypeOK, NEW what \in Limited, Use(what)
  PROVE  /\ used' \in [Limited -> Nat]
         /\ ReleaseLost => ReleaseLost'
         /\ what = "lost" => ReleaseLost'
<1>1. used \in [Limited -> Nat] /\ used[what] \in Nat /\ "lost" \in Limited
  BY LimitedKinds DEF TypeOK
<1>2. used' = [used EXCEPT ![what] = used[what] + 1]
  BY DEF Use
<1>3. used' \in [Limited -> Nat]
  BY <1>1, <1>2
<1>4. /\ used'["lost"] >= used["lost"] /\ used["lost"] \in Nat
      /\ what = "lost" => used'["lost"] = used["lost"] + 1
  BY <1>1, <1>2
<1>5. PICK before \in Nat : before = used["lost"]
  BY <1>4
<1>6. /\ used'["lost"] >= before
      /\ what = "lost" => used'["lost"] = before + 1
      /\ ReleaseLost => before > 0
  BY <1>4, <1>5 DEF ReleaseLost
<1>7. PICK after \in Nat : after = used'["lost"]
  BY <1>1, <1>3
<1>8. ReleaseLost' <=> after > 0
  BY <1>7 DEF ReleaseLost
<1> QED BY <1>3, <1>6, <1>7, <1>8

LEMMA Initially == Init => IInv
<1> SUFFICES ASSUME Init PROVE IInv
  OBVIOUS
<1>1. used \in [Limited -> Nat]
  BY DEF Init
<1>2. events \in Seq({"Pressed", "Released"}) /\ DOMAIN events = {}
  BY DEF Init
<1>3. TypeOK
  BY <1>1, <1>2, Times DEF Init, TypeOK
<1> QED BY <1>2, <1>3
        DEF Init, IInv, OnlyPresses, WillForget, HeldSince, TimersPast, FiresOnlyAfterHold

\* An event that is added, or handled.
LEMMA Added ==
  ASSUME TypeOK, NEW e \in {"Pressed", "Released"}, events' = Append(events, e)
  PROVE  /\ events' \in Seq({"Pressed", "Released"})
         /\ events' # <<>> /\ events'[Len(events')] = e
         /\ \A i \in DOMAIN events' : events'[i] = e \/ \E j \in DOMAIN events : events'[i] = events[j]
<1>1. events \in Seq({"Pressed", "Released"})
  BY DEF TypeOK
<1>2. /\ events' \in Seq({"Pressed", "Released"})
      /\ Len(events') = Len(events) + 1 /\ Len(events) \in Nat
      /\ events'[Len(events) + 1] = e
      /\ DOMAIN events = 1 .. Len(events) /\ DOMAIN events' = 1 .. Len(events) + 1
      /\ \A i \in 1 .. Len(events) : events'[i] = events[i]
  BY <1>1
<1>3. events' # <<>>
  BY <1>2
<1> QED BY <1>2, <1>3

LEMMA Handled ==
  ASSUME TypeOK, events # <<>>, events' = Tail(events)
  PROVE  /\ events' \in Seq({"Pressed", "Released"})
         /\ \E j \in DOMAIN events : Head(events) = events[j]
         /\ \A i \in DOMAIN events' : \E j \in DOMAIN events : events'[i] = events[j]
         /\ events' = <<>> => Head(events) = events[Len(events)]
         /\ events' # <<>> => events'[Len(events')] = events[Len(events)]
<1>1. /\ events \in Seq({"Pressed", "Released"}) /\ Len(events) \in Nat \ {0}
      /\ DOMAIN events = 1 .. Len(events)
  BY DEF TypeOK
<1>2. /\ events' \in Seq({"Pressed", "Released"}) /\ Len(events') = Len(events) - 1
      /\ DOMAIN events' = 1 .. Len(events) - 1
      /\ Head(events) = events[1]
      /\ \A i \in 1 .. Len(events) - 1 : events'[i] = events[i + 1]
  BY <1>1
<1>3. 1 \in DOMAIN events /\ \A i \in DOMAIN events' : i + 1 \in DOMAIN events
  BY <1>1, <1>2
<1>4. events' = <<>> => Len(events) = 1
  <2>1. events' = <<>> => Len(events') = 0
    OBVIOUS
  <2> QED BY <1>1, <1>2, <2>1
<1>5. events' # <<>> => Len(events') \in 1 .. Len(events) - 1 /\ Len(events') + 1 = Len(events)
  BY <1>1, <1>2
<1> QED BY <1>2, <1>3, <1>4, <1>5
-----------------------------------------------------------------------------
(* The steps.                                                              *)

\* A step that leaves the keys, the events and the holds alone.
LEMMA QuietKept ==
  ASSUME IInv, TypeOK', UNCHANGED <<keys, events, hold, fired>>, ReleaseLost => ReleaseLost'
  PROVE  IInv'
BY DEF keys, hold, IInv, OnlyPresses, WillForget, HeldSince, TimersPast, FiresOnlyAfterHold

LEMMA KeysKept ==
  ASSUME IInv, ChordDown \/ KeyRepeat \/ ChordUp
  PROVE  IInv'
<1> USE DEF IInv, keys, hold, flags, arming
<1>0. {"presses", "repeats", "lost"} \subseteq Limited
  BY LimitedKinds
<1>1. CASE ChordDown
  <2>1. /\ UNCHANGED <<probe, gen, pressed, timers, seen, held, task, patience, exit, fired>>
        /\ down' = TRUE /\ heldFor' = 0 /\ ~down /\ events = <<>>
        /\ events' = Append(events, "Pressed")
        /\ used' \in [Limited -> Nat] /\ (ReleaseLost => ReleaseLost')
    BY <1>0, <1>1, Using DEF ChordDown
  <2>2. /\ events' \in Seq({"Pressed", "Released"})
        /\ \A i \in DOMAIN events' : events'[i] = "Pressed"
    <3>1. DOMAIN events = {}
      BY <2>1
    <3> QED BY <2>1, <3>1, Added
  <2>3. TypeOK'
    BY <2>1, <2>2, DevExitAssumption DEF TypeOK
  <2>4. HeldSince'
    <3>1. ~ReleaseLost => pressed = None
      BY <2>1 DEF WillForget
    <3>2. \A t \in timers : t.gen # None
      BY DevExitAssumption DEF TypeOK, Timer
    <3> QED BY <2>1, <3>1, <3>2 DEF HeldSince
  <2> QED BY <2>1, <2>2, <2>3, <2>4 DEF OnlyPresses, WillForget, TimersPast, FiresOnlyAfterHold
<1>2. CASE KeyRepeat
  <2>1. /\ UNCHANGED <<probe, down, heldFor, gen, pressed, timers, seen, held, task, patience,
                       exit, fired>>
        /\ down /\ events' = Append(events, "Pressed")
        /\ used' \in [Limited -> Nat] /\ (ReleaseLost => ReleaseLost')
    BY <1>0, <1>2, Using DEF KeyRepeat
  <2>2. /\ events' \in Seq({"Pressed", "Released"})
        /\ \A i \in DOMAIN events' : events'[i] = "Pressed"
    BY <2>1, Added DEF OnlyPresses
  <2>3. TypeOK'
    BY <2>1, <2>2 DEF TypeOK
  <2> QED BY <2>1, <2>2, <2>3
          DEF OnlyPresses, WillForget, HeldSince, TimersPast, FiresOnlyAfterHold
<1>3. CASE ChordUp
  <2>1. /\ UNCHANGED <<probe, gen, pressed, timers, seen, held, task, patience, exit, fired>>
        /\ down' = FALSE /\ heldFor' = 0
    BY <1>3 DEF ChordUp
  <2>2. CASE events' = Append(events, "Released") /\ UNCHANGED used
    <3>1. /\ events' \in Seq({"Pressed", "Released"})
          /\ events' # <<>> /\ events'[Len(events')] = "Released"
      BY <2>2, Added
    <3>2. TypeOK'
      BY <2>1, <2>2, <3>1, Times DEF TypeOK
    <3> QED BY <2>1, <2>2, <3>1, <3>2
            DEF OnlyPresses, WillForget, HeldSince, TimersPast, FiresOnlyAfterHold, ReleaseLost
  <2>3. CASE events' = events /\ Use("lost")
    <3>1. used' \in [Limited -> Nat] /\ ReleaseLost'
      BY <1>0, <2>3, Using
    <3>2. TypeOK'
      BY <2>1, <2>3, <3>1, Times DEF TypeOK
    <3> QED BY <2>1, <3>1, <3>2
            DEF OnlyPresses, WillForget, HeldSince, TimersPast, FiresOnlyAfterHold
  <2> QED BY <1>3, <2>2, <2>3 DEF ChordUp
<1> QED BY <1>1, <1>2, <1>3

LEMMA PressedKept ==
  ASSUME IInv, Pressed
  PROVE  IInv'
<1> USE DEF IInv, keys, hold, flags, arming
<1>1. /\ UNCHANGED <<probe, down, heldFor, held, task, patience, exit, fired, used>>
      /\ events # <<>> /\ Head(events) = "Pressed" /\ events' = Tail(events) /\ seen' = TRUE
  BY DEF Pressed
<1>2. /\ events' \in Seq({"Pressed", "Released"})
      /\ \A i \in DOMAIN events' : \E j \in DOMAIN events : events'[i] = events[j]
      /\ events' = <<>> => events[Len(events)] = "Pressed"
      /\ events' # <<>> => events'[Len(events')] = events[Len(events)]
  BY <1>1, Handled
<1>3. OnlyPresses'
  BY <1>1, <1>2 DEF OnlyPresses
<1>4. ReleaseLost' = ReleaseLost
  BY <1>1 DEF ReleaseLost
<1>5. ~ReleaseLost /\ ~down => events' # <<>> /\ events'[Len(events')] = "Released"
  BY <1>1, <1>2 DEF WillForget
<1>6. WillForget' /\ FiresOnlyAfterHold'
  BY <1>1, <1>4, <1>5 DEF WillForget, FiresOnlyAfterHold
<1>7. CASE pressed # None
  <2>1. UNCHANGED <<gen, pressed, timers>>
    BY <1>7 DEF Pressed
  <2>2. TypeOK'
    BY <1>1, <1>2, <2>1 DEF TypeOK
  <2> QED BY <1>1, <1>3, <1>4, <1>6, <2>1, <2>2 DEF HeldSince, TimersPast
<1>8. CASE pressed = None
  <2>1. /\ gen' = gen + 1 /\ pressed' = gen + 1
        /\ timers' = timers \cup {[gen |-> gen + 1, left |-> HoldTime]}
    BY <1>8 DEF Pressed, NextGen
  <2>2. gen \in Nat /\ HoldTime \in Nat /\ heldFor \in Nat
    BY DevExitAssumption DEF TypeOK
  <2>3. [gen |-> gen + 1, left |-> HoldTime] \in Timer
    BY <2>2 DEF Timer
  <2>4. timers' \subseteq Timer /\ pressed' \in 1 .. gen' \cup {None}
    BY <2>1, <2>2, <2>3 DEF TypeOK
  <2>5. TypeOK'
    BY <1>1, <1>2, <2>1, <2>2, <2>4 DEF TypeOK
  <2>6. \A t \in timers : t.gen \in Nat /\ t.gen <= gen
    BY DEF TimersPast, TypeOK, Timer
  <2>7. TimersPast'
    BY <2>1, <2>2, <2>6 DEF TimersPast
  <2>8. HeldSince'
    <3> SUFFICES ASSUME NEW t \in timers', t.gen = gen + 1 PROVE heldFor + t.left >= HoldTime
      BY <1>1, <2>1 DEF HeldSince
    <3>1. t = [gen |-> gen + 1, left |-> HoldTime]
      BY <2>1, <2>2, <2>6
    <3> QED BY <2>2, <3>1
  <2> QED BY <1>3, <1>6, <2>5, <2>7, <2>8
<1> QED BY <1>7, <1>8

LEMMA ReleasedKept ==
  ASSUME IInv, Released
  PROVE  IInv'
<1> USE DEF IInv, keys, hold, flags, arming
<1>1. /\ UNCHANGED <<probe, down, heldFor, gen, timers, seen, held, task, patience, exit, fired,
                     used>>
      /\ events # <<>> /\ Head(events) = "Released" /\ events' = Tail(events)
      /\ pressed' = None
  BY DEF Released, Cleared
<1>2. /\ events' \in Seq({"Pressed", "Released"})
      /\ \E j \in DOMAIN events : events[j] = "Released"
      /\ events' # <<>> => events'[Len(events')] = events[Len(events)]
  BY <1>1, Handled
<1>3. ~down
  BY <1>2 DEF OnlyPresses
<1>4. TypeOK'
  BY <1>1, <1>2 DEF TypeOK
<1> QED BY <1>1, <1>2, <1>3, <1>4
        DEF OnlyPresses, WillForget, HeldSince, TimersPast, FiresOnlyAfterHold, ReleaseLost

\* A timer fires only for the press that is still down: then the keys have been down as long as
\* it ran.
LEMMA TimerKept ==
  ASSUME IInv, NEW t \in timers, TimerFires(t)
  PROVE  IInv'
<1> USE DEF IInv, keys, hold, flags, arming
<1>1. /\ UNCHANGED <<probe, down, heldFor, events, gen, pressed, seen, task, patience, used>>
      /\ t.left = 0 /\ timers' = timers \ {t}
  BY DEF TimerFires
<1>2. CASE ~StillDown(t.gen)
  <2>1. UNCHANGED <<held, exit, fired>>
    BY <1>2 DEF TimerFires
  <2>2. TypeOK'
    BY <1>1, <2>1 DEF TypeOK
  <2> QED BY <1>1, <2>1, <2>2
          DEF OnlyPresses, WillForget, HeldSince, TimersPast, FiresOnlyAfterHold, ReleaseLost
<1>3. CASE StillDown(t.gen)
  <2>1. /\ fired' = heldFor /\ pressed = t.gen /\ down
        /\ (held' = TRUE /\ exit' = exit) \/ (exit' = 0 /\ held' = held)
    BY <1>3 DEF TimerFires, StillDown
  <2>2. TypeOK'
    BY <1>1, <2>1 DEF TypeOK
  <2>3. ~ReleaseLost => heldFor >= HoldTime
    <3>1. heldFor \in Nat /\ HoldTime \in Nat
      BY Times DEF TypeOK
    <3> QED BY <1>1, <2>1, <3>1 DEF HeldSince
  <2>4. FiresOnlyAfterHold'
    BY <1>1, <2>1, <2>3 DEF FiresOnlyAfterHold, ReleaseLost
  <2> QED BY <1>1, <2>2, <2>4 DEF OnlyPresses, WillForget, HeldSince, TimersPast, ReleaseLost
<1> QED BY <1>2, <1>3

\* The tap of the verification leaves the keys up, and its release behind its press.
LEMMA InjectKept ==
  ASSUME IInv, InjectChordTap
  PROVE  IInv'
<1> USE DEF IInv, keys, hold, flags, arming
<1>1. /\ UNCHANGED <<probe, gen, pressed, timers, seen, held, patience, exit, fired>>
      /\ task' = "verifying"
  BY DEF InjectChordTap
<1>2. CASE /\ events' = events \o <<"Pressed", "Released">>
           /\ down' = FALSE /\ heldFor' = 0 /\ UNCHANGED used
  <2>1. events \in Seq({"Pressed", "Released"})
    BY DEF TypeOK
  <2>2. /\ events' \in Seq({"Pressed", "Released"})
        /\ Len(events') = Len(events) + 2 /\ Len(events) \in Nat
        /\ events'[Len(events) + 2] = "Released"
    BY <1>2, <2>1
  <2>3. events' # <<>> /\ events'[Len(events')] = "Released"
    BY <2>2
  <2>4. TypeOK'
    BY <1>1, <1>2, <2>2, Times DEF TypeOK
  <2> QED BY <1>1, <1>2, <2>3, <2>4
          DEF OnlyPresses, WillForget, HeldSince, TimersPast, FiresOnlyAfterHold, ReleaseLost
<1>3. CASE Use("undelivered") /\ UNCHANGED <<events, down, heldFor>>
  <2>1. used' \in [Limited -> Nat] /\ (ReleaseLost => ReleaseLost')
    BY <1>3, LimitedKinds, Using
  <2>2. TypeOK'
    BY <1>1, <1>3, <2>1 DEF TypeOK
  <2> QED BY <1>1, <1>3, <2>1, <2>2, QuietKept
<1> QED BY <1>2, <1>3 DEF InjectChordTap

LEMMA TaskKept ==
  ASSUME IInv, Verified \/ Unverified \/ ProbeEnds
  PROVE  IInv'
<1>1. UNCHANGED <<probe, keys, events, hold, flags, fired, used>>
  BY DEF Verified, Unverified, ProbeEnds
<1>2. TypeOK'
  <2>1. task' \in {"awaiting", "done"} /\ patience' \in Nat /\ exit' \in {None, 0, 1, ExitUnverified}
    BY DevExitAssumption DEF Verified, Unverified, ProbeEnds, IInv, TypeOK
  <2> QED BY <1>1, <2>1 DEF IInv, TypeOK, keys, hold, flags
<1> QED BY <1>1, <1>2, QuietKept DEF ReleaseLost

\* In a unit a timer has one less to go, and the keys were down one more.
LEMMA TimeKept ==
  ASSUME IInv, TimePasses
  PROVE  IInv'
<1> USE DEF IInv, keys, hold, flags, arming
<1>1. /\ UNCHANGED <<probe, down, events, gen, pressed, seen, held, task, exit, fired, used>>
      /\ heldFor' = IF down /\ heldFor < HoldTime THEN heldFor + 1 ELSE heldFor
      /\ timers' = {[t EXCEPT !.left = IF @ > 0 THEN @ - 1 ELSE 0] : t \in timers}
      /\ task \in {"verifying", "awaiting"} => patience > 0
      /\ patience' = IF task \in {"verifying", "awaiting"} THEN patience - 1 ELSE patience
  BY DEF TimePasses
<1>2. /\ HoldTime \in Nat /\ heldFor \in 0 .. HoldTime /\ patience \in Nat
      /\ \A t \in timers : t \in Timer
  BY DevExitAssumption DEF TypeOK
<1>3. heldFor' \in 0 .. HoldTime /\ patience' \in Nat
  BY <1>1, <1>2
<1>4. ASSUME NEW u \in timers'
      PROVE  \E t \in timers : /\ u \in Timer /\ u.gen = t.gen
                               /\ u.left = IF t.left > 0 THEN t.left - 1 ELSE 0
  <2>1. PICK t \in timers : u = [t EXCEPT !.left = IF t.left > 0 THEN t.left - 1 ELSE 0]
    BY <1>1
  <2>2. t \in Timer /\ t.left \in 0 .. HoldTime
    BY <1>2 DEF Timer
  <2>3. (IF t.left > 0 THEN t.left - 1 ELSE 0) \in 0 .. HoldTime
    BY <1>2, <2>2
  <2> QED BY <2>1, <2>2, <2>3 DEF Timer
<1>5. TypeOK'
  BY <1>1, <1>3, <1>4 DEF TypeOK
<1>6. TimersPast'
  BY <1>1, <1>4 DEF TimersPast
<1>7. HeldSince'
  <2> SUFFICES ASSUME ~ReleaseLost, down, NEW u \in timers', u.gen = pressed
               PROVE  heldFor' + u.left >= HoldTime
    BY <1>1 DEF HeldSince, ReleaseLost
  <2>1. PICK t \in timers : u.gen = t.gen /\ u.left = IF t.left > 0 THEN t.left - 1 ELSE 0
    BY <1>4
  <2>2. heldFor + t.left >= HoldTime /\ t.left \in 0 .. HoldTime
    BY <1>2, <2>1 DEF HeldSince, Timer
  <2> QED BY <1>1, <1>2, <2>1, <2>2
<1> QED BY <1>1, <1>5, <1>6, <1>7 DEF OnlyPresses, WillForget, FiresOnlyAfterHold, ReleaseLost

\* The inductive invariant, for every time a chord is to be held.
THEOREM Invariant == Spec => []IInv
<1>1. IInv /\ [Next]_vars => IInv'
  <2> SUFFICES ASSUME IInv, [Next]_vars PROVE IInv'
    OBVIOUS
  <2>1. CASE UNCHANGED vars
    <3>1. TypeOK'
      BY <2>1 DEF IInv, TypeOK, vars, keys, hold, flags, arming
    <3> QED BY <2>1, <3>1, QuietKept DEF vars, ReleaseLost
  <2>2. CASE Next
    BY <2>2, KeysKept, PressedKept, ReleasedKept, TimerKept, InjectKept, TaskKept, TimeKept
       DEF Next, Handler, Hold, Task
  <2> QED BY <2>1, <2>2
<1> QED BY <1>1, Initially, PTL DEF Spec

\* The generations, the timers and the keys keep their types.
THEOREM TypeCorrect == Spec => []TypeOK
<1>1. IInv => TypeOK
  BY DEF IInv
<1> QED BY <1>1, Invariant, PTL

\* The chord ends the process, or passes a probe, only when it was held for the whole time
\* without a break, whatever earlier presses left sleeping; as long as no release was lost
\* (devexit.rs, the generation a timer compares).
THEOREM OnlyAfterHold == Spec => []FiresOnlyAfterHold
<1>1. IInv => FiresOnlyAfterHold
  BY DEF IInv
<1> QED BY <1>1, Invariant, PTL
=============================================================================
