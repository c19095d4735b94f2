--------------------------- MODULE WatchdogProofs ----------------------------
(***************************************************************************)
(* Proofs about Watchdog, for any cap, window, heartbeat limit and load    *)
(* time: it attempts no more recoveries than things went wrong, and no     *)
(* more in any span of the window's length than the cap; it gives up only  *)
(* when that many were carried out.                                        *)
(*                                                                         *)
(* Causes are paid in advance: what went wrong is counted when it happens, *)
(* the attempts for it are made later.  The invariant says that the causes *)
(* also cover the failures still to be handled and, if the silence of the  *)
(* page will outlast the limit without anything else going wrong, the      *)
(* heartbeat's attempt (Credit).                                           *)
(*                                                                         *)
(* For the cap it says that the gate, pruned as admit would prune it, is   *)
(* the list of the recoveries of the last span.                            *)
(***************************************************************************)
EXTENDS Watchdog, SequenceTheorems, WellFoundedInduction, TLAPS

\* The watchdog still attempts recoveries, and they are counted.
Active == ~lost /\ pc \notin {"faulting", "stopped"}

Busy == failures # <<>> \/ pc # "watching"

\* The heartbeat may fall silent for too long although nothing else goes wrong: the page
\* may not load in time, or nobody will load it.
Due ==
    \/ silence > 0 /\ (page # "running" \/ silence + loading > HeartbeatLimit \/ Busy)
    \/ silence = 0 /\ page = "silent" /\ ~Busy

Credit == IF Due THEN 1 ELSE 0

Paid ==
    /\ attempts <= causes
    /\ Active => attempts + Len(failures) + Credit <= causes

\* A dead page has a browser's failure to come; without a page one is being created.
Replaced ==
    Active => /\ page = "dead" => \E i \in DOMAIN failures : failures[i] = "browser"
              /\ page = "none" => pc = "creating"
              /\ page # "fault"

\* What is needed of the types.
Types ==
    /\ silence \in Nat /\ loading \in 0 .. LoadTime
    /\ failures \in Seq(Kinds)
    /\ pc \in {"watching", "reloading", "creating", "faulting", "stopped"}
    /\ page \in Pages
    /\ lost \in BOOLEAN
    /\ attempts \in Nat /\ causes \in Nat

IInv == Types /\ Replaced /\ Paid

LEMMA Limits ==
  /\ HeartbeatLimit \in Nat /\ LoadTime \in Nat /\ LoadTime <= HeartbeatLimit
  /\ 0 \in 0 .. LoadTime /\ LoadTime \in 0 .. LoadTime
BY WatchdogAssumption

LEMMA CreditIsOne == Credit \in 0 .. 1 /\ (Due => Credit = 1) /\ (~Due => Credit = 0)
BY DEF Credit

LEMMA Initially == Init => IInv
<1> SUFFICES ASSUME Init PROVE IInv
  OBVIOUS
<1>a. failures \in Seq(Kinds)
  BY DEF Init
<1>b. page \in Pages
  BY DEF Init, Pages, Documents
<1>c. lost \in BOOLEAN
  BY DEF Init
<1>0. failures \in Seq(Kinds) /\ page \in Pages /\ lost \in BOOLEAN
  BY <1>a, <1>b, <1>c
<1>1. Types
  BY <1>0, Limits DEF Init, Types
<1>2. ~Due /\ Len(failures) = 0
  BY Limits DEF Init, Due, Busy
<1>3. Paid
  BY <1>2, CreditIsOne DEF Init, Paid
<1> QED BY <1>1, <1>3 DEF Init, IInv, Replaced

\* Reports that join the failures.
LEMMA Joined ==
  ASSUME Types, NEW reported \in Seq(Kinds), failures' = failures \o reported
  PROVE  /\ failures' \in Seq(Kinds) /\ Len(failures') = Len(failures) + Len(reported)
         /\ Len(failures) \in Nat /\ Len(reported) \in Nat
         /\ Len(reported) > 0 => failures' # <<>>
         /\ \A i \in DOMAIN failures : i \in DOMAIN failures' /\ failures'[i] = failures[i]
         /\ \A i \in DOMAIN reported : \E j \in DOMAIN failures' : failures'[j] = reported[i]
<1>1. /\ failures \in Seq(Kinds) /\ Len(failures) \in Nat /\ Len(reported) \in Nat
      /\ failures' \in Seq(Kinds) /\ Len(failures') = Len(failures) + Len(reported)
  BY DEF Types
<1>2. /\ DOMAIN failures = 1 .. Len(failures) /\ DOMAIN reported = 1 .. Len(reported)
      /\ DOMAIN failures' = 1 .. Len(failures) + Len(reported)
  BY <1>1
<1>3. \A i \in 1 .. Len(failures) : failures'[i] = failures[i]
  BY <1>1
<1>4. \A i \in 1 .. Len(reported) : failures'[Len(failures) + i] = reported[i]
  BY <1>1
<1>5. \A i \in 1 .. Len(reported) : Len(failures) + i \in 1 .. Len(failures) + Len(reported)
  BY <1>1
<1>6. Len(reported) > 0 => failures' # <<>>
  BY <1>1
<1>7. \A i \in DOMAIN failures : i \in DOMAIN failures' /\ failures'[i] = failures[i]
  BY <1>1, <1>2, <1>3
<1>8. \A i \in DOMAIN reported : \E j \in DOMAIN failures' : failures'[j] = reported[i]
  BY <1>2, <1>4, <1>5
<1> QED BY <1>1, <1>6, <1>7, <1>8

\* Process failures: one cause each, and one more for the page that has yet to beat.
LEMMA GoesKept ==
  ASSUME IInv, NEW what, NEW reported \in Seq(Kinds), Len(reported) > 0,
         NEW p \in Documents, Goes(what, p, reported),
         p = "dead" => \/ page = "dead"
                       \/ \E i \in DOMAIN reported : reported[i] = "browser",
         p = "running" => page = "running"
  PROVE  IInv'
<1> USE DEF IInv
<1>1. /\ UNCHANGED <<silence, pc, loading, lost, attempts>>
      /\ page \in Documents /\ page' = p /\ failures' = failures \o reported
      /\ causes' = causes + Len(reported) + YetToBeat
  BY DEF Goes
<1>2. /\ failures' \in Seq(Kinds) /\ Len(failures') = Len(failures) + Len(reported)
      /\ Len(failures) \in Nat /\ Len(reported) \in Nat
      /\ failures' # <<>>
      /\ \A i \in DOMAIN failures : i \in DOMAIN failures' /\ failures'[i] = failures[i]
      /\ \A i \in DOMAIN reported : \E j \in DOMAIN failures' : failures'[j] = reported[i]
  BY <1>1, Joined
<1>3. YetToBeat \in 0 .. 1 /\ causes' \in Nat /\ causes <= causes'
  BY <1>1, <1>2 DEF YetToBeat, Types
<1>4. Types'
  BY <1>1, <1>2, <1>3 DEF Types, Pages
<1>5. Replaced'
  BY <1>1, <1>2 DEF Replaced, Active, Documents
<1>6. Credit' <= Credit + YetToBeat
  <2>1. Due' => silence > 0
    BY <1>1, <1>2 DEF Due, Busy
  <2>2. silence > 0 /\ page # "running" => Due
    BY DEF Due
  <2>3. silence > 0 /\ page = "running" => YetToBeat = 1
    BY DEF YetToBeat
  <2>4. Credit' \in 0 .. 1 /\ (~Due' => Credit' = 0)
    BY DEF Credit
  <2> QED BY <1>3, <2>1, <2>2, <2>3, <2>4, CreditIsOne
<1>7. Paid'
  <2>1. PICK c \in 0 .. 1 : c = Credit'
    BY DEF Credit
  <2>2. attempts + Len(failures) + Len(reported) + c <= causes' \/ ~Active
    BY <1>1, <1>2, <1>3, <1>6, <2>1, CreditIsOne DEF Paid, Types
  <2>3. attempts' <= causes'
    BY <1>1, <1>3 DEF Paid, Types
  <2>4. Active' = Active
    BY <1>1 DEF Active
  <2>5. Active' => attempts' + Len(failures') + Credit' <= causes'
    BY <1>1, <1>2, <2>1, <2>2, <2>4 DEF Types
  <2> QED BY <2>3, <2>5 DEF Paid
<1> QED BY <1>4, <1>5, <1>7

LEMMA FailureKept ==
  ASSUME IInv, Failure
  PROVE  IInv'
<1>1. CASE PageHangs
  <2> USE DEF IInv
  <2>1. /\ UNCHANGED <<silence, failures, pc, loading, lost, attempts>>
        /\ page = "running" /\ page' = "silent" /\ causes' = causes + 1 + YetToBeat
    BY <1>1 DEF PageHangs
  <2>2. YetToBeat \in 0 .. 1 /\ causes' \in Nat
    BY <2>1 DEF YetToBeat, Types
  <2>3. Types' /\ Replaced'
    BY <2>1, <2>2 DEF Types, Pages, Documents, Replaced, Active
  <2>4. PICK c \in 0 .. 1 : c = Credit'
    BY DEF Credit
  <2>5. Len(failures) \in Nat /\ Active' = Active
    BY <2>1 DEF Types, Active
  <2>6. Paid'
    BY <2>1, <2>2, <2>4, <2>5, CreditIsOne DEF Paid, Types
  <2> QED BY <2>3, <2>6
<1>2. CASE RendererFails
  <2>1. <<"renderer">> \in Seq(Kinds) /\ Len(<<"renderer">>) = 1
    BY DEF Kinds
  <2>2. PICK p \in {"dead", "silent"} : /\ p = IF page = "dead" THEN "dead" ELSE "silent"
    OBVIOUS
  <2>3. Goes("renderers", p, <<"renderer">>)
    BY <1>2, <2>2, Zenon DEF RendererFails
  <2>4. p \in Documents /\ (p = "dead" => page = "dead") /\ p # "running"
    BY <2>2 DEF Documents
  <2>5. PICK reported \in Seq(Kinds) : reported = <<"renderer">> /\ Len(reported) > 0
    <3>1. Len(<<"renderer">>) > 0
      BY <2>1
    <3> QED BY <2>1, <3>1, Zenon
  <2>6. Goes("renderers", p, reported)
    BY <2>3, <2>5
  <2> QED BY <2>4, <2>5, <2>6, GoesKept
<1>3. CASE BrowserFails
  <2>1. PICK reported \in {<<"browser">>, <<"renderer", "browser">>} :
          Goes("browsers", "dead", reported)
    BY <1>3 DEF BrowserFails
  <2>2. /\ reported \in Seq(Kinds) /\ Len(reported) > 0
        /\ \E i \in DOMAIN reported : reported[i] = "browser"
    <3>1. CASE reported = <<"browser">>
      <4>1. 1 \in DOMAIN reported /\ reported[1] = "browser"
        BY <3>1
      <4> QED BY <3>1, <4>1 DEF Kinds
    <3>2. CASE reported = <<"renderer", "browser">>
      <4>1. 2 \in DOMAIN reported /\ reported[2] = "browser"
        BY <3>2
      <4> QED BY <3>2, <4>1 DEF Kinds
    <3> QED BY <3>1, <3>2
  <2> QED BY <2>1, <2>2, GoesKept DEF Documents
<1>4. CASE OtherProcessFails
  <2>1. <<"other">> \in Seq(Kinds) /\ Len(<<"other">>) = 1
    BY DEF Kinds
  <2>2. page \in Documents
    BY <1>4 DEF OtherProcessFails, Goes
  <2>3. PICK p \in Documents : p = page
    BY <2>2
  <2>4. PICK reported \in Seq(Kinds) : reported = <<"other">> /\ Len(reported) > 0
    <3>1. Len(<<"other">>) > 0
      BY <2>1
    <3> QED BY <2>1, <3>1, Zenon
  <2>5. Goes("others", p, reported)
    BY <1>4, <2>3, <2>4 DEF OtherProcessFails
  <2>6. p = "dead" => page = "dead"
    BY <2>3
  <2>7. p = "running" => page = "running"
    BY <2>3
  <2> QED BY <2>4, <2>5, <2>6, <2>7, GoesKept
<1> QED BY <1>1, <1>2, <1>3, <1>4 DEF Failure
-----------------------------------------------------------------------------
(* The watchdog's steps.                                                   *)

\* An attempt is counted, and what comes next depends on the gate.
LEMMA Attempting ==
  ASSUME Types, Paid, NEW next \in {"reloading", "creating"}, Attempt(next), UNCHANGED lost
  PROVE  /\ attempts' = IF lost THEN attempts ELSE attempts + 1
         /\ attempts' \in Nat
         /\ pc' \in {next, "faulting"}
<1>1. ~(attempts > causes)
  BY DEF Types, Paid
<1> QED BY <1>1 DEF Attempt, Types

\* A failure that is handled was paid for.
LEMMA ProcessFailedKept ==
  ASSUME IInv, ProcessFailed
  PROVE  IInv'
<1> USE DEF IInv
<1>1. /\ UNCHANGED <<silence, loading, lost, causes>>
      /\ pc = "watching" /\ failures # <<>> /\ failures' = Tail(failures)
      /\ page' = IF pc' = "creating" THEN "none" ELSE page
  BY DEF ProcessFailed
<1>2. PICK next \in {"reloading", "creating"} :
        /\ next = (IF Recreates(Head(failures)) THEN "creating" ELSE "reloading")
        /\ Attempt(next)
  BY DEF ProcessFailed
<1>3. /\ attempts' = IF lost THEN attempts ELSE attempts + 1
      /\ attempts' \in Nat
      /\ pc' \in {next, "faulting"}
  BY <1>1, <1>2, Attempting
<1>4. /\ failures \in Seq(Kinds) /\ Len(failures) \in Nat \ {0}
      /\ failures' \in Seq(Kinds) /\ Len(failures') = Len(failures) - 1
      /\ DOMAIN failures = 1 .. Len(failures) /\ DOMAIN failures' = 1 .. Len(failures) - 1
      /\ Head(failures) = failures[1]
      /\ \A i \in 1 .. Len(failures) - 1 : failures'[i] = failures[i + 1]
  BY <1>1 DEF Types
<1>5. Types'
  BY <1>1, <1>3, <1>4 DEF Types, Pages, Documents
<1>6. Replaced'
  <2> SUFFICES ASSUME Active' PROVE Replaced'
    BY DEF Replaced
  <2>1. Active /\ pc' = next
    BY <1>1, <1>3 DEF Active
  <2>2. CASE next = "creating"
    BY <1>1, <2>1, <2>2 DEF Replaced
  <2>3. CASE next = "reloading"
    <3>1. page' = page /\ failures[1] # "browser" /\ page # "none" /\ page # "fault"
      BY <1>1, <1>2, <1>4, <2>1, <2>3 DEF Replaced, Recreates
    <3>2. ASSUME NEW i \in DOMAIN failures, failures[i] = "browser"
          PROVE  \E j \in DOMAIN failures' : failures'[j] = "browser"
      <4>1. i - 1 \in 1 .. Len(failures) - 1 /\ failures'[i - 1] = failures[i]
        BY <1>4, <3>1, <3>2
      <4> QED BY <1>4, <3>2, <4>1
    <3> QED BY <2>1, <3>1, <3>2 DEF Replaced
  <2> QED BY <2>2, <2>3
<1>7. Due' => Due
  <2>1. Busy /\ pc' # "watching"
    BY <1>1, <1>3 DEF Busy
  <2> QED BY <1>1, <2>1 DEF Due, Busy
<1>8. Paid'
  <2>1. PICK c \in 0 .. 1 : c = Credit' /\ c <= Credit
    BY <1>7 DEF Credit
  <2>2. Active' => Active
    BY <1>1 DEF Active
  <2>3. lost \/ Active
    BY <1>1 DEF Active
  <2>4. Active => attempts + Len(failures) + c <= causes
    BY <1>4, <2>1, CreditIsOne DEF Paid, Types
  <2>5. attempts' <= causes'
    BY <1>1, <1>3, <1>4, <2>1, <2>3, <2>4 DEF Paid, Types
  <2>6. Active' => attempts' + Len(failures') + Credit' <= causes'
    <3> SUFFICES ASSUME Active' PROVE attempts' + Len(failures') + Credit' <= causes'
      OBVIOUS
    <3>1. attempts' = attempts + 1 /\ attempts + Len(failures) + c <= causes
      BY <1>1, <1>3, <2>2, <2>4 DEF Active
    <3> QED BY <1>1, <1>4, <2>1, <3>1 DEF Types
  <2> QED BY <2>5, <2>6 DEF Paid
<1> QED BY <1>5, <1>6, <1>8

\* A silence that outlasted the limit was paid for, and starts anew.
LEMMA HeartbeatKept ==
  ASSUME IInv, HeartbeatCheck
  PROVE  IInv'
<1> USE DEF IInv
<1>1. UNCHANGED <<failures, page, loading, lost, causes>> /\ pc = "watching"
  BY DEF HeartbeatCheck
<1>2. CASE silence > HeartbeatLimit
  <2>1. silence' = 0 /\ Attempt("reloading")
    BY <1>2 DEF HeartbeatCheck, Touched
  <2>2. /\ attempts' = IF lost THEN attempts ELSE attempts + 1
        /\ attempts' \in Nat
        /\ pc' \in {"reloading", "faulting"}
    BY <1>1, <2>1, Attempting
  <2>3. Types'
    BY <1>1, <2>1, <2>2 DEF Types
  <2>4. Replaced'
    BY <1>1, <2>2 DEF Replaced, Active
  <2>5. Due
    <3>1. silence + loading > HeartbeatLimit /\ silence > 0
      BY <1>2, Limits DEF Types
    <3> QED BY <3>1 DEF Due
  <2>6. Credit' = 0
    BY <2>1, <2>2 DEF Credit, Due, Busy
  <2>7. Len(failures) \in Nat /\ (lost \/ Active) /\ (Active' => Active)
    BY <1>1 DEF Types, Active
  <2>8. Active => attempts + Len(failures) + 1 <= causes
    BY <2>5, CreditIsOne DEF Paid
  <2>9. attempts' <= causes'
    BY <1>1, <2>2, <2>7, <2>8 DEF Paid, Types
  <2>10. Active' => attempts' + Len(failures') + Credit' <= causes'
    <3> SUFFICES ASSUME Active' PROVE attempts' + Len(failures') + Credit' <= causes'
      OBVIOUS
    <3>1. attempts' = attempts + 1
      BY <1>1, <2>2 DEF Active
    <3> QED BY <1>1, <2>6, <2>7, <2>8, <3>1 DEF Types
  <2> QED BY <2>3, <2>4, <2>9, <2>10 DEF Paid
<1>3. CASE ~(silence > HeartbeatLimit)
  <2>1. UNCHANGED <<silence, attempts, pc>>
    BY <1>3 DEF HeartbeatCheck
  <2> QED BY <1>1, <2>1 DEF Types, Replaced, Active, Paid, Credit, Due, Busy
<1> QED BY <1>2, <1>3

\* A page that is loaded again needs a credit only if it had one.
LEMMA LoadsKept ==
  ASSUME IInv, Loads, pc \in {"reloading", "creating"}, pc' = "watching",
         UNCHANGED <<silence, failures, lost, attempts, causes>>
  PROVE  IInv'
<1> USE DEF IInv
<1>1. page' = "running" /\ loading' = LoadTime
  BY DEF Loads
<1>2. Types' /\ Replaced'
  BY <1>1, Limits DEF Types, Pages, Documents, Replaced
<1>3. Due' => Due
  BY <1>1, Limits DEF Due, Busy, Types
<1>4. PICK c \in 0 .. 1 : c = Credit' /\ c <= Credit
  BY <1>3 DEF Credit
<1>5. Len(failures) \in Nat /\ (Active' => Active)
  BY DEF Types, Active
<1>6. Paid'
  BY <1>4, <1>5, CreditIsOne DEF Paid, Types
<1> QED BY <1>2, <1>6

LEMMA ReloadKept ==
  ASSUME IInv, ReloadMain
  PROVE  IInv'
<1> USE DEF IInv
<1>1. /\ UNCHANGED <<silence, failures, lost, attempts>>
      /\ pc = "reloading" /\ pc' = "watching"
  BY DEF ReloadMain
<1>2. Len(failures) \in Nat /\ (Active' => Active)
  BY <1>1 DEF Types, Active
<1>3. CASE page \in {"running", "silent"} /\ Loads /\ UNCHANGED <<causes, used>>
  BY <1>1, <1>3, LoadsKept
<1>4. CASE /\ page \in {"running", "silent"} /\ causes' = causes + 1
           /\ UNCHANGED <<page, loading>>
  <2>1. Types' /\ Replaced'
    BY <1>1, <1>4 DEF Types, Replaced, Active
  <2>2. PICK c \in 0 .. 1 : c = Credit'
    BY DEF Credit
  <2>3. Paid'
    BY <1>1, <1>2, <1>4, <2>2, CreditIsOne DEF Paid, Types
  <2> QED BY <2>1, <2>3
<1>5. CASE page \in {"dead", "none"} /\ UNCHANGED <<page, loading, causes, used>>
  <2>1. Types'
    BY <1>1, <1>5 DEF Types
  <2>2. Replaced'
    BY <1>1, <1>5 DEF Replaced, Active
  <2>3. Due' => Due
    BY <1>1, <1>5 DEF Due, Busy
  <2>4. PICK c \in 0 .. 1 : c = Credit' /\ c <= Credit
    BY <2>3 DEF Credit
  <2>5. Paid'
    BY <1>1, <1>2, <1>5, <2>4, CreditIsOne DEF Paid, Types
  <2> QED BY <2>1, <2>2, <2>5
<1> QED BY <1>3, <1>4, <1>5 DEF ReloadMain

LEMMA CreateKept ==
  ASSUME IInv, CreateMain
  PROVE  IInv'
<1>1. /\ UNCHANGED <<silence, failures, attempts, causes>>
      /\ pc = "creating" /\ pc' = "watching"
  BY DEF CreateMain
<1>2. CASE Loads /\ UNCHANGED <<lost, used>>
  BY <1>1, <1>2, LoadsKept
<1>3. CASE lost' = TRUE /\ UNCHANGED <<page, loading>>
  BY <1>1, <1>3 DEF IInv, Types, Replaced, Active, Paid
<1> QED BY <1>2, <1>3 DEF CreateMain

LEMMA FaultKept ==
  ASSUME IInv, EnterFaultState
  PROVE  IInv'
<1>1. /\ UNCHANGED <<silence, failures, loading, lost, attempts, causes>>
      /\ pc' = "stopped" /\ page' \in {"fault", "none"}
  BY DEF EnterFaultState, history
<1> QED BY <1>1 DEF IInv, Types, Pages, Replaced, Active, Paid

\* Time passes only over a silence that was paid for, or that a loading page will end in time.
LEMMA TimeKept ==
  ASSUME IInv, TimePasses
  PROVE  IInv'
<1> USE DEF IInv
<1>1. /\ UNCHANGED <<failures, pc, page, lost, attempts, causes>>
      /\ pc \in {"watching", "stopped"} /\ (pc = "watching" => failures = <<>>)
  BY DEF TimePasses
<1>2. CASE page = "running" /\ silence' = 0 /\ loading' = 0
  <2>1. Types' /\ Replaced'
    BY <1>1, <1>2, Limits DEF Types, Replaced, Active
  <2>2. Credit' = 0
    BY <1>1, <1>2 DEF Credit, Due
  <2>3. Len(failures) \in Nat /\ Active' = Active
    BY <1>1 DEF Types, Active
  <2>4. Paid'
    BY <1>1, <2>2, <2>3, CreditIsOne DEF Paid, Types
  <2> QED BY <2>1, <2>4
<1>3. CASE /\ page # "running" \/ loading > 0
           /\ silence' = IF silence > HeartbeatLimit THEN silence ELSE silence + 1
           /\ loading' = IF loading > 0 THEN loading - 1 ELSE 0
  <2>1. silence \in Nat /\ loading \in 0 .. LoadTime /\ silence' \in Nat /\ silence' > 0
    BY <1>3, Limits DEF Types
  <2>2. loading' \in 0 .. LoadTime
    BY <1>3, <2>1, Limits
  <2>3. Types' /\ Replaced'
    BY <1>1, <2>1, <2>2 DEF Types, Replaced, Active
  <2>4. Active /\ Due' => Due
    <3> SUFFICES ASSUME Active, Due' PROVE Due
      OBVIOUS
    <3>1. pc = "watching" /\ failures = <<>> /\ ~Busy
      BY <1>1 DEF Active, Busy
    <3>2. CASE page = "running"
      <4>1. silence' + loading' > HeartbeatLimit
        BY <1>1, <2>1, <3>1, <3>2 DEF Due, Busy
      <4>2. silence > 0 /\ silence + loading > HeartbeatLimit
        BY <1>3, <2>1, <3>2, <4>1, Limits
      <4> QED BY <4>2 DEF Due
    <3>3. CASE page # "running"
      <4>1. page = "silent"
        <5>1. DOMAIN failures = {}
          BY <3>1
        <5> QED BY <3>1, <3>3, <5>1 DEF Replaced, Types, Pages, Documents
      <4> QED BY <2>1, <3>1, <4>1 DEF Due
    <3> QED BY <3>2, <3>3
  <2>5. PICK c \in 0 .. 1 : c = Credit' /\ (Active => c <= Credit)
    BY <2>4 DEF Credit
  <2>6. Len(failures) \in Nat /\ Active' = Active
    BY <1>1 DEF Types, Active
  <2>7. Paid'
    BY <1>1, <2>5, <2>6, CreditIsOne DEF Paid, Types
  <2> QED BY <2>3, <2>7
<1> QED BY <1>2, <1>3 DEF TimePasses

\* The inductive invariant.
THEOREM Invariant == Spec => []IInv
<1>1. IInv /\ [Next]_vars => IInv'
  <2> SUFFICES ASSUME IInv, [Next]_vars PROVE IInv'
    OBVIOUS
  <2>1. CASE UNCHANGED vars
    BY <2>1 DEF vars, history, IInv, Types, Replaced, Active, Paid, Credit, Due, Busy
  <2>2. CASE Next
    BY <2>2, FailureKept, ProcessFailedKept, HeartbeatKept, ReloadKept, CreateKept, FaultKept,
       TimeKept DEF Next, WatchdogStep
  <2> QED BY <2>1, <2>2
<1> QED BY <1>1, Initially, PTL DEF Spec

\* One failure does not use up the cap: no more recoveries are attempted than things went
\* wrong, for any times and limits with which a loaded page may beat in time (watchdog.rs,
\* the loop of spawn, and Heartbeat).
THEOREM Caused == Spec => []AttemptsHaveCauses
<1>1. IInv => AttemptsHaveCauses
  BY DEF IInv, Paid, AttemptsHaveCauses
<1> QED BY <1>1, Invariant, PTL
-----------------------------------------------------------------------------
(* The cap.                                                                *)

\* The ages of attempts, in the order in which they were made.
Ages(s) == s \in Seq(Nat) /\ \A i, j \in 1 .. Len(s) : i < j => s[j] <= s[i]

\* The first n of them, and no others, are at least the span.
Splits(s, span, n) == n \in 0 .. Len(s) /\ \A i \in 1 .. Len(s) : i <= n <=> s[i] >= span

\* While the watchdog recovers, the gate retains the recoveries that were carried out.
CapInv ==
    /\ Ages(gate) /\ Ages(recent) /\ StormCap
    /\ \A i \in 1 .. Len(recent) : recent[i] < Window
    /\ pc \notin {"faulting", "stopped"} => recent = Retained(gate)

\* A set of numbers has a least one.
LEMMA Least ==
  ASSUME NEW T \in SUBSET Nat, T # {}
  PROVE  \E m \in T : \A n \in T : m <= n
<1>1. IsWellFoundedOn(OpToRel(<, Nat), Nat)
  BY NatLessThanWellFounded
<1>2. PICK m \in T : \A n \in T : ~ (<<n, m>> \in OpToRel(<, Nat))
  BY <1>1, WFMin
<1>3. \A n \in T : ~(n < m)
  BY <1>2 DEF OpToRel
<1>4. m \in Nat /\ \A n \in T : n \in Nat
  BY <1>2
<1>5. \A n \in T : m <= n
  BY <1>3, <1>4
<1> QED BY <1>2, <1>5

LEMMA SplitExists ==
  ASSUME NEW s, Ages(s), NEW span \in Nat
  PROVE  \E n \in 0 .. Len(s) : Splits(s, span, n)
<1>1. s \in Seq(Nat) /\ Len(s) \in Nat /\ \A i \in 1 .. Len(s) : s[i] \in Nat
  BY DEF Ages
<1> DEFINE T == {m \in 0 .. Len(s) : \A i \in 1 .. Len(s) : m < i => s[i] < span}
<1>2. T \in SUBSET Nat /\ Len(s) \in T
  BY <1>1
<1>3. PICK n \in T : \A m \in T : n <= m
  BY <1>2, Least
<1>4. ASSUME NEW i \in 1 .. Len(s), i <= n PROVE s[i] >= span
  <2>0. n \in 1 .. Len(s) /\ n - 1 \in 0 .. Len(s) /\ ~(n <= n - 1)
    BY <1>1, <1>3, <1>4
  <2>1. n \in 1 .. Len(s) /\ n - 1 \in 0 .. Len(s) /\ n - 1 \notin T
    <3> HIDE DEF T
    <3> QED BY <1>3, <2>0
  <2>2. PICK j \in 1 .. Len(s) : n - 1 < j /\ ~(s[j] < span)
    BY <2>1
  <2>3. j = n
    BY <1>1, <1>3, <2>1, <2>2
  <2>4. s[n] >= span /\ (i < n => s[n] <= s[i])
    BY <1>1, <2>1, <2>2, <2>3 DEF Ages
  <2> QED BY <1>1, <1>4, <2>1, <2>4
<1>5. ASSUME NEW i \in 1 .. Len(s), ~(i <= n) PROVE ~(s[i] >= span)
  BY <1>1, <1>3, <1>5
<1> QED BY <1>3, <1>4, <1>5 DEF Splits

LEMMA SplitIsUnique ==
  ASSUME NEW s, Ages(s), NEW span \in Nat, NEW m, NEW n, Splits(s, span, m), Splits(s, span, n)
  PROVE  m = n
<1>1. Len(s) \in Nat /\ m \in 0 .. Len(s) /\ n \in 0 .. Len(s)
  BY DEF Ages, Splits
<1>2. ~(m < n)
  <2> SUFFICES ASSUME m < n PROVE FALSE
    OBVIOUS
  <2> QED BY <1>1, n \in 1 .. Len(s) DEF Splits
<1>3. ~(n < m)
  <2> SUFFICES ASSUME n < m PROVE FALSE
    OBVIOUS
  <2> QED BY <1>1, m \in 1 .. Len(s) DEF Splits
<1> QED BY <1>1, <1>2, <1>3

\* What is younger than a span is the rest after the split.
LEMMA YoungerIs ==
  ASSUME NEW s, Ages(s), NEW span \in Nat, NEW n, Splits(s, span, n)
  PROVE  Younger(s, span) = SubSeq(s, n + 1, Len(s))
<1>1. s \in Seq(Nat) /\ DOMAIN s = 1 .. Len(s)
  BY DEF Ages
<1> DEFINE d == CHOOSE k \in 0 .. Len(s) : \A i \in DOMAIN s : i <= k <=> s[i] >= span
<1>2. d \in 0 .. Len(s) /\ \A i \in DOMAIN s : i <= d <=> s[i] >= span
  BY <1>1 DEF Splits
<1>3. Splits(s, span, d)
  BY <1>1, <1>2 DEF Splits
<1>4. d = n
  <2> HIDE DEF d
  <2> QED BY <1>3, SplitIsUnique
<1> QED BY <1>4 DEF Younger

LEMMA RestOf ==
  ASSUME NEW s, Ages(s), NEW n \in 0 .. Len(s)
  PROVE  LET r == SubSeq(s, n + 1, Len(s)) IN
         /\ Len(r) = Len(s) - n /\ \A i \in 1 .. Len(s) - n : r[i] = s[i + n]
         /\ Ages(r)
<1> DEFINE r == SubSeq(s, n + 1, Len(s))
<1>1. s \in Seq(Nat) /\ Len(s) \in Nat
  BY DEF Ages
<1>2. r \in Seq(Nat) /\ Len(r) = Len(s) - n /\ \A i \in 1 .. Len(s) - n : r[i] = s[i + n]
  BY <1>1
<1>3. \A i \in 1 .. Len(s) - n : i + n \in 1 .. Len(s)
  BY <1>1
<1>4. \A i, j \in 1 .. Len(r) : i < j => r[j] <= r[i]
  <2> SUFFICES ASSUME NEW i \in 1 .. Len(r), NEW j \in 1 .. Len(r), i < j PROVE r[j] <= r[i]
    OBVIOUS
  <2>1. i + n \in 1 .. Len(s) /\ j + n \in 1 .. Len(s) /\ i + n < j + n
    BY <1>1, <1>2, <1>3
  <2>2. s[j + n] <= s[i + n]
    BY <2>1 DEF Ages
  <2> QED BY <1>2, <2>2
<1> QED BY <1>2, <1>4 DEF Ages

\* What the gate retains of a list of ages.
LEMMA RetainedIs ==
  ASSUME NEW s, Ages(s), NEW n, Splits(s, Window, n)
  PROVE  /\ Retained(s) = SubSeq(s, n + 1, Len(s))
         /\ Ages(Retained(s)) /\ Retained(s) \in Seq(Nat) /\ Len(Retained(s)) = Len(s) - n
         /\ \A i \in 1 .. Len(s) - n : Retained(s)[i] = s[i + n] /\ Retained(s)[i] < Window
<1>1. Window \in Nat /\ Len(s) \in Nat /\ n \in 0 .. Len(s)
  BY WatchdogAssumption DEF Ages, Splits
<1>2. Retained(s) = SubSeq(s, n + 1, Len(s))
  BY <1>1, YoungerIs DEF Retained
<1>3. /\ Ages(Retained(s)) /\ Len(Retained(s)) = Len(s) - n
      /\ \A i \in 1 .. Len(s) - n : Retained(s)[i] = s[i + n]
  BY <1>1, <1>2, RestOf
<1>4. ASSUME NEW i \in 1 .. Len(s) - n PROVE Retained(s)[i] < Window
  <2>1. i + n \in 1 .. Len(s) /\ ~(i + n <= n) /\ s[i + n] \in Nat
    BY <1>1 DEF Ages
  <2>2. ~(s[i + n] >= Window)
    BY <2>1 DEF Splits
  <2> QED BY <1>1, <1>3, <2>1, <2>2
<1>5. Retained(s) \in Seq(Nat)
  BY <1>3 DEF Ages
<1> QED BY <1>2, <1>3, <1>4, <1>5

\* It never gets longer, and what is in the window is retained, all of it.
LEMMA RetainedBounds ==
  ASSUME NEW s, Ages(s)
  PROVE  /\ Ages(Retained(s)) /\ Len(Retained(s)) <= Len(s)
         /\ \A i \in 1 .. Len(Retained(s)) : Retained(s)[i] < Window
         /\ (\A i \in 1 .. Len(s) : s[i] < Window) => Retained(s) = s
<1>1. Window \in Nat /\ s \in Seq(Nat) /\ Len(s) \in Nat /\ \A i \in 1 .. Len(s) : s[i] \in Nat
  BY WatchdogAssumption DEF Ages
<1>2. PICK n \in 0 .. Len(s) : Splits(s, Window, n)
  BY <1>1, SplitExists
<1>3. /\ Ages(Retained(s)) /\ Len(Retained(s)) <= Len(s)
      /\ \A i \in 1 .. Len(Retained(s)) : Retained(s)[i] < Window
  BY <1>1, <1>2, RetainedIs
<1>4. ASSUME \A i \in 1 .. Len(s) : s[i] < Window PROVE Retained(s) = s
  <2>1. Splits(s, Window, 0)
    BY <1>1, <1>4 DEF Splits
  <2>2. Retained(s) = SubSeq(s, 1, Len(s))
    BY <2>1, RetainedIs
  <2> QED BY <1>1, <2>2
<1> QED BY <1>3, <1>4

\* An attempt that is made now joins those that are retained.
LEMMA RetainedAppend ==
  ASSUME NEW s, Ages(s)
  PROVE  Ages(Append(s, 0)) /\ Retained(Append(s, 0)) = Append(Retained(s), 0)
<1> DEFINE t == Append(s, 0)
<1>1. /\ Window \in Nat /\ Window > 0 /\ s \in Seq(Nat) /\ Len(s) \in Nat
      /\ \A i \in 1 .. Len(s) : s[i] \in Nat
  BY WatchdogAssumption DEF Ages
<1>2. /\ t \in Seq(Nat) /\ Len(t) = Len(s) + 1 /\ t[Len(s) + 1] = 0
      /\ \A i \in 1 .. Len(s) : t[i] = s[i]
  BY <1>1
<1>3. \A i \in 1 .. Len(t) : i \in 1 .. Len(s) \/ i = Len(s) + 1
  BY <1>1, <1>2
<1>4. Ages(t)
  <2> SUFFICES ASSUME NEW i \in 1 .. Len(t), NEW j \in 1 .. Len(t), i < j PROVE t[j] <= t[i]
    BY <1>2 DEF Ages
  <2>1. i \in 1 .. Len(s)
    BY <1>1, <1>2
  <2>2. CASE j \in 1 .. Len(s)
    BY <1>2, <2>1, <2>2 DEF Ages
  <2>3. CASE j = Len(s) + 1
    BY <1>1, <1>2, <2>1, <2>3
  <2> QED BY <1>3, <2>2, <2>3
<1>5. PICK n \in 0 .. Len(s) : Splits(s, Window, n)
  BY <1>1, SplitExists
<1>6. Splits(t, Window, n)
  <2>1. n \in 0 .. Len(t)
    BY <1>1, <1>2
  <2>2. ASSUME NEW i \in 1 .. Len(t) PROVE i <= n <=> t[i] >= Window
    <3>1. CASE i \in 1 .. Len(s)
      BY <1>2, <1>5, <3>1 DEF Splits
    <3>2. CASE i = Len(s) + 1
      BY <1>1, <1>2, <3>2
    <3> QED BY <1>3, <3>1, <3>2
  <2> QED BY <2>1, <2>2 DEF Splits
<1>7. /\ Retained(s) \in Seq(Nat) /\ Len(Retained(s)) = Len(s) - n
      /\ \A i \in 1 .. Len(s) - n : Retained(s)[i] = s[i + n]
  BY <1>5, RetainedIs
<1>8. /\ Retained(t) \in Seq(Nat) /\ Len(Retained(t)) = Len(s) + 1 - n
      /\ \A i \in 1 .. Len(s) + 1 - n : Retained(t)[i] = t[i + n]
  <2> HIDE DEF t
  <2>1. Len(t) - n = Len(s) + 1 - n
    BY <1>2
  <2>2. /\ Retained(t) \in Seq(Nat) /\ Len(Retained(t)) = Len(t) - n
        /\ \A i \in 1 .. Len(t) - n : Retained(t)[i] = t[i + n]
    BY <1>4, <1>6, RetainedIs
  <2> QED BY <2>1, <2>2
<1> DEFINE u == Append(Retained(s), 0)
<1>9. /\ u \in Seq(Nat) /\ Len(u) = Len(s) + 1 - n /\ u[Len(s) + 1 - n] = 0
      /\ \A i \in 1 .. Len(s) - n : u[i] = s[i + n]
  BY <1>1, <1>7
<1>10. ASSUME NEW i \in 1 .. Len(s) + 1 - n PROVE Retained(t)[i] = u[i]
  <2>1. CASE i \in 1 .. Len(s) - n
    <3>1. i + n \in 1 .. Len(s)
      BY <1>1, <2>1
    <3> QED BY <1>2, <1>8, <1>9, <2>1, <3>1
  <2>2. CASE i = Len(s) + 1 - n
    <3>1. i + n = Len(s) + 1
      BY <1>1, <2>2
    <3> QED BY <1>2, <1>8, <1>9, <2>2, <3>1
  <2>3. i \in 1 .. Len(s) - n \/ i = Len(s) + 1 - n
    BY <1>1, n \in 0 .. Len(s)
  <2> QED BY <2>1, <2>2, <2>3
<1>11. Retained(t) = u
  <2> HIDE DEF t, u
  <2> QED BY <1>1, <1>8, <1>9, <1>10, SeqEqual
<1> QED BY <1>4, <1>11

LEMMA OlderAges ==
  ASSUME NEW s, Ages(s)
  PROVE  /\ Ages(Older(s)) /\ Len(Older(s)) = Len(s)
         /\ \A i \in 1 .. Len(s) : Older(s)[i] = IF s[i] < Window THEN s[i] + 1 ELSE Window
<1>1. /\ Window \in Nat /\ s \in Seq(Nat) /\ Len(s) \in Nat /\ DOMAIN s = 1 .. Len(s)
      /\ \A i \in 1 .. Len(s) : s[i] \in Nat
  BY WatchdogAssumption DEF Ages
<1>2. /\ Older(s) \in Seq(Nat) /\ Len(Older(s)) = Len(s)
      /\ \A i \in 1 .. Len(s) : Older(s)[i] = IF s[i] < Window THEN s[i] + 1 ELSE Window
  BY <1>1 DEF Older
<1>3. ASSUME NEW i \in 1 .. Len(s), NEW j \in 1 .. Len(s), i < j
      PROVE  Older(s)[j] <= Older(s)[i]
  <2>1. s[j] <= s[i]
    BY <1>3 DEF Ages
  <2> QED BY <1>1, <1>2, <2>1
<1> QED BY <1>2, <1>3 DEF Ages

\* What is dropped now would be dropped later.
LEMMA RetainedOlder ==
  ASSUME NEW s, Ages(s)
  PROVE  Retained(Older(Retained(s))) = Retained(Older(s))
<1> DEFINE r == Retained(s)
           o == Older(s)
           q == Older(r)
<1>1. /\ Window \in Nat /\ Window > 0 /\ Len(s) \in Nat /\ \A i \in 1 .. Len(s) : s[i] \in Nat
  BY WatchdogAssumption DEF Ages
<1>2. PICK n \in 0 .. Len(s) : Splits(s, Window, n)
  BY <1>1, SplitExists
<1>3. /\ Ages(r) /\ Len(r) = Len(s) - n
      /\ \A i \in 1 .. Len(s) - n : r[i] = s[i + n]
  BY <1>2, RetainedIs
<1>4. /\ Ages(o) /\ Len(o) = Len(s)
      /\ \A i \in 1 .. Len(s) : o[i] = IF s[i] < Window THEN s[i] + 1 ELSE Window
  BY OlderAges
<1>5. /\ Ages(q) /\ Len(q) = Len(s) - n
      /\ \A i \in 1 .. Len(s) - n : q[i] = IF r[i] < Window THEN r[i] + 1 ELSE Window
  <2> HIDE DEF r
  <2> QED BY <1>3, OlderAges
<1> HIDE DEF r, o, q
<1>6. \A i \in 1 .. Len(s) - n : i + n \in 1 .. Len(s) /\ q[i] = o[i + n]
  <2> TAKE i \in 1 .. Len(s) - n
  <2>1. i + n \in 1 .. Len(s)
    BY <1>1
  <2> QED BY <1>3, <1>4, <1>5, <2>1
<1>7. PICK m \in 0 .. Len(s) : Splits(o, Window, m)
  BY <1>1, <1>4, SplitExists
<1>8. n <= m
  <2> SUFFICES ASSUME m < n PROVE FALSE
    BY <1>1
  <2>1. n \in 1 .. Len(s) /\ ~(n <= m)
    BY <1>1
  <2>2. s[n] >= Window
    BY <1>1, <2>1, <1>2 DEF Splits
  <2>3. o[n] = Window
    BY <1>1, <1>4, <2>1, <2>2
  <2> QED BY <1>1, <1>4, <1>7, <2>1, <2>3 DEF Splits
<1>9. Splits(q, Window, m - n)
  <2>1. m - n \in 0 .. Len(q)
    BY <1>1, <1>5, <1>8
  <2>2. ASSUME NEW i \in 1 .. Len(q) PROVE i <= m - n <=> q[i] >= Window
    <3>1. i \in 1 .. Len(s) - n /\ i + n \in 1 .. Len(o) /\ q[i] = o[i + n]
      BY <1>4, <1>5, <1>6
    <3>2. i + n <= m <=> o[i + n] >= Window
      BY <1>7, <3>1 DEF Splits
    <3> QED BY <1>1, <3>1, <3>2
  <2> QED BY <2>1, <2>2 DEF Splits
<1>10. /\ Retained(q) \in Seq(Nat) /\ Len(Retained(q)) = Len(q) - (m - n)
       /\ \A i \in 1 .. Len(q) - (m - n) : Retained(q)[i] = q[i + (m - n)]
  <2>1. PICK d : d = m - n
    OBVIOUS
  <2>2. Ages(q) /\ Splits(q, Window, d)
    BY <1>5, <1>9, <2>1
  <2>3. /\ Retained(q) \in Seq(Nat) /\ Len(Retained(q)) = Len(q) - d
        /\ \A i \in 1 .. Len(q) - d : Retained(q)[i] = q[i + d]
    BY <2>2, RetainedIs
  <2> QED BY <2>1, <2>3
<1>11. /\ Retained(o) \in Seq(Nat) /\ Len(Retained(o)) = Len(s) - m
       /\ \A i \in 1 .. Len(s) - m : Retained(o)[i] = o[i + m]
  <2>1. Ages(o) /\ Splits(o, Window, m) /\ Len(o) = Len(s)
    BY <1>4, <1>7
  <2>2. /\ Retained(o) \in Seq(Nat) /\ Len(Retained(o)) = Len(o) - m
        /\ \A i \in 1 .. Len(o) - m : Retained(o)[i] = o[i + m]
    BY <2>1, RetainedIs
  <2> QED BY <2>1, <2>2
<1>12. Len(q) - (m - n) = Len(s) - m
  BY <1>1, <1>5
<1>13. ASSUME NEW i \in 1 .. Len(s) - m PROVE Retained(q)[i] = Retained(o)[i]
  <2>1. i + (m - n) \in 1 .. Len(s) - n /\ i + (m - n) + n = i + m
    BY <1>1, <1>8
  <2> QED BY <1>6, <1>10, <1>11, <1>12, <2>1
<1>14. Retained(q) = Retained(o)
  BY <1>10, <1>11, <1>12, <1>13, SeqEqual
<1> QED BY <1>14 DEF q, o, r

LEMMA InitCap == Init => CapInv
<1> SUFFICES ASSUME Init PROVE CapInv
  OBVIOUS
<1>1. gate = <<>> /\ recent = <<>> /\ Limit \in Nat
  BY WatchdogAssumption DEF Init
<1>2. Ages(<<>>)
  BY DEF Ages
<1>3. Retained(<<>>) = <<>>
  BY <1>2, RetainedBounds
<1> QED BY <1>1, <1>2, <1>3 DEF CapInv, StormCap

\* An attempt: if the gate admits it, all that it retains was carried out.
LEMMA AttemptCap ==
  ASSUME CapInv, pc = "watching", NEW next, Attempt(next)
  PROVE  CapInv'
<1>1. Ages(gate) /\ Ages(recent) /\ Len(recent) <= Limit /\ recent = Retained(gate)
  BY DEF CapInv, StormCap
<1>2. Ages(Append(gate, 0)) /\ gate' = Append(recent, 0)
  BY <1>1, RetainedAppend DEF Attempt
<1>3. /\ Ages(gate') /\ \A i \in 1 .. Len(gate') : gate'[i] < Window
  BY <1>2, RetainedBounds DEF Attempt
<1>4. Retained(gate') = gate'
  BY <1>3, RetainedBounds
<1>5. CASE Allowed(Len(gate'))
  <2>1. recent' = gate' /\ Len(gate') <= Limit
    BY <1>2, <1>5 DEF Attempt, Allowed
  <2> QED BY <1>3, <1>4, <2>1 DEF CapInv, StormCap
<1>6. CASE ~Allowed(Len(gate'))
  <2>1. recent' = recent /\ pc' = "faulting"
    BY <1>6 DEF Attempt
  <2> QED BY <1>1, <1>3, <2>1 DEF CapInv, StormCap
<1> QED BY <1>5, <1>6

\* The gate drops what is too old only at the next attempt, the history at once.
LEMMA TimeCap ==
  ASSUME CapInv, TimePasses
  PROVE  CapInv'
<1>1. /\ Ages(gate) /\ Ages(recent) /\ Len(recent) <= Limit
      /\ pc \notin {"faulting", "stopped"} => recent = Retained(gate)
  BY DEF CapInv, StormCap
<1>2. gate' = Older(gate) /\ recent' = Retained(Older(recent)) /\ pc' = pc
  BY DEF TimePasses, Retained
<1>3. /\ Ages(gate')
      /\ Ages(Older(recent)) /\ Len(Older(recent)) = Len(recent)
  BY <1>1, <1>2, OlderAges
<1>4. /\ Ages(recent') /\ Len(recent') <= Len(recent)
      /\ \A i \in 1 .. Len(recent') : recent'[i] < Window
  BY <1>2, <1>3, RetainedBounds
<1>5. Len(recent') <= Limit
  <2>1. Len(recent) \in Nat /\ Len(recent') \in Nat /\ Limit \in Nat
    BY <1>1, <1>4, WatchdogAssumption DEF Ages
  <2> QED BY <1>1, <1>4, <2>1
<1>6. pc \notin {"faulting", "stopped"} => recent' = Retained(gate')
  BY <1>1, <1>2, RetainedOlder
<1> QED BY <1>2, <1>3, <1>4, <1>5, <1>6 DEF CapInv, StormCap

\* The other steps make no attempt, and none gives the watchdog up but the end of it.
LEMMA OthersCap ==
  ASSUME CapInv, UNCHANGED <<gate, recent>>,
         pc' \notin {"faulting", "stopped"} => pc \notin {"faulting", "stopped"}
  PROVE  CapInv'
BY DEF CapInv, StormCap

LEMMA CapInvariant == Spec => []CapInv
<1>1. CapInv /\ [Next]_vars => CapInv'
  <2> SUFFICES ASSUME CapInv, [Next]_vars PROVE CapInv'
    OBVIOUS
  <2>1. CASE UNCHANGED vars
    BY <2>1, OthersCap DEF vars, history
  <2>2. CASE Failure
    <3>1. UNCHANGED <<gate, recent, pc>>
      BY <2>2 DEF Failure, PageHangs, RendererFails, BrowserFails, OtherProcessFails, Goes
    <3> QED BY <3>1, OthersCap
  <2>3. CASE ProcessFailed
    BY <2>3, AttemptCap DEF ProcessFailed
  <2>4. CASE HeartbeatCheck
    BY <2>4, AttemptCap, OthersCap DEF HeartbeatCheck
  <2>5. CASE ReloadMain \/ CreateMain
    BY <2>5, OthersCap DEF ReloadMain, CreateMain
  <2>6. CASE EnterFaultState
    BY <2>6, OthersCap DEF EnterFaultState, history
  <2>7. CASE TimePasses
    BY <2>7, TimeCap
  <2> QED BY <2>1, <2>2, <2>3, <2>4, <2>5, <2>6, <2>7 DEF Next, WatchdogStep
<1> QED BY <1>1, InitCap, PTL DEF Spec

\* In no span of the window's length are there more recoveries than the limit, for every
\* window and limit, whatever fails and however often (StormGate::admit): the gate retains
\* all the recoveries of the span, and the attempt that would exceed the limit is the last.
THEOREM CapHolds == Spec => []StormCap
<1>1. CapInv => StormCap
  BY DEF CapInv
<1> QED BY <1>1, CapInvariant, PTL
-----------------------------------------------------------------------------
\* What the other two invariants leave out.
Rest ==
    /\ silence <= HeartbeatLimit + 1
    /\ check \in BOOLEAN /\ exited \in BOOLEAN
    /\ used \in [Limited -> Nat]
    /\ Len(gate) <= Limit + 1 /\ \A i \in 1 .. Len(gate) : gate[i] <= Window

LEMMA UsedType ==
  ASSUME Rest, NEW what \in Limited, Use(what)
  PROVE  used' \in [Limited -> Nat]
BY DEF Rest, Use

\* The gate keeps the attempt that is refused, and nothing after it.
LEMMA AttemptGate ==
  ASSUME CapInv, pc = "watching", NEW next, Attempt(next)
  PROVE  /\ Len(gate') <= Limit + 1 /\ Len(gate') = Len(recent) + 1
         /\ \A i \in 1 .. Len(gate') : gate'[i] <= Window
<1>1. Ages(gate) /\ Ages(recent) /\ Len(recent) <= Limit /\ recent = Retained(gate)
  BY DEF CapInv, StormCap
<1>2. Ages(Append(gate, 0)) /\ gate' = Append(recent, 0)
  BY <1>1, RetainedAppend DEF Attempt
<1>3. Len(recent) \in Nat /\ Limit \in Nat /\ Len(gate') = Len(recent) + 1
  BY <1>1, <1>2, WatchdogAssumption DEF Ages
<1>4. Ages(gate') /\ \A i \in 1 .. Len(gate') : gate'[i] < Window
  BY <1>2, RetainedBounds DEF Attempt
<1>5. Window \in Nat /\ \A i \in 1 .. Len(gate') : gate'[i] \in Nat
  BY <1>4, WatchdogAssumption DEF Ages
<1>6. \A i \in 1 .. Len(gate') : gate'[i] <= Window
  BY <1>4, <1>5
<1> QED BY <1>1, <1>3, <1>6

LEMMA RestStep == IInv /\ CapInv /\ Rest /\ [Next]_vars => Rest'
<1> SUFFICES ASSUME IInv, CapInv, Rest, [Next]_vars PROVE Rest'
  OBVIOUS
<1>0. {"hangs", "renderers", "browsers", "others", "reloads", "windows"} = Limited
  BY DEF Limited
<1>1. CASE UNCHANGED vars
  BY <1>1 DEF vars, history, Rest
<1>2. CASE Failure
  <2>1. UNCHANGED <<gate, silence, check, exited>>
    BY <1>2 DEF Failure, PageHangs, RendererFails, BrowserFails, OtherProcessFails, Goes
  <2>2. used' \in [Limited -> Nat]
    BY <1>0, <1>2, UsedType
    DEF Failure, PageHangs, RendererFails, BrowserFails, OtherProcessFails, Goes
  <2> QED BY <2>1, <2>2 DEF Rest
<1>3. CASE ProcessFailed
  BY <1>3, AttemptGate DEF ProcessFailed, Rest
<1>4. CASE HeartbeatCheck
  <2>1. silence' = silence \/ silence' = 0
    BY <1>4 DEF HeartbeatCheck, Touched
  <2>2. silence' <= HeartbeatLimit + 1
    BY <2>1, Limits DEF Rest
  <2>3. CASE silence > HeartbeatLimit
    <3>1. pc = "watching" /\ Attempt("reloading")
      BY <1>4, <2>3 DEF HeartbeatCheck
    <3> QED BY <1>4, <2>2, <3>1, AttemptGate DEF HeartbeatCheck, Rest
  <2>4. CASE ~(silence > HeartbeatLimit)
    BY <1>4, <2>2, <2>4 DEF HeartbeatCheck, Rest
  <2> QED BY <2>3, <2>4
<1>5. CASE ReloadMain \/ CreateMain
  <2>1. used' \in [Limited -> Nat]
    BY <1>0, <1>5, UsedType DEF ReloadMain, CreateMain, Rest
  <2> QED BY <1>5, <2>1 DEF ReloadMain, CreateMain, Rest
<1>6. CASE EnterFaultState
  <2>1. used' \in [Limited -> Nat]
    BY <1>0, <1>6, UsedType DEF EnterFaultState, Rest
  <2> QED BY <1>6, <2>1 DEF EnterFaultState, Rest
<1>7. CASE TimePasses
  <2>1. silence' <= HeartbeatLimit + 1
    BY <1>7, Limits DEF TimePasses, IInv, Types, Rest
  <2>2. /\ Len(gate') <= Limit + 1 /\ \A i \in 1 .. Len(gate') : gate'[i] <= Window
    <3>1. gate' = Older(gate) /\ Ages(gate)
      BY <1>7 DEF TimePasses, CapInv
    <3>2. /\ Len(gate') = Len(gate)
          /\ \A i \in 1 .. Len(gate) : gate'[i] = IF gate[i] < Window THEN gate[i] + 1 ELSE Window
      BY <3>1, OlderAges
    <3>3. Window \in Nat /\ \A i \in 1 .. Len(gate) : gate[i] \in Nat
      BY <3>1, WatchdogAssumption DEF Ages
    <3> QED BY <3>2, <3>3 DEF Rest
  <2> QED BY <1>7, <2>1, <2>2 DEF TimePasses, Rest
<1> QED BY <1>1, <1>2, <1>3, <1>4, <1>5, <1>6, <1>7 DEF Next, WatchdogStep

LEMMA AllInvariants == Spec => [](IInv /\ CapInv /\ Rest)
<1>1. Init => Rest
  <2> SUFFICES ASSUME Init PROVE Rest
    OBVIOUS
  <2>1. silence <= HeartbeatLimit + 1
    BY Limits DEF Init
  <2>2. Len(gate) <= Limit + 1 /\ \A i \in 1 .. Len(gate) : gate[i] <= Window
    BY WatchdogAssumption DEF Init
  <2>3. used \in [Limited -> Nat] /\ check \in BOOLEAN /\ exited \in BOOLEAN
    BY DEF Init
  <2> QED BY <2>1, <2>2, <2>3 DEF Rest
<1>2. IInv /\ CapInv /\ Rest /\ [Next]_vars => Rest'
  BY RestStep
<1> QED BY <1>1, <1>2, Invariant, CapInvariant, PTL DEF Spec

\* Every variable keeps its type: the gate's list, from which nothing is removed between
\* attempts, is never longer than the limit and the attempt that was refused.
THEOREM TypeCorrect == Spec => []TypeOK
<1>1. IInv /\ CapInv /\ Rest => TypeOK
  <2> SUFFICES ASSUME IInv, CapInv, Rest PROVE TypeOK
    OBVIOUS
  <2>1. /\ gate \in Seq(Nat) /\ recent \in Seq(Nat) /\ Window \in Nat
        /\ \A i \in 1 .. Len(gate) : gate[i] <= Window
        /\ \A i \in 1 .. Len(recent) : recent[i] < Window
    BY WatchdogAssumption DEF CapInv, Ages, Rest
  <2>2. gate \in Seq(0 .. Window)
    <3>1. \A i \in 1 .. Len(gate) : gate[i] \in 0 .. Window
      BY <2>1
    <3> QED BY <2>1, <3>1
  <2>3. recent \in Seq(0 .. Window - 1)
    BY <2>1
  <2>4. silence \in 0 .. HeartbeatLimit + 1
    BY Limits DEF IInv, Types, Rest
  <2> QED BY <2>2, <2>3, <2>4 DEF IInv, Types, Rest, TypeOK
<1> QED BY <1>1, AllInvariants, PTL

\* The watchdog gives up only on a storm: in the span before the refused attempt, as many
\* recoveries as the limit allows were carried out.
GivesUpOnStorm == [][pc = "watching" /\ pc' = "faulting" => Len(recent) = Limit]_vars

\* No station shows the fault screen for fewer failures than the policy says, however old
\* the ones the gate still lists (watchdog.rs, StormGate::admit).
THEOREM FaultsMeanStorm == Spec => GivesUpOnStorm
<1>1. IInv /\ CapInv /\ Rest /\ [Next]_vars
      => [pc = "watching" /\ pc' = "faulting" => Len(recent) = Limit]_vars
  <2> SUFFICES ASSUME CapInv, Next, pc = "watching", pc' = "faulting"
               PROVE  Len(recent) = Limit
    OBVIOUS
  <2>1. PICK next \in {"creating", "reloading"} : Attempt(next)
    BY DEF Next, Failure, PageHangs, RendererFails, BrowserFails, OtherProcessFails, Goes,
           WatchdogStep, ProcessFailed, HeartbeatCheck, ReloadMain, CreateMain,
           EnterFaultState, TimePasses
  <2>2. ~Allowed(Len(gate')) /\ Len(gate') = Len(recent) + 1 /\ Len(recent) <= Limit
    BY <2>1, AttemptGate DEF Attempt, CapInv, StormCap
  <2>3. Len(recent) \in Nat /\ Limit \in Nat
    BY WatchdogAssumption DEF CapInv, Ages
  <2> QED BY <2>2, <2>3 DEF Allowed
<1> QED BY <1>1, AllInvariants, PTL DEF Spec, GivesUpOnStorm
=============================================================================
