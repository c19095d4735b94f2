------------------------ MODULE ReaderMonitorProofs -------------------------
(***************************************************************************)
(* Theorems about ReaderMonitor, for every number of readers and cards,    *)
(* every length of the queue and every bound.  Each safety property has a  *)
(* strengthening of its own:                                               *)
(*   - a card is sent only by a monitor that last reported a reader, and   *)
(*     what it reported last is what the core will have heard;             *)
(*   - the taps a placement may still cause (one for a reading that is an  *)
(*     edge, one for a reader known or about to be read as empty under it) *)
(*     are within what it was granted;                                     *)
(*   - a placement that was read lies there still, or was moved;           *)
(*   - nothing but a pull grants a placement a second presentation.        *)
(*                                                                         *)
(* Then about ReaderGate: the monitor of ReaderMonitor is what ReaderProbe *)
(* takes it for, ReaderProbe's judge passes only what it counted, and what *)
(* it counted happened in the world.                                       *)
(***************************************************************************)
EXTENDS ReaderGate, TLAPS

\* What was reported last is the last the core will hear, and cards are looked at only
\* after a reader was reported.
LastHeard == HeardBefore(Len(inbox) + 1)
ReportInv ==
    /\ reported = TRUE => LastHeard
    /\ phase \in {"wait", "look"} => reported = TRUE

\* The placements a reader has to do with: the one that lies there, the one last read.
Own(r) == {lying[r]} \cup (IF r \in DOMAIN readings THEN {readings[r]} ELSE {})

\* Every placement is on one reader, and the next one is new.
OwnInv ==
    /\ phase # "look" => DOMAIN readings = {}
    /\ \A r \in Readers : \A n \in Own(r) : n <= used.placements
    /\ \A r, q \in Readers : r # q => Own(r) \cap Own(q) \subseteq {NoCard}
    /\ \A n \in Placements : n > used.placements => taps[n] = 0

\* The loop is about to send the placement; it is taken for one that was put down when
\* its reader is read next.
Pending(r, n) == r \in DOMAIN readings /\ readings[r] = n /\ IsEdge(r)
KnownEmpty(r) == IF r \in DOMAIN readings THEN readings[r] = NoCard
                 ELSE r \in DOMAIN cardState /\ ~cardState[r]
Again(r, n) == lying[r] = n /\ (KnownEmpty(r) \/ r \in (watched \cup matched) \ plugged)

Due(r, n) == (IF Pending(r, n) THEN 1 ELSE 0) + (IF Again(r, n) THEN 1 ELSE 0)
GrantInv == \A r \in Readers, n \in Placements : taps[n] + Due(r, n) <= grants[n]

\* The placement was read on its reader, and the core has not keyed it yet.
Seen(r, n) == \/ \E i \in DOMAIN inbox : inbox[i] = Card(r, n)
              \/ keying # None /\ keying = Card(r, n)
              \/ r \in DOMAIN readings /\ readings[r] = n
SeenInv ==
    /\ keying # None => keying.kind = "card"
    /\ \A r \in Readers, n \in Placements :
          Seen(r, n) => n \in moved \/ (r \in plugged /\ lying[r] = n)

Inv == /\ TypeOK /\ OwnInv
       /\ ReportInv /\ PresenceFirst
       /\ GrantInv /\ NoSpuriousTap
       /\ SeenInv /\ WrongOnlyIfMoved
-----------------------------------------------------------------------------
LEMMA PlacementsAreCards == NoCard \notin Placements /\ Placements \subseteq Nat
  BY DEF NoCard, Placements

\* The counters of events.
LEMMA UseType ==
    ASSUME used \in [Limited -> Nat], NEW w \in Limited \ {"all"}, Use(w)
    PROVE  /\ used' \in [Limited -> Nat]
           /\ w # "placements" => used'.placements = used.placements
           /\ w = "placements" => used'.placements = used.placements + 1
<1> DEFINE one == [used EXCEPT ![w] = @ + 1]
<1>1. "placements" \in Limited /\ "all" \in Limited
  BY DEF Limited
<1>2. /\ one \in [Limited -> Nat]
      /\ one.placements = used.placements + (IF w = "placements" THEN 1 ELSE 0)
  BY <1>1
<1>3. used' = [one EXCEPT !.all = @ + 1]
  BY DEF Use
<1> HIDE DEF one
<1>4. QED
  BY <1>1, <1>2, <1>3

LEMMA QueueTypes ==
    ASSUME NEW q \in Seq(Message), NEW m \in Message
    PROVE  /\ Append(q, m) \in Seq(Message) /\ Len(Append(q, m)) = Len(q) + 1
           /\ q # <<>> => /\ Head(q) \in Message /\ Tail(q) \in Seq(Message)
                          /\ Len(Tail(q)) = Len(q) - 1
  OBVIOUS

LEMMA SendType ==
    ASSUME TypeOK, NEW m \in Message, Send(m)
    PROVE  inbox' \in Seq(Message) /\ Len(inbox') <= Capacity /\ inbox' = Append(inbox, m)
  BY QueueTypes, ReaderMonitorAssumption DEF TypeOK, Send, HasRoom

LEMMA ReportType ==
    ASSUME TypeOK, NEW p \in BOOLEAN, ReportPresence(p)
    PROVE  /\ reported' = p
           /\ inbox' \in Seq(Message) /\ Len(inbox') <= Capacity
           /\ inbox' = inbox \/ inbox' = Append(inbox, Presence(p))
           /\ reported # p => inbox' = Append(inbox, Presence(p))
<1>1. Presence(p) \in Message
  BY DEF Message
<1>2. QED
  BY <1>1, SendType DEF ReportPresence, TypeOK

LEMMA KnownTypes ==
    ASSUME TypeOK
    PROVE  /\ DOMAIN cardState \subseteq watched /\ cardState \in [DOMAIN cardState -> BOOLEAN]
           /\ DOMAIN readings \subseteq watched
           /\ readings \in [DOMAIN readings -> Placements \cup {NoCard}]
           /\ watched \subseteq Readers
  BY DEF TypeOK

LEMMA NothingKnown ==
    ASSUME cardState' = Empty, watched' = {}, matched' = {}, readings' = Empty
    PROVE  /\ \E S \in SUBSET watched' : cardState' \in [S -> BOOLEAN]
           /\ \E S \in SUBSET watched' : readings' \in [S -> Placements \cup {NoCard}]
           /\ watched' \subseteq Readers /\ matched' \subseteq Readers
           /\ DOMAIN cardState' = {} /\ DOMAIN readings' = {}
<1>1. Empty \in [{} -> BOOLEAN] /\ Empty \in [{} -> Placements \cup {NoCard}]
  BY DEF Empty
<1>2. {} \in SUBSET watched' /\ DOMAIN Empty = {}
  BY DEF Empty
<1>3. QED
  BY <1>1, <1>2

\* The placement a card gets when it is put down.
LEMMA NextPlacement ==
    ASSUME TypeOK, May("placements")
    PROVE  used.placements + 1 \in Placements /\ used.placements \in Nat
<1>1. used.placements \in Nat /\ Bound.placements \in Nat
  BY ReaderMonitorAssumption DEF TypeOK, Limited
<1>2. QED
  BY <1>1 DEF May, Placements

LEMMA TypeInit == Init => TypeOK
<1> SUFFICES ASSUME Init PROVE TypeOK
  OBVIOUS
<1>1. /\ \E S \in SUBSET watched : cardState \in [S -> BOOLEAN]
      /\ \E S \in SUBSET watched : readings \in [S -> Placements \cup {NoCard}]
  <2>1. Empty \in [{} -> BOOLEAN] /\ Empty \in [{} -> Placements \cup {NoCard}]
    BY DEF Empty
  <2>2. QED
    BY <2>1 DEF Init
<1>2. inbox \in Seq(Message) /\ Len(inbox) <= Capacity
  BY ReaderMonitorAssumption DEF Init
<1>3. QED
  BY <1>1, <1>2 DEF Init, TypeOK

LEMMA TypeStep == TypeOK /\ OwnInv /\ SeenInv /\ [Next]_vars => TypeOK'
<1> SUFFICES ASSUME TypeOK, OwnInv, SeenInv, [Next]_vars
             PROVE  TypeOK'
  OBVIOUS
<1> USE DEF TypeOK
<1>0. {"placements", "pulls", "outages", "others", "kills"} \subseteq Limited \ {"all"}
  BY DEF Limited
<1>1. ASSUME NEW r \in Readers, PutDown(r) PROVE TypeOK'
  <2>1. used.placements + 1 \in Placements /\ used' \in [Limited -> Nat]
    BY <1>0, <1>1, NextPlacement, UseType DEF PutDown
  <2>2. QED
    BY <1>1, <2>1 DEF PutDown, monitor, core
<1>2. ASSUME NEW r \in Readers, Lift(r) PROVE TypeOK'
  BY <1>2, PlacementsAreCards DEF Lift, monitor, core
<1>3. ASSUME NEW r \in Readers, Pull(r) PROVE TypeOK'
  <2>1. used' \in [Limited -> Nat]
    BY <1>0, <1>3, UseType DEF Pull
  <2>2. grants' \in [Placements -> Nat] /\ moved' \subseteq Placements
    <3>1. CASE lying[r] = NoCard
      BY <1>3, <3>1 DEF Pull
    <3>2. CASE lying[r] \in Placements
      <4>1. /\ grants' = [grants EXCEPT ![lying[r]] = @ + 1]
            /\ moved' = moved \cup {lying[r]}
        BY <1>3, <3>2, PlacementsAreCards DEF Pull
      <4>2. QED
        BY <3>2, <4>1
    <3>3. QED
      BY <3>1, <3>2
  <2>3. QED
    BY <1>3, <2>1, <2>2 DEF Pull, monitor, core
<1>4. ASSUME NEW r \in Readers, Plug(r) PROVE TypeOK'
  BY <1>4 DEF Plug, monitor, core, history
<1>5. CASE Outage \/ ServiceReturns
  <2>1. used' \in [Limited -> Nat]
    BY <1>0, <1>5, UseType DEF Outage, ServiceReturns
  <2>2. QED
    BY <1>5, <2>1 DEF Outage, ServiceReturns, monitor, core, history
<1>6. CASE Kill
  <2>1. used' \in [Limited -> Nat]
    BY <1>0, <1>6, UseType DEF Kill
  <2>2. inbox' \in Seq(Message) /\ Len(inbox') <= Capacity
    BY <1>6, ReaderMonitorAssumption DEF Kill
  <2>3. grants' \in [Placements -> Nat]
    BY <1>6 DEF Kill
  <2>4. /\ \E S \in SUBSET watched' : cardState' \in [S -> BOOLEAN]
        /\ \E S \in SUBSET watched' : readings' \in [S -> Placements \cup {NoCard}]
        /\ watched' \subseteq Readers /\ matched' \subseteq Readers
    BY <1>6, NothingKnown DEF Kill
  <2>5. QED
    BY <1>6, <2>1, <2>2, <2>3, <2>4 DEF Kill, world
<1>7. CASE OtherSends
  <2>1. used' \in [Limited -> Nat]
    BY <1>0, <1>7, UseType DEF OtherSends
  <2>2. inbox' \in Seq(Message) /\ Len(inbox') <= Capacity
    <3>1. Other \in Message /\ Send(Other)
      BY <1>7 DEF OtherSends, Send, Message
    <3>2. QED
      BY <3>1, SendType
  <2>3. QED
    BY <1>7, <2>1, <2>2 DEF OtherSends, world, monitor, core, history
<1>8. CASE Take
  <2>1. Head(inbox) \in Message /\ inbox' \in Seq(Message) /\ Len(inbox') <= Capacity
    BY <1>8, QueueTypes, ReaderMonitorAssumption DEF Take
  <2>2. heard' \in BOOLEAN
    BY <1>8, <2>1 DEF Take, Message, Presence, Card, Other
  <2>3. QED
    BY <1>8, <2>1, <2>2 DEF Take, world, monitor, history
<1>9. CASE Keyed
  <2>1. keying \in Message /\ keying.kind = "card"
    BY <1>9 DEF Keyed, SeenInv
  <2>2. keying.placement \in Placements
    BY <2>1 DEF Message, Presence, Card, Other
  <2>3. wrong' \subseteq Placements
    BY <1>9, <2>2 DEF Keyed
  <2>4. QED
    BY <1>9, <2>3 DEF Keyed, world, monitor
<1>10. CASE Establish
  <2>1. /\ \E S \in SUBSET watched' : cardState' \in [S -> BOOLEAN]
        /\ \E S \in SUBSET watched' : readings' \in [S -> Placements \cup {NoCard}]
        /\ watched' \subseteq Readers /\ matched' \subseteq Readers
    BY <1>10, NothingKnown DEF Establish
  <2>2. QED
    BY <1>10, <2>1 DEF Establish, world, core, history
<1>11. CASE ListReaders \/ StatusFails
  BY <1>11 DEF ListReaders, StatusFails, world, core, history
<1>12. CASE Enumerated
  <2>1. /\ inbox' \in Seq(Message) /\ Len(inbox') <= Capacity
        /\ reported' \in BOOLEAN
    BY <1>12, ReportType DEF Enumerated
  <2>2. cardState' \in [DOMAIN cardState' -> BOOLEAN] /\ DOMAIN cardState' \subseteq watched'
    BY <1>12, KnownTypes DEF Enumerated, Retained, Restrict
  <2>3. readings' \in [{} -> Placements \cup {NoCard}]
    BY <1>12, KnownTypes DEF Enumerated, OwnInv
  <2>4. QED
    BY <1>12, <2>1, <2>2, <2>3 DEF Enumerated, world, core, history
<1>13. CASE StatusChange
  <2>1. readings' \in [watched -> Placements \cup {NoCard}]
    BY <1>13 DEF StatusChange
  <2>2. QED
    BY <1>13, <2>1 DEF StatusChange, world, core, history
<1>14. ASSUME NEW r \in Readers, Look(r) PROVE TypeOK'
  <2>1. r \in watched /\ readings[r] \in Placements \cup {NoCard}
    BY <1>14, KnownTypes DEF Look
  <2>2. /\ inbox' \in Seq(Message) /\ Len(inbox') <= Capacity
        /\ taps' \in [Placements -> Nat]
    <3>1. CASE IsEdge(r)
      <4>1. readings[r] \in Placements
        BY <2>1, <3>1 DEF IsEdge
      <4>2. TapOf(r) \in Message
        BY <4>1 DEF TapOf, Message
      <4>3. Send(TapOf(r)) /\ taps' = [taps EXCEPT ![readings[r]] = @ + 1]
        BY <1>14, <3>1 DEF Look
      <4>4. QED
        BY <4>1, <4>2, <4>3, SendType
    <3>2. CASE ~IsEdge(r)
      BY <1>14, <3>2 DEF Look
    <3>3. QED
      BY <3>1, <3>2
  <2>3. cardState' \in [DOMAIN cardState' -> BOOLEAN] /\ DOMAIN cardState' \subseteq watched'
    BY <1>14, <2>1, KnownTypes DEF Look
  <2>4. /\ readings' \in [DOMAIN readings' -> Placements \cup {NoCard}]
        /\ DOMAIN readings' \subseteq watched'
    BY <1>14, KnownTypes DEF Look, Restrict
  <2>5. QED
    BY <1>14, <2>2, <2>3, <2>4 DEF Look, world, core
<1>15. CASE Failed
  <2>1. /\ inbox' \in Seq(Message) /\ Len(inbox') <= Capacity
        /\ reported' \in BOOLEAN
    BY <1>15, ReportType DEF Failed
  <2>2. QED
    BY <1>15, <2>1 DEF Failed, world, core, history
<1>16. CASE UNCHANGED vars
  BY <1>16 DEF vars, world, monitor, core, history
<1>17. QED
  BY <1>1, <1>2, <1>3, <1>4, <1>5, <1>6, <1>7, <1>8, <1>9, <1>10, <1>11, <1>12, <1>13, <1>14,
     <1>15, <1>16
  DEF Next, World, Core, Monitor
-----------------------------------------------------------------------------
(* The presence before the card.                                           *)

\* HeardBefore, of any queue and any presence bit.
Hears(q, h, i) ==
    \/ h /\ \A j \in 1 .. i - 1 : q[j].kind # "presence"
    \/ \E j \in 1 .. i - 1 : /\ q[j] = Presence(TRUE)
                            /\ \A k \in j + 1 .. i - 1 : q[k].kind # "presence"

LEMMA HearsIsHeard == \A i : /\ HeardBefore(i) <=> Hears(inbox, heard, i)
                             /\ HeardBefore(i)' <=> Hears(inbox', heard', i)
  BY DEF HeardBefore, Hears

\* Only what comes before a message counts.
LEMMA HearsSame ==
    ASSUME NEW q, NEW p, NEW h, NEW i \in Nat, \A j \in 1 .. i - 1 : p[j] = q[j], Hears(q, h, i)
    PROVE  Hears(p, h, i)
<1>1. CASE h /\ \A j \in 1 .. i - 1 : q[j].kind # "presence"
  <2>1. ASSUME NEW j \in 1 .. i - 1 PROVE p[j].kind # "presence"
    <3>1. p[j] = q[j] /\ q[j].kind # "presence"
      BY <1>1
    <3>2. QED
      BY <3>1
  <2>2. QED
    BY <1>1, <2>1 DEF Hears
<1>2. ASSUME NEW j \in 1 .. i - 1, q[j] = Presence(TRUE),
             \A k \in j + 1 .. i - 1 : q[k].kind # "presence"
      PROVE  Hears(p, h, i)
  <2>1. ASSUME NEW k \in j + 1 .. i - 1 PROVE p[k].kind # "presence"
    <3>1. k \in 1 .. i - 1
      OBVIOUS
    <3>2. p[k] = q[k] /\ q[k].kind # "presence"
      BY <1>2, <3>1
    <3>3. QED
      BY <3>2
  <2>2. p[j] = Presence(TRUE)
    BY <1>2
  <2>3. QED
    BY <2>1, <2>2 DEF Hears
<1>3. QED
  BY <1>1, <1>2 DEF Hears

\* One message more.
LEMMA HearsNext ==
    ASSUME NEW q, NEW h, NEW n \in Nat \ {0}
    PROVE  /\ q[n] = Presence(TRUE) => Hears(q, h, n + 1)
           /\ q[n].kind # "presence" /\ Hears(q, h, n) => Hears(q, h, n + 1)
<1>1. ASSUME q[n] = Presence(TRUE) PROVE Hears(q, h, n + 1)
  <2>1. n \in 1 .. (n + 1) - 1 /\ n + 1 .. (n + 1) - 1 = {}
    OBVIOUS
  <2>2. QED
    BY <1>1, <2>1 DEF Hears
<1>2. ASSUME q[n].kind # "presence", h, \A j \in 1 .. n - 1 : q[j].kind # "presence"
      PROVE  Hears(q, h, n + 1)
  <2>1. \A j \in 1 .. (n + 1) - 1 : j = n \/ j \in 1 .. n - 1
    OBVIOUS
  <2>2. \A j \in 1 .. (n + 1) - 1 : q[j].kind # "presence"
    BY <1>2, <2>1
  <2>3. QED
    BY <1>2, <2>2 DEF Hears
<1>3. ASSUME q[n].kind # "presence", NEW j \in 1 .. n - 1, q[j] = Presence(TRUE),
             \A k \in j + 1 .. n - 1 : q[k].kind # "presence"
      PROVE  Hears(q, h, n + 1)
  <2>1. /\ j \in 1 .. (n + 1) - 1
        /\ \A k \in j + 1 .. (n + 1) - 1 : k = n \/ k \in j + 1 .. n - 1
    OBVIOUS
  <2>2. \A k \in j + 1 .. (n + 1) - 1 : q[k].kind # "presence"
    BY <1>3, <2>1
  <2>3. QED
    BY <1>3, <2>1, <2>2 DEF Hears
<1>4. QED
  BY <1>1, <1>2, <1>3 DEF Hears

\* The first message taken.
LEMMA HearsShift ==
    ASSUME NEW q, NEW p, NEW h \in BOOLEAN, NEW g, NEW i \in Nat \ {0},
           \A j \in 1 .. i - 1 : p[j] = q[j + 1],
           g = (IF q[1].kind = "presence" THEN q[1].present ELSE h), Hears(q, h, i + 1)
    PROVE  Hears(p, g, i)
<1>1. CASE h /\ \A j \in 1 .. (i + 1) - 1 : q[j].kind # "presence"
  <2>1. 1 \in 1 .. (i + 1) - 1 /\ \A j \in 1 .. i - 1 : j + 1 \in 1 .. (i + 1) - 1
    OBVIOUS
  <2>2. q[1].kind # "presence"
    BY <1>1, <2>1
  <2>3. ASSUME NEW j \in 1 .. i - 1 PROVE p[j].kind # "presence"
    <3>1. p[j] = q[j + 1] /\ q[j + 1].kind # "presence"
      BY <1>1, <2>1
    <3>2. QED
      BY <3>1
  <2>4. QED
    BY <1>1, <2>2, <2>3 DEF Hears
<1>2. ASSUME NEW j \in 1 .. (i + 1) - 1, q[j] = Presence(TRUE),
             \A k \in j + 1 .. (i + 1) - 1 : q[k].kind # "presence"
      PROVE  Hears(p, g, i)
  <2>1. CASE j = 1
    <3>1. g = TRUE
      BY <1>2, <2>1 DEF Presence
    <3>2. ASSUME NEW k \in 1 .. i - 1 PROVE p[k].kind # "presence"
      <4>1. k + 1 \in j + 1 .. (i + 1) - 1
        BY <2>1
      <4>2. p[k] = q[k + 1] /\ q[k + 1].kind # "presence"
        BY <1>2, <4>1
      <4>3. QED
        BY <4>2
    <3>3. QED
      BY <3>1, <3>2 DEF Hears
  <2>2. CASE j # 1
    <3>1. j - 1 \in 1 .. i - 1 /\ (j - 1) + 1 = j
      BY <2>2
    <3>2. p[j - 1] = q[(j - 1) + 1]
      BY <3>1
    <3>3. p[j - 1] = Presence(TRUE)
      BY <1>2, <3>1, <3>2
    <3>4. ASSUME NEW k \in (j - 1) + 1 .. i - 1 PROVE p[k].kind # "presence"
      <4>1. k \in 1 .. i - 1 /\ k + 1 \in j + 1 .. (i + 1) - 1
        OBVIOUS
      <4>2. p[k] = q[k + 1] /\ q[k + 1].kind # "presence"
        BY <1>2, <4>1
      <4>3. QED
        BY <4>2
    <3>5. QED
      BY <3>1, <3>3, <3>4 DEF Hears
  <2>3. QED
    BY <2>1, <2>2
<1>3. QED
  BY <1>1, <1>2 DEF Hears

LEMMA AppendHeard ==
    ASSUME TypeOK, NEW m \in Message, inbox' = Append(inbox, m), heard' = heard, PresenceFirst,
           m.kind = "card" => LastHeard
    PROVE  /\ PresenceFirst'
           /\ m = Presence(TRUE) \/ (m.kind # "presence" /\ LastHeard) => LastHeard'
<1>1. PICK n \in Nat :
         /\ n = Len(inbox) /\ Len(inbox') = n + 1
         /\ DOMAIN inbox' = 1 .. n + 1 /\ DOMAIN inbox = 1 .. n
         /\ inbox'[n + 1] = m /\ \A j \in 1 .. n : inbox'[j] = inbox[j]
  BY DEF TypeOK
<1>2. ASSUME NEW i \in 1 .. n + 1, HeardBefore(i) PROVE HeardBefore(i)'
  <2>1. i \in Nat /\ \A j \in 1 .. i - 1 : inbox'[j] = inbox[j]
    BY <1>1
  <2>2. QED
    BY <1>2, <2>1, HearsIsHeard, HearsSame
<1>3. PresenceFirst'
  <2>1. SUFFICES ASSUME NEW i \in 1 .. n + 1, inbox'[i].kind = "card" PROVE HeardBefore(i)'
    BY <1>1 DEF PresenceFirst
  <2>2. CASE i = n + 1
    BY <1>1, <1>2, <2>1, <2>2 DEF LastHeard
  <2>3. CASE i \in 1 .. n
    BY <1>1, <1>2, <2>1, <2>3 DEF PresenceFirst
  <2>4. QED
    BY <1>1, <2>2, <2>3
<1>4. ASSUME m = Presence(TRUE) \/ (m.kind # "presence" /\ LastHeard) PROVE LastHeard'
  <2>1. m.kind # "presence" => Hears(inbox', heard', n + 1)
    <3>1. HeardBefore(n + 1) => HeardBefore(n + 1)'
      BY <1>1, <1>2
    <3>2. QED
      BY <1>1, <1>4, <3>1, HearsIsHeard DEF LastHeard, Presence
  <2>2. n + 1 \in Nat \ {0}
    BY <1>1
  <2>3. Hears(inbox', heard', (n + 1) + 1)
    BY <1>1, <1>4, <2>1, <2>2, HearsNext
  <2>4. QED
    BY <1>1, <2>3, HearsIsHeard DEF LastHeard
<1>5. QED
  BY <1>3, <1>4

LEMMA TakeHeard ==
    ASSUME TypeOK, Take
    PROVE  /\ Len(inbox') = Len(inbox) - 1 /\ Len(inbox) \in Nat \ {0}
           /\ DOMAIN inbox' = 1 .. Len(inbox) - 1
           /\ \A i \in 1 .. Len(inbox) : HeardBefore(i + 1) => HeardBefore(i)'
           /\ \A i \in 1 .. Len(inbox) - 1 : inbox'[i] = inbox[i + 1]
<1> DEFINE n == Len(inbox)
<1>1. /\ n \in Nat \ {0} /\ Len(inbox') = n - 1 /\ DOMAIN inbox = 1 .. n
      /\ DOMAIN inbox' = 1 .. n - 1
      /\ \A i \in 1 .. n - 1 : inbox'[i] = inbox[i + 1]
      /\ Head(inbox) = inbox[1]
      /\ heard' = IF inbox[1].kind = "presence" THEN inbox[1].present ELSE heard
  BY DEF TypeOK, Take
<1> HIDE DEF n
<1>2. ASSUME NEW i \in 1 .. n, HeardBefore(i + 1) PROVE HeardBefore(i)'
  <2>1. i \in Nat \ {0} /\ \A j \in 1 .. i - 1 : inbox'[j] = inbox[j + 1]
    BY <1>1
  <2>2. heard \in BOOLEAN /\ Hears(inbox, heard, i + 1)
    BY <1>2, HearsIsHeard DEF TypeOK
  <2>3. Hears(inbox', heard', i)
    BY <1>1, <2>1, <2>2, HearsShift
  <2>4. QED
    BY <2>3, HearsIsHeard
<1>3. QED
  BY <1>1, <1>2 DEF n

\* The queue and what was heard stay.
LEMMA SameHeard ==
    ASSUME inbox' = inbox, heard' = heard, PresenceFirst
    PROVE  PresenceFirst' /\ (LastHeard => LastHeard')
<1>1. \A i : HeardBefore(i)' <=> HeardBefore(i)
  BY HearsIsHeard
<1>2. QED
  BY <1>1 DEF PresenceFirst, LastHeard

LEMMA PresenceStep ==
    TypeOK /\ ReportInv /\ PresenceFirst /\ [Next]_vars => ReportInv' /\ PresenceFirst'
<1> SUFFICES ASSUME TypeOK, ReportInv, PresenceFirst, [Next]_vars
             PROVE  ReportInv' /\ PresenceFirst'
  OBVIOUS
<1>1. ASSUME inbox' = inbox, heard' = heard, reported' = reported,
             phase' \in {"wait", "look"} => reported = TRUE
      PROVE  ReportInv' /\ PresenceFirst'
  BY <1>1, SameHeard DEF ReportInv
<1>2. ASSUME NEW m \in Message, inbox' = Append(inbox, m), heard' = heard, m.kind # "presence",
             m.kind = "card" => LastHeard, reported' = reported,
             phase' \in {"wait", "look"} => reported = TRUE
      PROVE  ReportInv' /\ PresenceFirst'
  BY <1>2, AppendHeard DEF ReportInv
<1>3. ASSUME NEW r \in Readers, PutDown(r) \/ Lift(r) \/ Pull(r) \/ Plug(r)
      PROVE  ReportInv' /\ PresenceFirst'
  BY <1>1, <1>3 DEF PutDown, Lift, Pull, Plug, monitor, core, ReportInv
<1>4. CASE Outage \/ ServiceReturns \/ Keyed \/ UNCHANGED vars
  BY <1>1, <1>4 DEF Outage, ServiceReturns, Keyed, vars, monitor, core, ReportInv
<1>5. CASE Kill
  <2>1. inbox' = <<>> /\ reported' = None /\ phase' = "establish"
    BY <1>5 DEF Kill
  <2>2. None # TRUE
    BY Zenon, ReaderMonitorAssumption
  <2>3. PresenceFirst'
    BY <2>1 DEF PresenceFirst
  <2>4. QED
    BY <2>1, <2>2, <2>3 DEF ReportInv
<1>6. CASE OtherSends
  <2>1. Other \in Message /\ Other.kind = "other"
    BY DEF Other, Message
  <2>2. QED
    BY <1>2, <1>6, <2>1 DEF OtherSends, monitor, core, ReportInv
<1>7. CASE Take
  <2>1. LastHeard => LastHeard'
    <3>1. Len(inbox) \in 1 .. Len(inbox) /\ Len(inbox') + 1 = Len(inbox)
      BY <1>7, TakeHeard
    <3>2. QED
      BY <1>7, <3>1, TakeHeard DEF LastHeard
  <2>2. PresenceFirst'
    <3>1. SUFFICES ASSUME NEW i \in 1 .. Len(inbox) - 1, inbox'[i].kind = "card"
                   PROVE  HeardBefore(i)'
      BY <1>7, TakeHeard DEF PresenceFirst
    <3>2. i + 1 \in DOMAIN inbox /\ i \in 1 .. Len(inbox)
      BY <1>7, TakeHeard DEF TypeOK
    <3>3. inbox[i + 1].kind = "card"
      BY <1>7, <3>1, TakeHeard
    <3>4. QED
      BY <1>7, <3>2, <3>3, TakeHeard DEF PresenceFirst
  <2>3. QED
    BY <1>7, <2>1, <2>2 DEF Take, monitor, ReportInv
<1>8. CASE Establish \/ ListReaders \/ StatusChange \/ StatusFails
  BY <1>1, <1>8 DEF Establish, ListReaders, StatusChange, StatusFails, core, ReportInv
<1>9. ASSUME NEW p \in BOOLEAN, ReportPresence(p), heard' = heard,
             phase' \in {"wait", "look"} => p = TRUE
      PROVE  ReportInv' /\ PresenceFirst'
  <2>1. reported' = p
    BY <1>9, ReportType
  <2>2. CASE inbox' = Append(inbox, Presence(p))
    <3>1. Presence(p) \in Message /\ Presence(p).kind = "presence"
      BY DEF Message, Presence
    <3>2. PresenceFirst' /\ (p = TRUE => LastHeard')
      BY <1>9, <2>2, <3>1, AppendHeard
    <3>3. QED
      BY <1>9, <2>1, <3>2 DEF ReportInv
  <2>3. CASE inbox' = inbox /\ reported = p
    <3>1. PresenceFirst' /\ (LastHeard => LastHeard')
      BY <1>9, <2>3, SameHeard
    <3>2. QED
      BY <1>9, <2>1, <2>3, <3>1 DEF ReportInv
  <2>4. QED
    BY <1>9, <2>2, <2>3, ReportType
<1>10. CASE Enumerated
  <2>1. (matched # {}) \in BOOLEAN /\ ReportPresence(matched # {}) /\ heard' = heard
    BY <1>10 DEF Enumerated, core
  <2>2. phase' \in {"wait", "look"} => (matched # {}) = TRUE
    BY <1>10 DEF Enumerated
  <2>3. QED
    BY <1>9, <2>1, <2>2
<1>11. ASSUME NEW r \in Readers, Look(r) PROVE ReportInv' /\ PresenceFirst'
  <2>1. LastHeard /\ reported = TRUE
    BY <1>11 DEF Look, ReportInv
  <2>2. CASE IsEdge(r)
    <3>1. readings[r] \in Placements
      BY <1>11, <2>2, KnownTypes DEF Look, IsEdge
    <3>2. TapOf(r) \in Message /\ TapOf(r).kind = "card"
      BY <3>1 DEF TapOf, Message, Card
    <3>3. inbox' = Append(inbox, TapOf(r))
      BY <1>11, <2>2 DEF Look, Send
    <3>4. QED
      BY <1>2, <1>11, <2>1, <3>2, <3>3 DEF Look, core
  <2>3. CASE ~IsEdge(r)
    BY <1>1, <1>11, <2>1, <2>3 DEF Look, core
  <2>4. QED
    BY <2>2, <2>3
<1>12. CASE Failed
  BY <1>9, <1>12 DEF Failed, core
<1>13. QED
  BY <1>3, <1>4, <1>5, <1>6, <1>7, <1>8, <1>10, <1>11, <1>12 DEF Next, World, Core, Monitor
-----------------------------------------------------------------------------
(* A placement lies on one reader.                                         *)

LEMMA OwnKept ==
    ASSUME TypeOK, OwnInv, \A r \in Readers : Own(r)' \subseteq Own(r) \cup {NoCard},
           used'.placements = used.placements, taps' = taps,
           phase' # "look" => DOMAIN readings' = {}
    PROVE  OwnInv'
<1>1. used.placements \in Nat /\ NoCard = 0
  BY DEF TypeOK, Limited, NoCard
<1>2. \A r \in Readers : \A n \in Own(r)' : n <= used'.placements
  BY <1>1 DEF OwnInv
<1>3. \A r, q \in Readers : r # q => Own(r)' \cap Own(q)' \subseteq {NoCard}
  BY DEF OwnInv
<1>4. \A n \in Placements : n > used'.placements => taps'[n] = 0
  BY DEF OwnInv
<1>5. QED
  BY <1>2, <1>3, <1>4 DEF OwnInv

LEMMA OwnStep == TypeOK /\ OwnInv /\ [Next]_vars => OwnInv'
<1> SUFFICES ASSUME TypeOK, OwnInv, [Next]_vars
             PROVE  OwnInv'
  OBVIOUS
<1>0. /\ {"pulls", "outages", "others", "kills"} \subseteq Limited \ {"all"}
      /\ "placements" \in Limited \ {"all"}
      /\ "placements" \notin {"pulls", "outages", "others", "kills"}
      /\ used \in [Limited -> Nat]
  BY DEF Limited, TypeOK
<1>1. ASSUME NEW r \in Readers, PutDown(r) PROVE OwnInv'
  <2>1. PICK n \in Placements :
           /\ n = used.placements + 1 /\ used'.placements = n /\ used.placements \in Nat
           /\ lying' = [lying EXCEPT ![r] = n]
    BY <1>0, <1>1, NextPlacement, UseType DEF PutDown
  <2>2. /\ Own(r)' \subseteq Own(r) \cup {n}
        /\ \A q \in Readers \ {r} : Own(q)' = Own(q)
        /\ taps' = taps /\ (phase' # "look" => DOMAIN readings' = {})
    BY <1>1, <2>1 DEF PutDown, monitor, Own, OwnInv, TypeOK
  <2>3. \A q \in Readers : n \notin Own(q)
    BY <2>1 DEF OwnInv, Own, TypeOK, Placements, NoCard
  <2>4. \A q \in Readers : \A k \in Own(q)' : k <= used'.placements
    <3>1. ASSUME NEW q \in Readers, NEW k \in Own(q)' PROVE k <= used'.placements
      <4>1. k \in Own(q) \/ k = n
        BY <2>2, <3>1
      <4>2. CASE k \in Own(q)
        <5>1. k <= used.placements /\ k \in Placements \cup {NoCard}
          BY <4>2, KnownTypes DEF OwnInv, Own, TypeOK
        <5>2. QED
          BY <2>1, <5>1 DEF Placements, NoCard
      <4>3. QED
        BY <2>1, <4>1, <4>2 DEF Placements
    <3>2. QED
      BY <3>1
  <2>5. \A p, q \in Readers : p # q => Own(p)' \cap Own(q)' \subseteq {NoCard}
    BY <2>2, <2>3 DEF OwnInv
  <2>6. \A k \in Placements : k > used'.placements => taps'[k] = 0
    BY <2>1, <2>2 DEF OwnInv, Placements
  <2>7. QED
    BY <2>2, <2>4, <2>5, <2>6 DEF OwnInv
<1>2. ASSUME NEW r \in Readers, Lift(r) \/ Pull(r) \/ Plug(r) PROVE OwnInv'
  <2>1. used'.placements = used.placements
    BY <1>0, <1>2, UseType DEF Lift, Pull, Plug
  <2>2. /\ \A q \in Readers : Own(q)' \subseteq Own(q) \cup {NoCard}
        /\ taps' = taps /\ (phase' # "look" => DOMAIN readings' = {})
    BY <1>2 DEF Lift, Pull, Plug, monitor, history, Own, OwnInv, TypeOK
  <2>3. QED
    BY <2>1, <2>2, OwnKept
<1>3. CASE Outage \/ ServiceReturns \/ OtherSends \/ Take \/ Keyed \/ UNCHANGED vars
  <2>1. used'.placements = used.placements
    BY <1>0, <1>3, UseType DEF Outage, ServiceReturns, OtherSends, Take, Keyed, vars
  <2>2. /\ \A q \in Readers : Own(q)' \subseteq Own(q) \cup {NoCard}
        /\ taps' = taps /\ (phase' # "look" => DOMAIN readings' = {})
    BY <1>3 DEF Outage, ServiceReturns, OtherSends, Take, Keyed, vars, world, monitor, history,
                Own, OwnInv
  <2>3. QED
    BY <2>1, <2>2, OwnKept
<1>4. CASE Kill \/ Establish
  <2>1. used'.placements = used.placements
    BY <1>0, <1>4, UseType DEF Kill, Establish
  <2>2. DOMAIN readings' = {} /\ lying' = lying /\ taps' = taps
    BY <1>4, NothingKnown DEF Kill, Establish, world, history
  <2>3. \A q \in Readers : Own(q)' \subseteq Own(q) \cup {NoCard}
    BY <2>2 DEF Own
  <2>4. QED
    BY <2>1, <2>2, <2>3, OwnKept
<1>5. CASE ListReaders \/ Enumerated \/ StatusFails \/ Failed
  <2>1. readings' = readings /\ lying' = lying /\ taps' = taps /\ used' = used
    BY <1>5 DEF ListReaders, Enumerated, StatusFails, Failed, world, history
  <2>2. DOMAIN readings = {}
    BY <1>5 DEF ListReaders, Enumerated, StatusFails, Failed, OwnInv
  <2>3. \A q \in Readers : Own(q)' \subseteq Own(q) \cup {NoCard}
    BY <2>1 DEF Own
  <2>4. QED
    BY <2>1, <2>2, <2>3, OwnKept
<1>6. CASE StatusChange
  <2>1. lying' = lying /\ taps' = taps /\ used' = used /\ phase' = "look"
    BY <1>6 DEF StatusChange, world, history
  <2>2. \A q \in Readers : Own(q)' \subseteq Own(q) \cup {NoCard}
    BY <1>6, <2>1 DEF StatusChange, Own
  <2>3. QED
    BY <2>1, <2>2, OwnKept
<1>7. ASSUME NEW r \in Readers, Look(r) PROVE OwnInv'
  <2>1. /\ lying' = lying /\ used' = used /\ r \in DOMAIN readings
        /\ DOMAIN readings' = DOMAIN readings \ {r}
        /\ \A q \in DOMAIN readings' : readings'[q] = readings[q]
        /\ phase' # "look" => DOMAIN readings' = {}
    BY <1>7 DEF Look, world, Restrict
  <2>2. \A q \in Readers : Own(q)' \subseteq Own(q)
    BY <2>1 DEF Own
  <2>3. \A n \in Placements : n > used.placements => taps'[n] = taps[n]
    <3>1. readings[r] \in Own(r) /\ readings[r] <= used.placements
      BY <2>1 DEF Own, OwnInv
    <3>2. readings[r] \in Placements \cup {NoCard} /\ used.placements \in Nat
      BY <1>0, <2>1, KnownTypes
    <3>3. \A n \in Placements : n > used.placements => n # readings[r]
      BY <3>1, <3>2 DEF Placements, NoCard
    <3>4. QED
      BY <1>7, <3>3 DEF Look, TypeOK
  <2>4. QED
    BY <2>1, <2>2, <2>3 DEF OwnInv
<1>8. QED
  BY <1>1, <1>2, <1>3, <1>4, <1>5, <1>6, <1>7 DEF Next, World, Core, Monitor
-----------------------------------------------------------------------------
(* The taps a placement may still cause.                                   *)

LEMMA DueCount ==
    ASSUME NEW r \in Readers, NEW n \in Placements
    PROVE  /\ Due(r, n) \in Nat /\ Due(r, n)' \in Nat
           /\ ~Pending(r, n) /\ ~Again(r, n) => Due(r, n) = 0
           /\ Pending(r, n) \/ Again(r, n) => Due(r, n) >= 1
           /\ ~Pending(r, n)' /\ ~Again(r, n)' => Due(r, n)' = 0
           /\ ~Pending(r, n)' \/ ~Again(r, n)' => Due(r, n)' <= 1
           /\ (Pending(r, n)' => Pending(r, n)) /\ (Again(r, n)' => Again(r, n))
                => Due(r, n)' <= Due(r, n)
           /\ (Pending(r, n)' => Pending(r, n)) => Due(r, n)' <= Due(r, n) + 1
           /\ Pending(r, n) /\ ~Pending(r, n)' /\ (Again(r, n)' => Again(r, n))
                => Due(r, n)' + 1 <= Due(r, n)
  BY DEF Due

LEMMA GrantKept ==
    ASSUME TypeOK, TypeOK', GrantInv, NoSpuriousTap, taps' = taps,
           \A n \in Placements : grants'[n] >= grants[n],
           \A r \in Readers, n \in Placements : Due(r, n)' <= Due(r, n)
    PROVE  GrantInv' /\ NoSpuriousTap'
<1>1. ASSUME NEW r \in Readers, NEW n \in Placements PROVE taps'[n] + Due(r, n)' <= grants'[n]
  <2>1. taps[n] + Due(r, n) <= grants[n] /\ Due(r, n)' <= Due(r, n) /\ grants'[n] >= grants[n]
    BY DEF GrantInv
  <2>2. taps[n] \in Nat /\ grants[n] \in Nat /\ grants'[n] \in Nat
    BY DEF TypeOK
  <2>3. QED
    BY <2>1, <2>2, DueCount
<1>2. \A n \in Placements : taps'[n] <= grants'[n]
  BY DEF TypeOK, NoSpuriousTap
<1>3. QED
  BY <1>1, <1>2 DEF GrantInv, NoSpuriousTap

LEMMA GrantStep ==
    TypeOK /\ TypeOK' /\ OwnInv /\ GrantInv /\ NoSpuriousTap /\ [Next]_vars
        => GrantInv' /\ NoSpuriousTap'
<1> SUFFICES ASSUME TypeOK, TypeOK', OwnInv, GrantInv, NoSpuriousTap, [Next]_vars
             PROVE  GrantInv' /\ NoSpuriousTap'
  OBVIOUS
<1>0. ASSUME taps' = taps, grants' = grants,
             \A r \in Readers, n \in Placements :
                /\ Pending(r, n)' => Pending(r, n)
                /\ Again(r, n)' => Again(r, n)
      PROVE  GrantInv' /\ NoSpuriousTap'
  <2>1. \A r \in Readers, n \in Placements : Due(r, n)' <= Due(r, n)
    BY <1>0, DueCount
  <2>2. \A n \in Placements : grants'[n] >= grants[n]
    BY <1>0 DEF TypeOK
  <2>3. QED
    BY <1>0, <2>1, <2>2, GrantKept
<1>1. ASSUME NEW r \in Readers, PutDown(r) PROVE GrantInv' /\ NoSpuriousTap'
  <2>1. PICK new \in Placements :
           /\ new = used.placements + 1 /\ used.placements \in Nat
           /\ lying' = [lying EXCEPT ![r] = new] /\ grants' = [grants EXCEPT ![new] = 1]
    BY <1>1, NextPlacement DEF PutDown
  <2>2. /\ taps' = taps /\ readings' = readings /\ cardState' = cardState /\ plugged' = plugged
        /\ watched' = watched /\ matched' = matched /\ lying[r] = NoCard
    BY <1>1 DEF PutDown, monitor
  <2>3. taps[new] = 0 /\ \A q \in Readers : new \notin Own(q)
    BY <2>1 DEF OwnInv, Own, TypeOK, Placements, NoCard
  <2>4. ASSUME NEW q \in Readers, NEW n \in Placements PROVE taps'[n] + Due(q, n)' <= grants'[n]
    <3>1. Pending(q, n)' => Pending(q, n)
      BY <2>2 DEF Pending, IsEdge
    <3>2. CASE n = new
      <4>1. ~Pending(q, n)
        BY <2>3, <3>2 DEF Pending, Own
      <4>2. Due(q, n)' <= 1
        BY <3>1, <4>1, DueCount
      <4>3. grants'[n] = 1
        BY <2>1, <3>2 DEF TypeOK
      <4>4. QED
        BY <2>2, <2>3, <3>2, <4>2, <4>3, DueCount
    <3>3. CASE n # new
      <4>1. Again(q, n)' => Again(q, n)
        BY <2>1, <2>2, <3>3 DEF Again, KnownEmpty, TypeOK
      <4>2. Due(q, n)' <= Due(q, n)
        BY <3>1, <4>1, DueCount
      <4>3. grants'[n] = grants[n] /\ taps'[n] = taps[n] /\ taps[n] \in Nat /\ grants[n] \in Nat
        BY <2>1, <2>2, <3>3 DEF TypeOK
      <4>4. taps[n] + Due(q, n) <= grants[n]
        BY DEF GrantInv
      <4>5. QED
        BY <4>2, <4>3, <4>4, DueCount
    <3>4. QED
      BY <3>2, <3>3
  <2>5. ASSUME NEW n \in Placements PROVE taps'[n] <= grants'[n]
    BY <2>1, <2>2, <2>3 DEF NoSpuriousTap, TypeOK
  <2>6. QED
    BY <2>4, <2>5 DEF GrantInv, NoSpuriousTap
<1>2. ASSUME NEW r \in Readers, Lift(r) PROVE GrantInv' /\ NoSpuriousTap'
  <2>1. /\ taps' = taps /\ grants' = grants
        /\ readings' = readings /\ cardState' = cardState /\ plugged' = plugged
        /\ watched' = watched /\ matched' = matched /\ lying' = [lying EXCEPT ![r] = NoCard]
    BY <1>2 DEF Lift, monitor
  <2>2. ASSUME NEW q \in Readers, NEW n \in Placements
        PROVE  (Pending(q, n)' => Pending(q, n)) /\ (Again(q, n)' => Again(q, n))
    <3>1. Pending(q, n)' => Pending(q, n)
      BY <2>1 DEF Pending, IsEdge
    <3>2. lying'[q] = n => lying[q] = n
      BY <2>1, PlacementsAreCards DEF TypeOK
    <3>3. QED
      BY <2>1, <3>1, <3>2 DEF Again, KnownEmpty
  <2>3. QED
    BY <1>0, <2>1, <2>2
<1>3. ASSUME NEW r \in Readers, Pull(r) PROVE GrantInv' /\ NoSpuriousTap'
  <2>1. /\ taps' = taps /\ lying' = lying /\ plugged' = plugged \ {r}
        /\ readings' = readings /\ cardState' = cardState
        /\ watched' = watched /\ matched' = matched
    BY <1>3 DEF Pull, monitor
  <2>2. ASSUME NEW n \in Placements
        PROVE  grants'[n] = IF lying[r] = n THEN grants[n] + 1 ELSE grants[n]
    BY <1>3, PlacementsAreCards DEF Pull, TypeOK
  <2>3. ASSUME NEW q \in Readers, NEW n \in Placements PROVE taps'[n] + Due(q, n)' <= grants'[n]
    <3>1. Pending(q, n)' => Pending(q, n)
      BY <2>1 DEF Pending, IsEdge
    <3>2. Again(q, n)' => Again(q, n) \/ (q = r /\ lying[r] = n)
      BY <2>1 DEF Again, KnownEmpty
    <3>3. Due(q, n)' <= IF lying[r] = n THEN Due(q, n) + 1 ELSE Due(q, n)
      BY <3>1, <3>2, DueCount
    <3>4. taps[n] \in Nat /\ grants[n] \in Nat /\ taps[n] + Due(q, n) <= grants[n]
      BY DEF TypeOK, GrantInv
    <3>5. QED
      BY <2>1, <2>2, <3>3, <3>4, DueCount
  <2>4. ASSUME NEW n \in Placements PROVE taps'[n] <= grants'[n]
    <3>1. taps[n] \in Nat /\ grants[n] \in Nat /\ taps[n] <= grants[n] /\ taps'[n] = taps[n]
      BY <2>1 DEF NoSpuriousTap, TypeOK
    <3>2. QED
      BY <2>2, <3>1
  <2>5. QED
    BY <2>3, <2>4 DEF GrantInv, NoSpuriousTap
<1>4. ASSUME NEW r \in Readers, Plug(r) PROVE GrantInv' /\ NoSpuriousTap'
  <2>1. \A q \in Readers, n \in Placements : /\ Pending(q, n)' => Pending(q, n)
                                             /\ Again(q, n)' => Again(q, n)
    BY <1>4 DEF Plug, monitor, Pending, IsEdge, Again, KnownEmpty
  <2>2. QED
    BY <1>0, <1>4, <2>1 DEF Plug, history
<1>5. CASE Outage \/ ServiceReturns \/ OtherSends \/ Take \/ Keyed \/ StatusFails \/ Failed
           \/ UNCHANGED vars
  <2>1. /\ taps' = taps /\ grants' = grants /\ lying' = lying /\ plugged' = plugged
        /\ readings' = readings /\ cardState' = cardState
        /\ watched' = watched /\ matched' = matched
    BY <1>5 DEF Outage, ServiceReturns, OtherSends, Take, Keyed, StatusFails, Failed, vars,
                world, monitor, history
  <2>2. \A q \in Readers, n \in Placements : /\ Pending(q, n)' => Pending(q, n)
                                             /\ Again(q, n)' => Again(q, n)
    BY <2>1 DEF Pending, IsEdge, Again, KnownEmpty
  <2>3. QED
    BY <1>0, <2>1, <2>2
<1>6. CASE Kill \/ Establish
  <2>1. /\ DOMAIN readings' = {} /\ DOMAIN cardState' = {} /\ watched' = {} /\ matched' = {}
        /\ taps' = taps
    BY <1>6, NothingKnown DEF Kill, Establish, history
  <2>2. ASSUME NEW q \in Readers, NEW n \in Placements PROVE Due(q, n)' = 0
    <3>1. ~Pending(q, n)' /\ ~Again(q, n)'
      BY <2>1 DEF Pending, Again, KnownEmpty
    <3>2. QED
      BY <3>1, DueCount
  <2>3. \A n \in Placements : grants'[n] \in {taps[n], grants[n]}
    BY <1>6 DEF Kill, Establish, history
  <2>4. ASSUME NEW n \in Placements PROVE taps'[n] <= grants'[n]
    <3>1. taps[n] \in Nat /\ taps[n] <= grants[n] /\ taps'[n] = taps[n]
      BY <2>1 DEF NoSpuriousTap, TypeOK
    <3>2. QED
      BY <2>3, <3>1
  <2>5. QED
    BY <2>2, <2>4 DEF GrantInv, NoSpuriousTap, TypeOK
<1>7. CASE ListReaders
  <2>1. \A q \in Readers, n \in Placements : /\ Pending(q, n)' => Pending(q, n)
                                             /\ Again(q, n)' => Again(q, n)
    BY <1>7 DEF ListReaders, world, Pending, IsEdge, Again, KnownEmpty
  <2>2. QED
    BY <1>0, <1>7, <2>1 DEF ListReaders, history
<1>8. CASE Enumerated
  <2>1. /\ readings' = readings /\ DOMAIN readings = {} /\ lying' = lying /\ plugged' = plugged
        /\ watched' = matched /\ matched' = matched /\ taps' = taps /\ grants' = grants
    BY <1>8 DEF Enumerated, OwnInv, world, history
  <2>2. DOMAIN cardState' \subseteq DOMAIN cardState
        /\ \A q \in DOMAIN cardState' : cardState'[q] = cardState[q]
    BY <1>8 DEF Enumerated, Retained, Restrict
  <2>3. \A q \in Readers, n \in Placements : /\ Pending(q, n)' => Pending(q, n)
                                             /\ Again(q, n)' => Again(q, n)
    BY <2>1, <2>2 DEF Pending, Again, KnownEmpty
  <2>4. QED
    BY <1>0, <2>1, <2>3
<1>9. CASE StatusChange
  <2>1. /\ DOMAIN readings = {} /\ DOMAIN readings' = watched
        /\ \A q \in watched : readings'[q] = IF q \in plugged THEN lying[q] ELSE NoCard
        /\ lying' = lying /\ plugged' = plugged /\ cardState' = cardState
        /\ watched' = watched /\ matched' = matched /\ taps' = taps /\ grants' = grants
    BY <1>9 DEF StatusChange, OwnInv, world, history
  <2>2. ASSUME NEW q \in Readers, NEW n \in Placements PROVE Due(q, n)' <= Due(q, n)
    <3>1. Pending(q, n)' => Again(q, n) /\ ~Again(q, n)'
      BY <2>1, PlacementsAreCards DEF Pending, IsEdge, Again, KnownEmpty
    <3>2. Again(q, n)' => Again(q, n)
      BY <2>1, KnownTypes, PlacementsAreCards DEF Again, KnownEmpty
    <3>3. QED
      BY <3>1, <3>2, DueCount
  <2>3. \A n \in Placements : grants'[n] >= grants[n]
    BY <2>1 DEF TypeOK
  <2>4. QED
    BY <2>1, <2>2, <2>3, GrantKept
<1>10. ASSUME NEW r \in Readers, Look(r) PROVE GrantInv' /\ NoSpuriousTap'
  <2>1. /\ lying' = lying /\ plugged' = plugged /\ watched' = watched /\ matched' = matched
        /\ grants' = grants /\ r \in DOMAIN readings
        /\ DOMAIN readings' = DOMAIN readings \ {r}
        /\ \A q \in DOMAIN readings' : readings'[q] = readings[q]
        /\ DOMAIN cardState' = DOMAIN cardState \cup {r}
        /\ \A q \in DOMAIN cardState' :
              cardState'[q] = IF q = r THEN readings[r] # NoCard ELSE cardState[q]
    BY <1>10 DEF Look, world, Restrict
  <2>2. ASSUME NEW q \in Readers, NEW n \in Placements
        PROVE  (Pending(q, n)' => Pending(q, n)) /\ (Again(q, n)' => Again(q, n))
    <3>1. Pending(q, n)' => Pending(q, n)
      BY <2>1 DEF Pending, IsEdge
    <3>2. Again(q, n)' => Again(q, n)
      BY <2>1 DEF Again, KnownEmpty
    <3>3. QED
      BY <3>1, <3>2
  <2>3. CASE IsEdge(r)
    <3>1. PICK sent \in Placements :
             readings[r] = sent /\ taps' = [taps EXCEPT ![sent] = @ + 1]
      BY <1>10, <2>1, <2>3, KnownTypes DEF Look, IsEdge
    <3>2. Pending(r, sent) /\ ~Pending(r, sent)' /\ sent \in Own(r)
      BY <2>1, <2>3, <3>1 DEF Pending, Own
    <3>3. ASSUME NEW q \in Readers \ {r} PROVE Due(q, sent) = 0
      <4>1. sent \notin Own(q)
        BY <3>2, PlacementsAreCards DEF OwnInv
      <4>2. ~Pending(q, sent) /\ ~Again(q, sent)
        BY <4>1 DEF Pending, Again, Own
      <4>3. QED
        BY <4>2, DueCount
    <3>4. taps[sent] + 1 <= grants[sent]
      <4>1. Due(r, sent) >= 1 /\ taps[sent] + Due(r, sent) <= grants[sent]
        BY <3>2, DueCount DEF GrantInv
      <4>2. QED
        BY <4>1, DueCount DEF TypeOK
    <3>5. ASSUME NEW q \in Readers, NEW n \in Placements PROVE taps'[n] + Due(q, n)' <= grants'[n]
      <4>1. Due(q, n)' <= Due(q, n) /\ taps[n] + Due(q, n) <= grants[n]
        BY <2>2, DueCount DEF GrantInv
      <4>2. taps[n] \in Nat /\ grants[n] \in Nat /\ taps'[n] = taps[n] + (IF n = sent THEN 1 ELSE 0)
        BY <3>1 DEF TypeOK
      <4>3. CASE n # sent
        BY <2>1, <4>1, <4>2, <4>3, DueCount
      <4>4. CASE n = sent /\ q = r
        <5>1. Due(q, n)' + 1 <= Due(q, n)
          BY <2>2, <3>2, <4>4, DueCount
        <5>2. QED
          BY <2>1, <4>1, <4>2, <4>4, <5>1, DueCount
      <4>5. CASE n = sent /\ q # r
        <5>1. Due(q, n)' = 0
          BY <3>3, <4>1, <4>5, DueCount
        <5>2. QED
          BY <2>1, <3>4, <4>2, <4>5, <5>1
      <4>6. QED
        BY <4>3, <4>4, <4>5
    <3>6. \A n \in Placements : taps'[n] <= grants'[n]
      BY <2>1, <3>1, <3>4 DEF NoSpuriousTap, TypeOK
    <3>7. QED
      BY <3>5, <3>6 DEF GrantInv, NoSpuriousTap
  <2>4. CASE ~IsEdge(r)
    BY <1>0, <1>10, <2>1, <2>2, <2>4 DEF Look
  <2>5. QED
    BY <2>3, <2>4
<1>11. QED
  BY <1>1, <1>2, <1>3, <1>4, <1>5, <1>6, <1>7, <1>8, <1>9, <1>10 DEF Next, World, Core, Monitor
-----------------------------------------------------------------------------
(* The card that is keyed.                                                 *)

LEMMA SeenKept ==
    ASSUME SeenInv, WrongOnlyIfMoved, keying' # None => keying'.kind = "card",
           \A r \in Readers, n \in Placements : Seen(r, n)' => Seen(r, n),
           moved' = moved, plugged \subseteq plugged', lying' = lying, wrong' = wrong
    PROVE  SeenInv' /\ WrongOnlyIfMoved'
<1>1. ASSUME NEW r \in Readers, NEW n \in Placements, Seen(r, n)'
      PROVE  n \in moved' \/ (r \in plugged' /\ lying'[r] = n)
  BY <1>1 DEF SeenInv
<1>2. QED
  BY <1>1 DEF SeenInv, WrongOnlyIfMoved

\* What was seen, as far as it depends on nothing but the queue.
LEMMA SeenInQueue ==
    ASSUME keying' = keying, readings' = readings, NEW r, NEW n, Seen(r, n)',
           \A i \in DOMAIN inbox' :
              inbox'[i] = Card(r, n) => \E j \in DOMAIN inbox : inbox[j] = Card(r, n)
    PROVE  Seen(r, n)
  BY DEF Seen

\* A message that is no card, or a card that was read, shows nothing new.
LEMMA SeenAppend ==
    ASSUME TypeOK, NEW m \in Message, inbox' = Append(inbox, m), NEW r, NEW n
    PROVE  \A i \in DOMAIN inbox' :
              inbox'[i] = Card(r, n)
                 => m = Card(r, n) \/ \E j \in DOMAIN inbox : inbox[j] = Card(r, n)
<1>1. /\ DOMAIN inbox = 1 .. Len(inbox) /\ Len(inbox) \in Nat
      /\ DOMAIN inbox' = 1 .. Len(inbox) + 1 /\ inbox'[Len(inbox) + 1] = m
      /\ \A j \in 1 .. Len(inbox) : inbox'[j] = inbox[j]
  BY DEF TypeOK
<1>2. ASSUME NEW i \in DOMAIN inbox', inbox'[i] = Card(r, n), m # Card(r, n)
      PROVE  \E j \in DOMAIN inbox : inbox[j] = Card(r, n)
  <2>1. i # Len(inbox) + 1
    BY <1>1, <1>2
  <2>2. i \in DOMAIN inbox
    BY <1>1, <2>1
  <2>3. inbox[i] = Card(r, n)
    BY <1>1, <1>2, <2>2
  <2>4. QED
    BY <2>2, <2>3
<1>3. QED
  BY <1>2

LEMMA SeenStep == TypeOK /\ SeenInv /\ WrongOnlyIfMoved /\ [Next]_vars
                      => SeenInv' /\ WrongOnlyIfMoved'
<1> SUFFICES ASSUME TypeOK, SeenInv, WrongOnlyIfMoved, [Next]_vars
             PROVE  SeenInv' /\ WrongOnlyIfMoved'
  OBVIOUS
<1>1. ASSUME NEW r \in Readers, PutDown(r) \/ Lift(r) \/ Pull(r)
      PROVE  SeenInv' /\ WrongOnlyIfMoved'
  <2>1. /\ inbox' = inbox /\ keying' = keying /\ readings' = readings /\ wrong' = wrong
        /\ moved \subseteq moved'
    BY <1>1 DEF PutDown, Lift, Pull, monitor, core
  <2>2. ASSUME NEW q \in Readers, NEW n \in Placements, q \in plugged, lying[q] = n
        PROVE  n \in moved' \/ (q \in plugged' /\ lying'[q] = n)
    BY <1>1, <2>2, PlacementsAreCards DEF PutDown, Lift, Pull, TypeOK
  <2>3. ASSUME NEW q \in Readers, NEW n \in Placements, Seen(q, n)'
        PROVE  n \in moved' \/ (q \in plugged' /\ lying'[q] = n)
    <3>1. Seen(q, n)
      BY <2>1, <2>3 DEF Seen
    <3>2. QED
      BY <2>1, <2>2, <3>1 DEF SeenInv
  <2>4. QED
    BY <2>1, <2>3 DEF SeenInv, WrongOnlyIfMoved
<1>2. CASE (\E r \in Readers : Plug(r)) \/ Outage \/ ServiceReturns \/ ListReaders \/ StatusFails
           \/ UNCHANGED vars
  <2>1. /\ inbox' = inbox /\ keying' = keying /\ readings' = readings /\ wrong' = wrong
        /\ moved' = moved /\ plugged \subseteq plugged' /\ lying' = lying
    BY <1>2 DEF Plug, Outage, ServiceReturns, ListReaders, StatusFails, vars, world, monitor,
                core, history
  <2>2. \A r \in Readers, n \in Placements : Seen(r, n)' => Seen(r, n)
    BY <2>1 DEF Seen
  <2>3. QED
    BY <2>1, <2>2, SeenKept DEF SeenInv
<1>3. CASE Kill \/ Establish
  <2>1. /\ inbox' \in {inbox, <<>>} /\ keying' \in {keying, None} /\ DOMAIN readings' = {}
        /\ wrong' = wrong /\ moved' = moved /\ plugged' = plugged /\ lying' = lying
    BY <1>3, NothingKnown DEF Kill, Establish, world, core, history
  <2>2. ASSUME NEW r \in Readers, NEW n \in Placements, Seen(r, n)' PROVE Seen(r, n)
    BY <2>1, <2>2 DEF Seen
  <2>3. QED
    BY <2>1, <2>2, SeenKept DEF SeenInv
<1>4. ASSUME NEW m \in Message, m.kind # "card", inbox' \in {inbox, Append(inbox, m)},
             keying' = keying, readings' = readings, wrong' = wrong, moved' = moved,
             plugged' = plugged, lying' = lying
      PROVE  SeenInv' /\ WrongOnlyIfMoved'
  <2>1. ASSUME NEW r \in Readers, NEW n \in Placements, Seen(r, n)' PROVE Seen(r, n)
    <3>1. m # Card(r, n)
      BY <1>4 DEF Card
    <3>2. \A i \in DOMAIN inbox' :
             inbox'[i] = Card(r, n) => \E j \in DOMAIN inbox : inbox[j] = Card(r, n)
      BY <1>4, <3>1, SeenAppend
    <3>3. QED
      BY <1>4, <2>1, <3>2, SeenInQueue
  <2>2. QED
    BY <1>4, <2>1, SeenKept DEF SeenInv
<1>5. CASE OtherSends
  <2>1. Other \in Message /\ Other.kind # "card"
    BY DEF Other, Message
  <2>2. QED
    BY <1>4, <1>5, <2>1 DEF OtherSends, world, monitor, core, history
<1>6. CASE Enumerated \/ Failed
  <2>1. PICK p \in BOOLEAN : ReportPresence(p)
    BY <1>6 DEF Enumerated, Failed
  <2>2. Presence(p) \in Message /\ Presence(p).kind # "card"
    BY DEF Presence, Message
  <2>3. inbox' \in {inbox, Append(inbox, Presence(p))}
    BY <2>1, ReportType
  <2>4. QED
    BY <1>4, <1>6, <2>2, <2>3 DEF Enumerated, Failed, world, core, history
<1>7. CASE Take
  <2>1. /\ inbox # <<>> /\ keying = None /\ inbox' = Tail(inbox) /\ readings' = readings
        /\ keying' \in {None, Head(inbox)} /\ (keying' # None => keying'.kind = "card")
        /\ wrong' = wrong /\ moved' = moved /\ plugged' = plugged /\ lying' = lying
    BY <1>7 DEF Take, world, monitor, history
  <2>2. /\ 1 \in DOMAIN inbox /\ Head(inbox) = inbox[1]
        /\ \A i \in DOMAIN inbox' : i + 1 \in DOMAIN inbox /\ inbox'[i] = inbox[i + 1]
    BY <2>1 DEF TypeOK
  <2>3. ASSUME NEW r \in Readers, NEW n \in Placements, Seen(r, n)' PROVE Seen(r, n)
    <3>1. CASE \E i \in DOMAIN inbox' : inbox'[i] = Card(r, n)
      BY <2>2, <3>1 DEF Seen
    <3>2. CASE keying' # None /\ keying' = Card(r, n)
      BY <2>1, <2>2, <3>2 DEF Seen
    <3>3. CASE r \in DOMAIN readings' /\ readings'[r] = n
      BY <2>1, <3>3 DEF Seen
    <3>4. QED
      BY <2>3, <3>1, <3>2, <3>3 DEF Seen
  <2>4. QED
    BY <2>1, <2>3, SeenKept
<1>8. CASE Keyed
  <2>1. PICK r \in Readers, n \in Placements : keying = Card(r, n)
    BY <1>8 DEF Keyed, SeenInv, TypeOK, Message, Presence, Other
  <2>2. keying.reader = r /\ keying.placement = n /\ keying # None
    BY <1>8, <2>1 DEF Card, Keyed
  <2>3. n \in moved \/ (r \in plugged /\ lying[r] = n)
    BY <2>1, <2>2 DEF SeenInv, Seen
  <2>4. wrong' \subseteq moved
    BY <1>8, <2>2, <2>3 DEF Keyed, WrongOnlyIfMoved
  <2>5. /\ keying' = None /\ inbox' = inbox /\ readings' = readings
        /\ moved' = moved /\ plugged' = plugged /\ lying' = lying
    BY <1>8 DEF Keyed, world, monitor
  <2>6. ASSUME NEW q \in Readers, NEW k \in Placements, Seen(q, k)' PROVE Seen(q, k)
    BY <2>5, <2>6 DEF Seen
  <2>7. QED
    BY <2>4, <2>5, <2>6 DEF SeenInv, WrongOnlyIfMoved
<1>9. CASE StatusChange
  <2>1. /\ inbox' = inbox /\ keying' = keying /\ wrong' = wrong /\ moved' = moved
        /\ plugged' = plugged /\ lying' = lying
        /\ \A r \in DOMAIN readings' : readings'[r] = IF r \in plugged THEN lying[r] ELSE NoCard
    BY <1>9 DEF StatusChange, world, core, history
  <2>2. ASSUME NEW r \in Readers, NEW n \in Placements, Seen(r, n)'
        PROVE  n \in moved' \/ (r \in plugged' /\ lying'[r] = n)
    <3>1. CASE r \in DOMAIN readings' /\ readings'[r] = n
      BY <2>1, <3>1, PlacementsAreCards
    <3>2. CASE Seen(r, n)
      BY <2>1, <3>2 DEF SeenInv
    <3>3. QED
      BY <2>1, <2>2, <3>1, <3>2 DEF Seen
  <2>3. QED
    BY <2>1, <2>2 DEF SeenInv, WrongOnlyIfMoved
<1>10. ASSUME NEW r \in Readers, Look(r) PROVE SeenInv' /\ WrongOnlyIfMoved'
  <2>1. /\ keying' = keying /\ wrong' = wrong /\ moved' = moved
        /\ plugged' = plugged /\ lying' = lying /\ r \in DOMAIN readings
        /\ DOMAIN readings' = DOMAIN readings \ {r}
        /\ \A q \in DOMAIN readings' : readings'[q] = readings[q]
    BY <1>10 DEF Look, world, core, Restrict
  <2>2. ASSUME NEW q \in Readers, NEW n \in Placements, Seen(q, n)' PROVE Seen(q, n)
    <3>1. CASE \E i \in DOMAIN inbox' : inbox'[i] = Card(q, n)
      <4>1. CASE IsEdge(r)
        <5>1. readings[r] \in Placements
          BY <2>1, <4>1, KnownTypes DEF IsEdge
        <5>2. TapOf(r) \in Message /\ inbox' = Append(inbox, TapOf(r))
          BY <1>10, <4>1, <5>1 DEF Look, Send, TapOf, Message
        <5>3. TapOf(r) = Card(q, n) => q = r /\ readings[r] = n
          BY DEF TapOf, Card
        <5>4. TapOf(r) = Card(q, n) \/ \E j \in DOMAIN inbox : inbox[j] = Card(q, n)
          BY <3>1, <5>2, SeenAppend
        <5>5. QED
          BY <2>1, <5>3, <5>4 DEF Seen
      <4>2. CASE ~IsEdge(r)
        BY <1>10, <3>1, <4>2 DEF Look, Seen
      <4>3. QED
        BY <4>1, <4>2
    <3>2. CASE keying' # None /\ keying' = Card(q, n)
      BY <2>1, <3>2 DEF Seen
    <3>3. CASE q \in DOMAIN readings' /\ readings'[q] = n
      BY <2>1, <3>3 DEF Seen
    <3>4. QED
      BY <2>2, <3>1, <3>2, <3>3 DEF Seen
  <2>3. QED
    BY <2>1, <2>2, SeenKept DEF SeenInv
<1>11. QED
  BY <1>1, <1>2, <1>3, <1>5, <1>6, <1>7, <1>8, <1>9, <1>10 DEF Next, World, Core, Monitor
-----------------------------------------------------------------------------
(* The theorems.                                                           *)

LEMMA InvInit == Init => Inv
<1> SUFFICES ASSUME Init PROVE Inv
  OBVIOUS
<1>1. TypeOK
  BY TypeInit
<1>2. /\ DOMAIN readings = {} /\ DOMAIN cardState = {} /\ watched = {} /\ matched = {}
      /\ lying = [r \in Readers |-> NoCard] /\ used.placements = 0
  BY DEF Init, Empty, Limited
<1>3. /\ inbox = <<>> /\ keying = None /\ reported = None /\ phase = "establish" /\ wrong = {}
      /\ taps = [n \in Placements |-> 0] /\ grants = taps
  BY DEF Init
<1>4. OwnInv
  BY <1>2, <1>3 DEF OwnInv, Own, NoCard
<1>5. ReportInv /\ PresenceFirst
  <2>1. None # TRUE
    BY Zenon, ReaderMonitorAssumption
  <2>2. PresenceFirst
    BY <1>3 DEF PresenceFirst
  <2>3. QED
    BY <1>3, <2>1, <2>2 DEF ReportInv
<1>6. NoSpuriousTap
  BY <1>3 DEF NoSpuriousTap
<1>7. GrantInv
  <2>1. ASSUME NEW r \in Readers, NEW n \in Placements PROVE ~Pending(r, n) /\ ~Again(r, n)
    BY <1>2 DEF Pending, Again, KnownEmpty
  <2>2. \A r \in Readers, n \in Placements : Due(r, n) = 0
    BY <2>1, DueCount
  <2>3. QED
    BY <1>3, <2>2 DEF GrantInv
<1>8. SeenInv /\ WrongOnlyIfMoved
  BY <1>2, <1>3 DEF SeenInv, Seen, WrongOnlyIfMoved
<1>9. QED
  BY <1>1, <1>4, <1>5, <1>6, <1>7, <1>8 DEF Inv

LEMMA InvHolds == Spec => []Inv
<1>1. Inv /\ [Next]_vars => Inv'
  <2> SUFFICES ASSUME Inv, [Next]_vars PROVE Inv'
    OBVIOUS
  <2>1. TypeOK' /\ OwnInv'
    BY TypeStep, OwnStep DEF Inv
  <2>2. ReportInv' /\ PresenceFirst'
    BY PresenceStep DEF Inv
  <2>3. GrantInv' /\ NoSpuriousTap'
    BY <2>1, GrantStep DEF Inv
  <2>4. SeenInv' /\ WrongOnlyIfMoved'
    BY SeenStep DEF Inv
  <2>5. QED
    BY <2>1, <2>2, <2>3, <2>4 DEF Inv
<1>2. QED
  BY InvInit, <1>1, PTL DEF Spec

\* Every variable keeps its type; of the knowledge of the monitor (card_state, the
\* states being looked at), that it is about readers being watched.
THEOREM TypeCorrect == Spec => []TypeOK
<1>1. Inv => TypeOK
  BY DEF Inv
<1>2. QED
  BY InvHolds, <1>1, PTL

\* The core hears of a reader before it hears of a card on one, after whatever
\* errors, kills and full queues: no tap is dropped for want of the presence.
THEOREM PresenceBeforeCard == Spec => []PresenceFirst
<1>1. Inv => PresenceFirst
  BY DEF Inv
<1>2. QED
  BY InvHolds, <1>1, PTL

\* Each placement of a card is presented at most once, and once more for each time
\* its reader was pulled under it; one found lying there at a start, never.
THEOREM TapsGranted == Spec => []NoSpuriousTap
<1>1. Inv => NoSpuriousTap
  BY DEF Inv
<1>2. QED
  BY InvHolds, <1>1, PTL

\* Whatever is keyed in the place of the presented card, that card was lifted, or its
\* reader pulled, after it was seen.
THEOREM WrongMoved == Spec => []WrongOnlyIfMoved
<1>1. Inv => WrongOnlyIfMoved
  BY DEF Inv
<1>2. QED
  BY InvHolds, <1>1, PTL
-----------------------------------------------------------------------------
(* When a card must be lifted before it counts again.                      *)

\* Nothing but a pull grants a placement a second presentation.
PullInv == used.pulls = 0 => \A n \in Placements : grants[n] <= 1

LEMMA PullsGrow ==
    ASSUME TypeOK, NEW w \in Limited \ {"all"}, Use(w), used'.pulls = 0
    PROVE  used.pulls = 0 /\ w # "pulls"
<1> DEFINE one == [used EXCEPT ![w] = @ + 1]
<1>1. {"pulls", "all"} \subseteq Limited /\ used \in [Limited -> Nat]
  BY DEF Limited, TypeOK
<1>2. one \in [Limited -> Nat] /\ one.pulls = used.pulls + (IF w = "pulls" THEN 1 ELSE 0)
  BY <1>1
<1>3. used' = [one EXCEPT !.all = @ + 1]
  BY DEF Use
<1> HIDE DEF one
<1>4. used'.pulls = one.pulls /\ used.pulls \in Nat
  BY <1>1, <1>2, <1>3
<1>5. QED
  BY <1>2, <1>4

LEMMA PullStep == TypeOK /\ NoSpuriousTap /\ PullInv /\ [Next]_vars => PullInv'
<1> SUFFICES ASSUME TypeOK, NoSpuriousTap, PullInv, [Next]_vars, used'.pulls = 0,
                    NEW n \in Placements
             PROVE  grants'[n] <= 1
  BY DEF PullInv
<1>0. {"placements", "pulls", "outages", "others", "kills"} \subseteq Limited \ {"all"}
  BY DEF Limited
<1>1. ASSUME grants' = grants, used.pulls = 0 PROVE grants'[n] <= 1
  BY <1>1 DEF PullInv
<1>2. ASSUME NEW r \in Readers, PutDown(r) PROVE grants'[n] <= 1
  <2>1. used.pulls = 0
    BY <1>0, <1>2, PullsGrow DEF PutDown
  <2>2. grants'[n] = IF n = used.placements + 1 THEN 1 ELSE grants[n]
    BY <1>2 DEF PutDown, TypeOK
  <2>3. grants[n] <= 1
    BY <2>1 DEF PullInv
  <2>4. QED
    BY <2>2, <2>3
<1>3. ASSUME NEW r \in Readers PROVE ~Pull(r)
  BY <1>0, PullsGrow DEF Pull
<1>4. CASE Kill
  <2>1. used.pulls = 0
    BY <1>0, <1>4, PullsGrow DEF Kill
  <2>2. grants'[n] \in {taps[n], grants[n]}
    BY <1>4 DEF Kill
  <2>3. taps[n] <= grants[n] /\ grants[n] <= 1 /\ taps[n] \in Nat /\ grants[n] \in Nat
    BY <2>1 DEF PullInv, NoSpuriousTap, TypeOK
  <2>4. QED
    BY <2>2, <2>3
<1>5. CASE Outage \/ OtherSends
  <2>1. used.pulls = 0
    BY <1>0, <1>5, PullsGrow DEF Outage, OtherSends
  <2>2. QED
    BY <1>1, <1>5, <2>1 DEF Outage, OtherSends, history
<1>6. ASSUME NEW r \in Readers, Lift(r) \/ Plug(r) \/ Look(r) PROVE grants'[n] <= 1
  BY <1>1, <1>6 DEF Lift, Plug, Look, history
<1>7. CASE ServiceReturns \/ Core \/ Establish \/ ListReaders \/ Enumerated \/ StatusChange
           \/ StatusFails \/ Failed \/ UNCHANGED vars
  BY <1>1, <1>7
  DEF ServiceReturns, Core, Take, Keyed, Establish, ListReaders, Enumerated, StatusChange,
      StatusFails, Failed, vars, history
<1>8. QED
  BY <1>2, <1>3, <1>4, <1>5, <1>6, <1>7 DEF Next, World, Monitor

OnceWithoutPulls == used.pulls = 0 => OnceUntilLifted

\* The claim of reader/mod.rs, that a card returns to EMPTY before it counts again, holds for
\* as long as no reader is pulled: errors, outages, restarts and readers that come alone do
\* not present a card twice.
THEOREM LiftedBetweenTaps == Spec => []OnceWithoutPulls
<1>1. Init => PullInv
  <2>1. ASSUME Init, NEW n \in Placements PROVE grants[n] <= 1
    BY <2>1 DEF Init
  <2>2. QED
    BY <2>1 DEF PullInv
<1>2. TypeOK /\ NoSpuriousTap /\ PullInv => OnceWithoutPulls
  <2>1. SUFFICES ASSUME TypeOK, NoSpuriousTap, PullInv, used.pulls = 0, NEW n \in Placements
                 PROVE  taps[n] <= 1
    BY DEF OnceWithoutPulls, OnceUntilLifted
  <2>2. taps[n] <= grants[n] /\ grants[n] <= 1 /\ taps[n] \in Nat /\ grants[n] \in Nat
    BY <2>1 DEF NoSpuriousTap, PullInv, TypeOK
  <2>3. QED
    BY <2>2
<1>3. Inv => TypeOK /\ NoSpuriousTap
  BY DEF Inv
<1>4. QED
  BY <1>1, <1>2, <1>3, InvHolds, PullStep, PTL DEF Spec
-----------------------------------------------------------------------------
(* The gate.                                                               *)

\* Only the monitor sends, and cards only after it reported a reader.
Wired ==
    /\ TypeOK /\ OwnInv
    /\ GrantInv /\ NoSpuriousTap
    /\ SeenInv /\ WrongOnlyIfMoved
    /\ phase \in {"wait", "look"} => reported = TRUE
    /\ \A i \in DOMAIN inbox : inbox[i].kind # "other"

\* The presentations that were read when nothing failed, by the stage the judge is in.
Expected(s) == IF s \in {"reader", "phantom", "tap"} THEN 0
               ELSE IF s \in {"held", "removal", "retap"} THEN 1 ELSE 2

EarnedInv ==
    /\ stage \in Probe!Awaiting \cup Probe!Absorbing \cup {"done"}
    /\ Taps \in 0 .. Probe!TooMany
    /\ again \in BOOLEAN /\ unplugged \in BOOLEAN
    /\ failures = {} =>
          /\ ~again => Taps = Expected(stage)
          /\ again => stage \in Probe!Absorbing
          /\ stage \in {"replug", "done"} => unplugged
          /\ stage = "done" => last = "present"
    /\ code = 0 => stage = "done" /\ failures = {}

\* A presentation of the placement: what was read and what is queued, in one line.
Holds(k, n) ==
    IF k > 0 THEN k \in DOMAIN inbox /\ inbox[k].kind = "card" /\ inbox[k].placement = n
             ELSE /\ Len(presented) + k \in DOMAIN presented
                  /\ presented[Len(presented) + k] = n

CountInv ==
    /\ presented \in Seq(Placements)
    /\ \A n \in Placements : \A k, l \in Int :
          Holds(k, n) /\ Holds(l, n) => taps[n] >= IF k = l THEN 1 ELSE 2

\* As long as no reader was pulled and the service did not fail, a reader that was there
\* is there, and no message says otherwise once one said so.
Calm == used.pulls = 0 /\ used.outages = 0

CalmMonitor ==
    /\ service /\ phase # "failed"
    /\ matched \subseteq plugged /\ watched \subseteq plugged
    /\ reported = TRUE => plugged # {} /\ (phase = "listed" => matched # {})

CalmQueue ==
    /\ reported # TRUE => \A i \in DOMAIN inbox : inbox[i] # Presence(TRUE)
    /\ \A i, j \in DOMAIN inbox :
          i < j /\ inbox[i] = Presence(TRUE) => inbox[j] # Presence(FALSE)
    /\ last = "present" =>
          reported = TRUE /\ \A i \in DOMAIN inbox : inbox[i] # Presence(FALSE)

CalmJudge ==
    failures = {} => /\ stage # "reader" => last = "present"
                     /\ stage \notin {"replug", "done"}

CalmInv == Calm => CalmMonitor /\ CalmQueue /\ CalmJudge

\* What a step of the world or of the monitor does to the queue.
Quiet == inbox' = inbox /\ reported' = reported /\ taps' = taps
Reported(p) == /\ reported # p /\ reported' = p /\ Send(Presence(p)) /\ taps' = taps
Presented(r, n) == /\ reported = TRUE /\ reported' = reported /\ Send(Card(r, n))
                   /\ taps' = [taps EXCEPT ![n] = @ + 1]

LEMMA ReportSends ==
    ASSUME NEW p \in BOOLEAN, ReportPresence(p), taps' = taps PROVE Quiet \/ Reported(p)
  BY DEF ReportPresence, Quiet, Reported

LEMMA StepSends ==
    ASSUME Wired, WorldSteps \/ MonitorSteps
    PROVE  /\ \/ Quiet
              \/ \E p \in BOOLEAN : Reported(p)
              \/ \E r \in Readers, n \in Placements : Presented(r, n)
           /\ phase' \in {"wait", "look"} => reported' = TRUE
<1> DEFINE Sends == \/ Quiet
                    \/ \E p \in BOOLEAN : Reported(p)
                    \/ \E r \in Readers, n \in Placements : Presented(r, n)
<1>0. Quiet => Sends
  OBVIOUS
<1>1. CASE WorldSteps
  BY <1>0, <1>1 DEF WorldSteps, World, PutDown, Lift, Pull, Plug, Outage, ServiceReturns, monitor,
                    history, Quiet, Wired
<1>2. CASE Establish \/ ListReaders \/ StatusChange \/ StatusFails
  BY <1>0, <1>2 DEF Establish, ListReaders, StatusChange, StatusFails, history, Quiet, Wired
<1>3. CASE Enumerated \/ Failed
  <2>1. PICK p \in BOOLEAN : ReportPresence(p) /\ (phase' \in {"wait", "look"} => p)
    BY <1>3 DEF Enumerated, Failed
  <2>2. taps' = taps
    BY <1>3 DEF Enumerated, Failed, history
  <2>3. reported' = p
    BY <2>1 DEF ReportPresence
  <2>4. QED
    BY <2>1, <2>2, <2>3, ReportSends
<1>4. ASSUME NEW r \in Readers, Look(r)
      PROVE  Sends /\ (phase' \in {"wait", "look"} => reported' = TRUE)
  <2>1. reported = TRUE /\ reported' = reported
    BY <1>4 DEF Look, Wired
  <2>2. CASE IsEdge(r)
    <3>1. readings[r] \in Placements
      BY <1>4, <2>2, KnownTypes DEF Look, IsEdge, Wired
    <3>2. Presented(r, readings[r])
      BY <1>4, <2>1, <2>2 DEF Look, TapOf, Presented
    <3>3. QED
      BY <2>1, <3>1, <3>2
  <2>3. CASE ~IsEdge(r)
    BY <1>0, <1>4, <2>1, <2>3 DEF Look, Quiet
  <2>4. QED
    BY <2>2, <2>3
<1>5. QED
  BY <1>1, <1>2, <1>3, <1>4 DEF MonitorSteps, Monitor

\* The gate's steps, as steps of ReaderMonitor.
LEMMA StepsOfMonitor == WorldSteps \/ MonitorSteps => Next /\ UNCHANGED judge
  BY DEF WorldSteps, MonitorSteps, Next

\* What a step of the judge does to the queue.
LEMMA JudgeTakes ==
    ASSUME TypeOK, JudgeSteps
    PROVE  /\ inbox' \in Seq(Message) /\ Len(inbox') <= Capacity
           /\ \/ inbox' = inbox /\ presented' = presented
              \/ Receive /\ DOMAIN inbox' = 1 .. Len(inbox) - 1
           /\ \A i \in DOMAIN inbox' : inbox'[i] \in {inbox[j] : j \in DOMAIN inbox}
           /\ UNCHANGED <<world, monitor, core, history, used>>
<1>0. inbox \in Seq(Message) /\ Len(inbox) <= Capacity
  BY DEF TypeOK
<1>1. CASE UNCHANGED <<inbox, presented>>
  BY <1>0, <1>1 DEF JudgeSteps
<1>2. CASE Receive
  <2>1. /\ inbox # <<>> /\ inbox' = Tail(inbox)
    BY <1>2 DEF Receive
  <2>2. /\ inbox' \in Seq(Message) /\ Len(inbox') = Len(inbox) - 1 /\ Len(inbox) \in Nat
        /\ DOMAIN inbox' = 1 .. Len(inbox) - 1 /\ DOMAIN inbox = 1 .. Len(inbox)
        /\ \A i \in DOMAIN inbox' : inbox'[i] = inbox[i + 1]
    BY <1>0, <2>1
  <2>3. Len(inbox') <= Capacity
    BY <1>0, <2>2, ReaderMonitorAssumption
  <2>4. \A i \in DOMAIN inbox' : i + 1 \in DOMAIN inbox
    BY <2>2
  <2>5. QED
    BY <1>2, <2>2, <2>3, <2>4 DEF JudgeSteps
<1>3. QED
  BY <1>1, <1>2 DEF JudgeSteps

LEMMA WiredInit == GateInit => Wired
<1> SUFFICES ASSUME GateInit PROVE Wired
  OBVIOUS
<1>1. Inv /\ inbox = <<>> /\ phase = "establish"
  BY InvInit DEF GateInit, Init
<1>2. QED
  BY <1>1 DEF Inv, Wired

LEMMA WiredStep == Wired /\ [GateNext]_gateVars => Wired'
<1> SUFFICES ASSUME Wired, [GateNext]_gateVars PROVE Wired'
  OBVIOUS
<1>1. CASE WorldSteps \/ MonitorSteps
  <2>1. Next
    BY <1>1, StepsOfMonitor
  <2>2. TypeOK' /\ OwnInv' /\ SeenInv' /\ WrongOnlyIfMoved'
    BY <2>1, TypeStep, OwnStep, SeenStep DEF Wired
  <2>3. GrantInv' /\ NoSpuriousTap'
    BY <2>1, <2>2, GrantStep DEF Wired
  <2>4. \A i \in DOMAIN inbox' : inbox'[i].kind # "other"
    <3>1. ASSUME NEW m \in Message, m.kind # "other", Send(m)
          PROVE  \A i \in DOMAIN inbox' : inbox'[i].kind # "other"
      BY <3>1 DEF Wired, TypeOK, Send
    <3>2. ASSUME NEW p \in BOOLEAN PROVE Presence(p) \in Message /\ Presence(p).kind # "other"
      BY DEF Message, Presence
    <3>3. ASSUME NEW r \in Readers, NEW n \in Placements
          PROVE  Card(r, n) \in Message /\ Card(r, n).kind # "other"
      BY DEF Message, Card
    <3>4. QED
      BY <1>1, <3>1, <3>2, <3>3, StepSends DEF Quiet, Reported, Presented, Wired
  <2>5. QED
    BY <1>1, <2>2, <2>3, <2>4, StepSends DEF Wired
<1>2. CASE JudgeSteps
  <2>1. /\ inbox' \in Seq(Message) /\ Len(inbox') <= Capacity
        /\ \A i \in DOMAIN inbox' : inbox'[i] \in {inbox[j] : j \in DOMAIN inbox}
        /\ UNCHANGED <<plugged, lying, service, phase, reported, cardState, watched, matched,
                       readings, heard, keying, taps, grants, moved, wrong, used>>
    BY <1>2, JudgeTakes DEF Wired, world, monitor, core, history
  <2>2. TypeOK'
    BY <2>1 DEF Wired, TypeOK
  <2>3. OwnInv'
    BY <2>1 DEF Wired, OwnInv, Own
  <2>4. GrantInv' /\ NoSpuriousTap'
    <3>1. \A r, n : Due(r, n)' = Due(r, n)
      BY <2>1 DEF Due, Pending, Again, KnownEmpty, IsEdge
    <3>2. QED
      BY <2>1, <3>1 DEF Wired, GrantInv, NoSpuriousTap
  <2>5. SeenInv' /\ WrongOnlyIfMoved'
    <3>1. ASSUME NEW r \in Readers, NEW n \in Placements, Seen(r, n)' PROVE Seen(r, n)
      BY <2>1, <3>1 DEF Seen
    <3>2. QED
      BY <2>1, <3>1, SeenKept DEF Wired, SeenInv
  <2>6. QED
    BY <2>1, <2>2, <2>3, <2>4, <2>5 DEF Wired
<1>3. CASE UNCHANGED gateVars
  <2>1. UNCHANGED vars
    BY <1>3 DEF gateVars
  <2>2. TypeOK' /\ OwnInv' /\ SeenInv' /\ WrongOnlyIfMoved'
    BY <2>1, TypeStep, OwnStep, SeenStep DEF Wired
  <2>3. GrantInv' /\ NoSpuriousTap'
    BY <2>1, <2>2, GrantStep DEF Wired
  <2>4. QED
    BY <2>1, <2>2, <2>3 DEF Wired, vars, monitor
<1>4. QED
  BY <1>1, <1>2, <1>3 DEF GateNext

LEMMA WiredHolds == GateSpec => []Wired
  BY WiredInit, WiredStep, PTL DEF GateSpec

\* The queue as the judge sees it, one message more.
LEMMA AppendIs ==
    ASSUME NEW S, NEW q \in Seq(S), NEW e \in S
    PROVE  Append(q, e) = [i \in 1 .. Len(q) + 1 |-> IF i = Len(q) + 1 THEN e ELSE q[i]]
<1> DEFINE p == Append(q, e)
<1>1. /\ p \in Seq(S) /\ Len(q) \in Nat /\ Len(p) = Len(q) + 1 /\ p[Len(q) + 1] = e
      /\ \A i \in 1 .. Len(q) : p[i] = q[i]
  OBVIOUS
<1> HIDE DEF p
<1>2. p = [i \in 1 .. Len(q) + 1 |-> p[i]]
  BY <1>1
<1>3. \A i \in 1 .. Len(q) + 1 : p[i] = IF i = Len(q) + 1 THEN e ELSE q[i]
  BY <1>1
<1>4. p = [i \in 1 .. Len(q) + 1 |-> IF i = Len(q) + 1 THEN e ELSE q[i]]
  BY <1>2, <1>3
<1>5. QED
  BY <1>4 DEF p

LEMMA SeenSend ==
    ASSUME Wired, NEW m \in Message, Send(m)
    PROVE  Len(SeenInbox) < Capacity /\ SeenInbox' = Append(SeenInbox, Seeing(m))
<1> DEFINE Kinds == {"present", "absent", "card"}
<1>1. /\ inbox \in Seq(Message) /\ Len(inbox) < Capacity /\ Len(inbox) \in Nat
      /\ DOMAIN inbox = 1 .. Len(inbox)
      /\ inbox' = Append(inbox, m)
      /\ DOMAIN inbox' = 1 .. Len(inbox) + 1 /\ inbox'[Len(inbox) + 1] = m
      /\ \A i \in 1 .. Len(inbox) : inbox'[i] = inbox[i]
  BY DEF Wired, TypeOK, Send, HasRoom
<1>2. \A x : Seeing(x) \in Kinds
  BY DEF Seeing, Reports
<1>3. SeenInbox = [i \in 1 .. Len(inbox) |-> Seeing(inbox[i])]
  BY <1>1 DEF SeenInbox
<1>4. SeenInbox \in Seq(Kinds) /\ Len(SeenInbox) = Len(inbox)
  <2>1. SeenInbox \in [1 .. Len(inbox) -> Kinds]
    BY <1>2, <1>3
  <2> HIDE DEF Kinds
  <2>2. QED
    BY <1>1, <2>1
<1>5. SeenInbox' = [i \in 1 .. Len(inbox) + 1 |-> Seeing(inbox'[i])]
  BY <1>1 DEF SeenInbox
<1>6. ASSUME NEW i \in 1 .. Len(inbox) + 1
      PROVE  Seeing(inbox'[i]) = IF i = Len(inbox) + 1 THEN Seeing(m) ELSE SeenInbox[i]
  <2>1. CASE i = Len(inbox) + 1
    BY <1>1, <2>1
  <2>2. CASE i # Len(inbox) + 1
    <3>1. i \in 1 .. Len(inbox)
      BY <1>1, <2>2
    <3>2. SeenInbox[i] = Seeing(inbox[i])
      BY <1>3, <3>1
    <3>3. QED
      BY <1>1, <2>2, <3>1, <3>2
  <2>3. QED
    BY <2>1, <2>2
<1>7. Append(SeenInbox, Seeing(m)) = [i \in 1 .. Len(inbox) + 1 |->
                                         IF i = Len(inbox) + 1 THEN Seeing(m) ELSE SeenInbox[i]]
  <2>1. Append(SeenInbox, Seeing(m))
           = [i \in 1 .. Len(SeenInbox) + 1 |->
                 IF i = Len(SeenInbox) + 1 THEN Seeing(m) ELSE SeenInbox[i]]
    BY <1>2, <1>4, AppendIs
  <2>2. QED
    BY <1>4, <2>1
<1>8. QED
  BY <1>1, <1>4, <1>5, <1>6, <1>7

LEMMA ProbeInit == GateInit => Probe!Init
  BY DEF GateInit

\* A step of the gate is one of ReaderProbe, or one the judge does not see.
LEMMA ProbeStep == Wired /\ [GateNext]_gateVars => [Probe!Next]_(Probe!vars)
<1> SUFFICES ASSUME Wired, [GateNext]_gateVars PROVE [Probe!Next]_(Probe!vars)
  OBVIOUS
<1>1. CASE JudgeSteps
  BY <1>1 DEF JudgeSteps, Probe!Next
<1>2. CASE WorldSteps \/ MonitorSteps
  <2>0. UNCHANGED <<Probe!judge, Probe!history>>
    <3>1. UNCHANGED judge
      BY <1>2, StepsOfMonitor
    <3>2. QED
      BY <3>1 DEF judge, Probe!judge, Probe!history, Taps
  <2>1. CASE Quiet
    BY <2>0, <2>1 DEF Quiet, Probe!vars, SeenInbox, SeenReported
  <2>2. ASSUME NEW p \in BOOLEAN, Reported(p) PROVE Probe!Next
    <3>1. Presence(p) \in Message /\ Seeing(Presence(p)) = Reports(p)
      BY DEF Message, Presence, Seeing
    <3>2. Len(SeenInbox) < Capacity /\ SeenInbox' = Append(SeenInbox, Reports(p))
      BY <2>2, <3>1, SeenSend DEF Reported
    <3>3. SeenReported # Reports(p) /\ SeenReported' = Reports(p)
      <4>1. reported \in BOOLEAN \cup {None} /\ reported # p /\ reported' = p /\ p # None
        BY <2>2, ReaderMonitorAssumption DEF Reported, Wired, TypeOK
      <4>2. SeenReported' = Reports(p)
        BY <4>1 DEF SeenReported
      <4>3. CASE reported = None
        <5>1. SeenReported = None
          BY <4>3 DEF SeenReported
        <5>2. None # "present" /\ None # "absent"
          BY ReaderMonitorAssumption
        <5>3. Reports(p) \in {"present", "absent"}
          BY DEF Reports
        <5>4. QED
          BY <4>2, <5>1, <5>2, <5>3
      <4>4. CASE reported \in BOOLEAN
        BY <4>1, <4>4, ReaderMonitorAssumption DEF SeenReported, Reports
      <4>5. QED
        BY <4>1, <4>2, <4>3, <4>4
    <3>4. Reports(p) \in {"present", "absent"}
      BY DEF Reports
    <3>5. Probe!Send(Reports(p))
      BY <2>0, <3>2, <3>3, <3>4 DEF Probe!Send
    <3>6. QED
      BY <3>4, <3>5 DEF Probe!Next
  <2>3. ASSUME NEW r \in Readers, NEW n \in Placements, Presented(r, n) PROVE Probe!Next
    <3>1. Card(r, n) \in Message /\ Seeing(Card(r, n)) = "card"
      BY DEF Message, Card, Seeing
    <3>2. Len(SeenInbox) < Capacity /\ SeenInbox' = Append(SeenInbox, "card")
      BY <2>3, <3>1, SeenSend DEF Presented
    <3>3. SeenReported = "present" /\ SeenReported' = SeenReported
      BY <2>3, ReaderMonitorAssumption DEF Presented, SeenReported, Reports
    <3>4. Probe!Send("card")
      BY <2>0, <3>2, <3>3 DEF Probe!Send
    <3>5. QED
      BY <3>4 DEF Probe!Next
  <2>4. QED
    BY <1>2, <2>1, <2>2, <2>3, StepSends
<1>3. CASE UNCHANGED gateVars
  BY <1>3 DEF gateVars, vars, monitor, judge, Probe!vars, Probe!judge, Probe!history, SeenInbox,
              SeenReported, Taps
<1>4. QED
  BY <1>1, <1>2, <1>3 DEF GateNext

\* To the judge, the reader monitor is the monitor of ReaderProbe: presences that change, and
\* presentations while a reader is reported.
THEOREM MonitorAsProbed == GateSpec => ImplementsProbe
<1>2. QED
  BY WiredHolds, ProbeInit, ProbeStep, PTL DEF GateSpec, ImplementsProbe, Probe!Spec
-----------------------------------------------------------------------------
(* The judge, whatever the monitor of ReaderProbe sends it.                *)

LEMMA NoneIsNoCode == None # 0 /\ None # 1
  BY ReaderMonitorAssumption

LEMMA EarnedInit == Probe!Init => EarnedInv
<1> SUFFICES ASSUME Probe!Init PROVE EarnedInv
  OBVIOUS
<1>1. /\ stage = "reader" /\ again = FALSE /\ unplugged = FALSE /\ failures = {} /\ code = None
      /\ Taps = 0
  BY DEF Probe!Init
<1>2. ~again /\ again \in BOOLEAN /\ unplugged \in BOOLEAN /\ code # 0
  BY <1>1, NoneIsNoCode
<1>3. Taps \in 0 .. Probe!TooMany /\ Expected(stage) = 0
  BY <1>1 DEF Expected, Probe!TooMany
<1>4. stage \in Probe!Awaiting \cup Probe!Absorbing \cup {"done"} /\ stage \notin {"replug", "done"}
  BY <1>1 DEF Probe!Awaiting
<1>5. QED
  BY <1>1, <1>2, <1>3, <1>4 DEF EarnedInv

\* What reading a message changes of what was read.
LEMMA ReadCounts ==
    ASSUME EarnedInv, NEW e, Probe!Read(e) \/ Probe!Silence(e)
    PROVE  /\ Taps' \in 0 .. Probe!TooMany /\ unplugged' \in BOOLEAN
           /\ e # "card" \/ stage \in {"unplug", "replug"} => Taps' = Taps
           /\ e = "card" /\ stage \notin {"unplug", "replug"} /\ Taps < 3 => Taps' = Taps + 1
           /\ unplugged => unplugged'
           /\ stage = "unplug" /\ e = "absent" => unplugged'
           /\ e = "present" => last' = "present"
<1>1. Taps \in 0 .. 3 /\ unplugged \in BOOLEAN /\ Probe!TooMany = 3
  BY DEF EarnedInv, Probe!TooMany
<1>2. CASE Probe!Read(e)
  <2>1. Taps' = IF e = "card" /\ stage \notin {"unplug", "replug"} /\ Taps < 3
                THEN Taps + 1 ELSE Taps
    BY <1>1, <1>2 DEF Probe!Read
  <2>2. unplugged' = (unplugged \/ (stage = "unplug" /\ e = "absent"))
    BY <1>2 DEF Probe!Read
  <2>3. e = "present" => last' = "present"
    BY <1>2 DEF Probe!Read
  <2>4. /\ unplugged' \in BOOLEAN /\ (unplugged => unplugged')
        /\ stage = "unplug" /\ e = "absent" => unplugged'
    BY <1>1, <2>2
  <2>5. Taps' \in 0 .. 3
    BY <1>1, <2>1
  <2>6. QED
    BY <1>1, <2>1, <2>3, <2>4, <2>5
<1>3. CASE Probe!Silence(e)
  <2>1. e = "timeout" /\ Taps' = Taps /\ last' = last /\ unplugged' = unplugged
    BY <1>3 DEF Probe!Silence, Probe!history
  <2>2. QED
    BY <1>1, <2>1
<1>4. QED
  BY <1>2, <1>3

\* A verdict, and what must be true for it to pass.
LEMMA VerdictEarned ==
    ASSUME EarnedInv, NEW pass \in BOOLEAN, NEW next, Probe!Verdict(pass, next),
           next \in Probe!Awaiting \cup Probe!Absorbing \cup {"done"},
           Taps' \in 0 .. Probe!TooMany, unplugged' \in BOOLEAN,
           pass /\ failures = {} =>
              /\ Taps' = Expected(next)
              /\ next \in {"replug", "done"} => unplugged'
              /\ next = "done" => last' = "present"
    PROVE  EarnedInv'
<1>1. /\ stage' = next /\ again' = FALSE
      /\ failures' = {} => pass /\ failures = {}
      /\ code' = 0 => next = "done" /\ failures' = {}
  BY NoneIsNoCode DEF Probe!Verdict
<1>2. QED
  BY <1>1 DEF EarnedInv, Probe!Awaiting, Probe!Absorbing, Probe!TooMany

LEMMA EarnedStep == EarnedInv /\ [Probe!Next]_(Probe!vars) => EarnedInv'
<1> SUFFICES ASSUME EarnedInv, [Probe!Next]_(Probe!vars) PROVE EarnedInv'
  OBVIOUS
<1> USE DEF Probe!Awaiting, Probe!Absorbing
<1>0. failures = {} => /\ ~again => Taps = Expected(stage)
                       /\ again => stage \in Probe!Absorbing
                       /\ stage \in {"replug", "done"} => unplugged
  BY DEF EarnedInv
<1>1. ASSUME NEW e \in {"present", "absent", "card", "timeout"}, Probe!AwaitReader(e)
      PROVE  EarnedInv'
  <2>1. stage = "reader" /\ (Probe!Read(e) \/ Probe!Silence(e))
    BY <1>1 DEF Probe!AwaitReader
  <2>2. CASE e = "present" /\ Probe!Verdict(TRUE, "phantom")
    BY <1>0, <2>1, <2>2, ReadCounts, VerdictEarned DEF Expected
  <2>3. CASE Probe!Verdict(FALSE, "done") \/ Probe!Verdict(FALSE, "tap")
    BY <2>1, <2>3, ReadCounts, VerdictEarned
  <2>4. QED
    BY <1>1, <2>2, <2>3 DEF Probe!AwaitReader
<1>2. ASSUME NEW e \in {"present", "absent", "card", "timeout"}, Probe!AwaitTap(e)
      PROVE  EarnedInv'
  <2>1. stage \in {"tap", "retap"} /\ (Probe!Read(e) \/ Probe!Silence(e))
    BY <1>2 DEF Probe!AwaitTap
  <2>2. CASE e = "card"
    <3>1. Probe!Verdict(TRUE, IF stage = "tap" THEN "held" ELSE "rearmed")
      BY <1>2, <2>2 DEF Probe!AwaitTap
    <3>2. failures = {} => Taps' = Taps + 1 /\ Taps = Expected(stage)
      BY <1>0, <2>1, <2>2, ReadCounts DEF Expected
    <3>3. failures = {} => Taps' = Expected(IF stage = "tap" THEN "held" ELSE "rearmed")
      BY <2>1, <3>2 DEF Expected
    <3>4. QED
      BY <2>1, <3>1, <3>3, ReadCounts, VerdictEarned
  <2>3. CASE e # "card"
    BY <1>2, <2>1, <2>3, ReadCounts, VerdictEarned DEF Probe!AwaitTap
  <2>4. QED
    BY <2>2, <2>3
<1>3. ASSUME NEW e \in {"present", "absent", "card", "timeout"}, Probe!AwaitPlug(e)
      PROVE  EarnedInv'
  <2>1. stage \in {"unplug", "replug"} /\ (Probe!Read(e) \/ Probe!Silence(e))
    BY <1>3 DEF Probe!AwaitPlug
  <2>2. failures = {} => Taps' = 2 /\ (stage = "replug" => unplugged')
    BY <1>0, <2>1, ReadCounts DEF Expected
  <2>3. CASE e = (IF stage = "unplug" THEN "absent" ELSE "present")
    <3>1. Probe!Verdict(TRUE, IF stage = "unplug" THEN "replug" ELSE "done")
      BY <1>3, <2>3 DEF Probe!AwaitPlug
    <3>2. (stage = "unplug" => unplugged') /\ (stage = "replug" => last' = "present")
      BY <2>1, <2>3, ReadCounts
    <3>3. QED
      BY <2>1, <2>2, <3>1, <3>2, ReadCounts, VerdictEarned DEF Expected
  <2>4. CASE Probe!Verdict(FALSE, "done")
    BY <2>1, <2>4, ReadCounts, VerdictEarned
  <2>5. CASE UNCHANGED Probe!judge
    <3>1. /\ stage' = stage /\ again' = again /\ failures' = failures /\ code' = code
      BY <2>5 DEF Probe!judge
    <3>2. Taps' = Taps /\ (unplugged => unplugged') /\ unplugged' \in BOOLEAN
      BY <2>1, ReadCounts
    <3>3. QED
      BY <2>1, <3>1, <3>2 DEF EarnedInv
  <2>6. QED
    BY <1>3, <2>3, <2>4, <2>5 DEF Probe!AwaitPlug
<1>4. ASSUME NEW e \in {"present", "absent", "card"}, Probe!Absorb(e)
      PROVE  EarnedInv'
  <2>1. /\ stage \in Probe!Absorbing /\ Probe!Read(e)
        /\ again' = (again \/ e = "card")
        /\ stage' = stage /\ failures' = failures /\ code' = code
    BY <1>4 DEF Probe!Absorb
  <2>2. /\ Taps' \in 0 .. Probe!TooMany /\ unplugged' \in BOOLEAN
        /\ e # "card" => Taps' = Taps
    BY <2>1, ReadCounts
  <2>3. QED
    BY <2>1, <2>2 DEF EarnedInv
<1>5. CASE Probe!WindowEnds
  <2>1. /\ stage \in Probe!Absorbing
        /\ Taps' = Taps /\ unplugged' = unplugged /\ last' = last
    BY <1>5 DEF Probe!WindowEnds, Probe!history
  <2>2. PICK next \in {"tap", "removal", "retap", "unplug"} :
           next = Probe!After[stage] /\ Expected(next) = Expected(stage)
    BY <2>1 DEF Probe!After, Expected
  <2>3. PICK pass \in BOOLEAN : Probe!Verdict(pass, next) /\ (pass => ~again)
    BY <1>5, <2>2 DEF Probe!WindowEnds
  <2>4. pass /\ failures = {} => Taps' = Expected(next)
    BY <1>0, <2>1, <2>2, <2>3
  <2>5. Taps' \in 0 .. Probe!TooMany /\ unplugged' \in BOOLEAN
    BY <2>1 DEF EarnedInv
  <2>6. QED
    BY <2>2, <2>3, <2>4, <2>5, VerdictEarned
<1>6. CASE Probe!PlugDeadline
  <2>1. Probe!Verdict(FALSE, "done") /\ Taps' = Taps /\ unplugged' = unplugged
    BY <1>6 DEF Probe!PlugDeadline, Probe!history
  <2>2. Taps' \in 0 .. Probe!TooMany /\ unplugged' \in BOOLEAN
    BY <2>1 DEF EarnedInv
  <2>3. QED
    BY <2>1, <2>2, VerdictEarned
<1>7. CASE (\E e \in {"present", "absent", "card"} : Probe!Send(e)) \/ UNCHANGED Probe!vars
  <2>1. UNCHANGED <<stage, again, failures, code, Taps, last, unplugged>>
    BY <1>7 DEF Probe!Send, Probe!vars, Probe!judge, Probe!history
  <2>2. QED
    BY <2>1 DEF EarnedInv
<1>8. QED
  BY <1>1, <1>2, <1>3, <1>4, <1>5, <1>6, <1>7 DEF Probe!Next, Probe!Judge, Probe!Deadline

LEMMA EarnedHolds == Probe!Spec => []EarnedInv
  BY EarnedInit, EarnedStep, PTL DEF Probe!Spec

LEMMA EarnedIsEarned == EarnedInv => Probe!PassIsEarned
  BY DEF EarnedInv, Expected, Probe!Absorbing, Probe!PassIsEarned

\* Whatever the monitor sends, and in which order: the gate passes it only on two
\* presentations and no more, and on a reader that went away when asked and is back.
THEOREM PassEarned == Probe!Spec => []Probe!PassIsEarned
  BY EarnedHolds, EarnedIsEarned, PTL

\* The two halves of ReaderProbe's type: what the judge has read, and what it judges.
ReadTyped ==
    /\ SeenInbox \in Seq({"present", "absent", "card"}) /\ Len(SeenInbox) <= Capacity
    /\ SeenReported \in {"present", "absent", None}
    /\ Taps \in 0 .. Probe!TooMany
    /\ last \in {"present", "absent", None}
    /\ unplugged \in BOOLEAN /\ flapped \in BOOLEAN

JudgeTyped ==
    /\ stage \in Probe!Awaiting \cup Probe!Absorbing \cup {"done"}
    /\ again \in BOOLEAN
    /\ presence \in {"present", "absent", None}
    /\ failures \subseteq Probe!Awaiting \cup Probe!Absorbing
    /\ code \in {0, 1, None} /\ (code # None <=> stage = "done")

LEMMA ReadKeepsType ==
    ASSUME ReadTyped, NEW e, Probe!Read(e) \/ Probe!Silence(e)
    PROVE  ReadTyped' /\ (e \in {"present", "absent", "card"} \/ e = "timeout")
<1>1. CASE Probe!Read(e)
  <2>1. /\ SeenInbox # <<>> /\ e = Head(SeenInbox) /\ SeenInbox' = Tail(SeenInbox)
        /\ SeenReported' = SeenReported
    BY <1>1 DEF Probe!Read
  <2>2. /\ e \in {"present", "absent", "card"}
        /\ SeenInbox' \in Seq({"present", "absent", "card"})
        /\ Len(SeenInbox') = Len(SeenInbox) - 1 /\ Len(SeenInbox) \in Nat
    BY <2>1 DEF ReadTyped
  <2>3. Len(SeenInbox') <= Capacity
    BY <2>2, ReaderMonitorAssumption DEF ReadTyped
  <2>4. /\ Taps' = IF e = "card" /\ stage \notin {"unplug", "replug"} /\ Taps < 3
                   THEN Taps + 1 ELSE Taps
        /\ last' = IF e = "card" THEN last ELSE e
        /\ unplugged' = (unplugged \/ (stage = "unplug" /\ e = "absent"))
        /\ flapped' = (flapped \/ (stage = "removal" /\ e # "card"))
    BY <1>1 DEF Probe!Read, Probe!TooMany
  <2>5. Taps' \in 0 .. 3
    BY <2>4 DEF ReadTyped, Probe!TooMany
  <2>6. unplugged' \in BOOLEAN /\ flapped' \in BOOLEAN
    BY <2>4 DEF ReadTyped
  <2>7. last' \in {"present", "absent", None}
    BY <2>2, <2>4 DEF ReadTyped
  <2>8. QED
    BY <2>1, <2>2, <2>3, <2>5, <2>6, <2>7 DEF ReadTyped, Probe!TooMany
<1>2. CASE Probe!Silence(e)
  BY <1>2 DEF Probe!Silence, Probe!history, ReadTyped, Probe!TooMany
<1>3. QED
  BY <1>1, <1>2

LEMMA VerdictTyped ==
    ASSUME JudgeTyped, NEW pass, NEW next, Probe!Verdict(pass, next),
           stage # "done", next \in Probe!Awaiting \cup Probe!Absorbing \cup {"done"}
    PROVE  JudgeTyped'
<1>1. /\ stage' = next /\ again' = FALSE /\ presence' = None
      /\ failures' \subseteq failures \cup {stage}
      /\ code' = IF next # "done" THEN None ELSE IF failures' = {} THEN 0 ELSE 1
  BY DEF Probe!Verdict
<1>2. failures' \subseteq Probe!Awaiting \cup Probe!Absorbing
  BY <1>1 DEF JudgeTyped
<1>3. code' \in {0, 1, None} /\ (code' # None <=> stage' = "done")
  BY <1>1, NoneIsNoCode
<1>4. QED
  BY <1>1, <1>2, <1>3 DEF JudgeTyped, Probe!Awaiting, Probe!Absorbing

LEMMA ProbeTypeStep ==
    ReadTyped /\ JudgeTyped /\ [Probe!Next]_(Probe!vars) => ReadTyped' /\ JudgeTyped'
<1> SUFFICES ASSUME ReadTyped, JudgeTyped, [Probe!Next]_(Probe!vars)
             PROVE  ReadTyped' /\ JudgeTyped'
  OBVIOUS
<1>1. ASSUME UNCHANGED Probe!judge PROVE JudgeTyped'
  BY <1>1 DEF Probe!judge, JudgeTyped, Probe!Awaiting, Probe!Absorbing
<1>2. ASSUME NEW e, Probe!AwaitReader(e) PROVE ReadTyped' /\ JudgeTyped'
  <2>1. stage = "reader" /\ (Probe!Read(e) \/ Probe!Silence(e))
    BY <1>2 DEF Probe!AwaitReader
  <2>2. PICK pass \in BOOLEAN, next \in {"phantom", "done", "tap"} : Probe!Verdict(pass, next)
    BY <1>2 DEF Probe!AwaitReader
  <2>3. QED
    BY <2>1, <2>2, ReadKeepsType, VerdictTyped DEF Probe!Awaiting, Probe!Absorbing
<1>3. ASSUME NEW e, Probe!AwaitTap(e) PROVE ReadTyped' /\ JudgeTyped'
  <2>1. stage \in {"tap", "retap"} /\ (Probe!Read(e) \/ Probe!Silence(e))
    BY <1>3 DEF Probe!AwaitTap
  <2>2. PICK pass \in BOOLEAN, next \in {"held", "rearmed", "removal", "unplug"} :
           Probe!Verdict(pass, next)
    BY <1>3 DEF Probe!AwaitTap
  <2>3. QED
    BY <2>1, <2>2, ReadKeepsType, VerdictTyped DEF Probe!Awaiting, Probe!Absorbing
<1>4. ASSUME NEW e, Probe!AwaitPlug(e) PROVE ReadTyped' /\ JudgeTyped'
  <2>1. stage \in {"unplug", "replug"} /\ (Probe!Read(e) \/ Probe!Silence(e))
    BY <1>4 DEF Probe!AwaitPlug
  <2>2. CASE \E pass \in BOOLEAN, next \in {"replug", "done"} : Probe!Verdict(pass, next)
    BY <2>1, <2>2, ReadKeepsType, VerdictTyped DEF Probe!Awaiting, Probe!Absorbing
  <2>3. CASE UNCHANGED Probe!judge
    BY <2>1, <2>3, <1>1, ReadKeepsType
  <2>4. QED
    BY <1>4, <2>2, <2>3 DEF Probe!AwaitPlug
<1>5. ASSUME NEW e, Probe!Absorb(e) PROVE ReadTyped' /\ JudgeTyped'
  <2>1. /\ stage \in Probe!Absorbing /\ Probe!Read(e)
        /\ again' = (again \/ e = "card")
        /\ presence' = IF e = "card" THEN presence ELSE e
        /\ stage' = stage /\ failures' = failures /\ code' = code
    BY <1>5 DEF Probe!Absorb
  <2>2. ReadTyped' /\ e \in {"present", "absent", "card"}
    <3>1. e # "timeout"
      BY <2>1 DEF Probe!Read, ReadTyped
    <3>2. QED
      BY <2>1, <3>1, ReadKeepsType
  <2>3. again' \in BOOLEAN /\ presence' \in {"present", "absent", None}
    BY <2>1, <2>2 DEF JudgeTyped
  <2>4. JudgeTyped'
    BY <2>1, <2>3 DEF JudgeTyped, Probe!Awaiting, Probe!Absorbing
  <2>5. QED
    BY <2>2, <2>4
<1>6. CASE Probe!WindowEnds \/ Probe!PlugDeadline
  <2>1. UNCHANGED <<SeenInbox, SeenReported, Taps, last, unplugged, flapped>>
    BY <1>6 DEF Probe!WindowEnds, Probe!PlugDeadline, Probe!history
  <2>2. ReadTyped'
    BY <2>1 DEF ReadTyped, Probe!TooMany
  <2>3. CASE Probe!WindowEnds
    <3>0. Probe!After[stage] \in {"tap", "removal", "retap", "unplug"}
      BY <2>3 DEF Probe!WindowEnds, Probe!After, Probe!Absorbing
    <3>1. PICK pass, next :
             /\ next \in {"tap", "removal", "retap", "unplug"}
             /\ Probe!Verdict(pass, next)
      BY <2>3, <3>0 DEF Probe!WindowEnds
    <3>2. stage # "done"
      BY <2>3 DEF Probe!WindowEnds, Probe!Absorbing
    <3>3. QED
      BY <2>2, <3>1, <3>2, VerdictTyped DEF Probe!Awaiting, Probe!Absorbing
  <2>4. CASE Probe!PlugDeadline
    <3>1. stage # "done" /\ Probe!Verdict(FALSE, "done")
      BY <2>4 DEF Probe!PlugDeadline
    <3>2. QED
      BY <2>2, <3>1, VerdictTyped
  <2>5. QED
    BY <1>6, <2>3, <2>4
<1>7. ASSUME NEW e \in {"present", "absent", "card"}, Probe!Send(e)
      PROVE  ReadTyped' /\ JudgeTyped'
  <2>1. /\ Len(SeenInbox) < Capacity /\ SeenInbox' = Append(SeenInbox, e)
        /\ SeenReported' = (IF e = "card" THEN SeenReported ELSE e)
        /\ UNCHANGED <<Taps, last, unplugged, flapped>> /\ UNCHANGED Probe!judge
    BY <1>7 DEF Probe!Send, Probe!history
  <2>2. /\ SeenInbox' \in Seq({"present", "absent", "card"})
        /\ Len(SeenInbox') = Len(SeenInbox) + 1 /\ Len(SeenInbox) \in Nat
    BY <2>1 DEF ReadTyped
  <2>3. Len(SeenInbox') <= Capacity /\ SeenReported' \in {"present", "absent", None}
    BY <2>1, <2>2, ReaderMonitorAssumption DEF ReadTyped
  <2>4. ReadTyped'
    BY <2>1, <2>2, <2>3 DEF ReadTyped, Probe!TooMany
  <2>5. QED
    BY <1>1, <2>1, <2>4
<1>8. CASE UNCHANGED Probe!vars
  <2>1. UNCHANGED <<SeenInbox, SeenReported, Taps, last, unplugged, flapped>>
    BY <1>8 DEF Probe!vars, Probe!history
  <2>2. UNCHANGED Probe!judge
    BY <1>8 DEF Probe!vars
  <2>3. QED
    BY <1>1, <2>1, <2>2 DEF ReadTyped, Probe!TooMany
<1>9. QED
  BY <1>2, <1>3, <1>4, <1>5, <1>6, <1>7, <1>8 DEF Probe!Next, Probe!Judge, Probe!Deadline

\* The judge's queue, its score and its exit code keep their types; there is an exit code
\* once the last case is over, and not before.
THEOREM ProbeTypeCorrect == Probe!Spec => []Probe!TypeOK
<1>1. Probe!Init => ReadTyped /\ JudgeTyped
  <2>1. ASSUME Probe!Init PROVE ReadTyped
    <3>1. SeenInbox = <<>> /\ SeenReported = None /\ Taps = 0 /\ last = None
      BY <2>1 DEF Probe!Init
    <3>2. unplugged \in BOOLEAN /\ flapped \in BOOLEAN
      BY <2>1 DEF Probe!Init
    <3>3. Len(<<>>) <= Capacity /\ <<>> \in Seq({"present", "absent", "card"})
      BY ReaderMonitorAssumption
    <3>4. QED
      BY <3>1, <3>2, <3>3 DEF ReadTyped, Probe!TooMany
  <2>2. ASSUME Probe!Init PROVE JudgeTyped
    BY <2>2 DEF Probe!Init, JudgeTyped, Probe!Awaiting
  <2>3. QED
    BY <2>1, <2>2
<1>2. ReadTyped /\ JudgeTyped => Probe!TypeOK
  BY DEF ReadTyped, JudgeTyped, Probe!TypeOK
<1>3. QED
  BY <1>1, <1>2, ProbeTypeStep, PTL DEF Probe!Spec

\* What holds of every monitor of ReaderProbe holds of the real one.
LEMMA GateEarned == GateSpec => []EarnedInv
<1>1. GateSpec => Probe!Spec
  BY MonitorAsProbed DEF ImplementsProbe
<1>2. QED
  BY <1>1, EarnedHolds, PTL
-----------------------------------------------------------------------------
(* Every presentation the judge read, or has before it, was sent.          *)

\* A line of presentations that comes from another without merging two.
LEMMA CountMapped ==
    ASSUME CountInv, presented' \in Seq(Placements), taps' = taps, NEW f \in [Int -> Int],
           \A k, l \in Int : k # l => f[k] # f[l],
           \A k \in Int, n \in Placements : Holds(k, n)' => Holds(f[k], n)
    PROVE  CountInv'
<1>1. ASSUME NEW n \in Placements, NEW k \in Int, NEW l \in Int, Holds(k, n)', Holds(l, n)'
      PROVE  taps'[n] >= IF k = l THEN 1 ELSE 2
  <2>1. Holds(f[k], n) /\ Holds(f[l], n) /\ f[k] \in Int /\ f[l] \in Int
    BY <1>1
  <2>2. taps[n] >= IF f[k] = f[l] THEN 1 ELSE 2
    BY <2>1 DEF CountInv
  <2>3. f[k] = f[l] <=> k = l
    BY <1>1
  <2>4. QED
    BY <2>2, <2>3
<1>2. QED
  BY <1>1 DEF CountInv

LEMMA CountInit == GateInit => CountInv
  BY DEF GateInit, Init, CountInv, Holds

LEMMA CountSame ==
    ASSUME CountInv, presented' = presented, taps' = taps,
           \A k \in Int, n \in Placements : Holds(k, n)' => Holds(k, n)
    PROVE  CountInv'
  BY DEF CountInv

LEMMA CountReceive == ASSUME Wired, CountInv, Receive, taps' = taps PROVE CountInv'
<1>1. /\ inbox \in Seq(Message) /\ Len(inbox) \in Nat \ {0}
      /\ DOMAIN inbox = 1 .. Len(inbox) /\ DOMAIN inbox' = 1 .. Len(inbox) - 1
      /\ \A i \in 1 .. Len(inbox) - 1 : inbox'[i] = inbox[i + 1]
      /\ Head(inbox) = inbox[1] /\ inbox[1] \in Message
  BY DEF Wired, TypeOK, Receive
<1>2. presented \in Seq(Placements) /\ Len(presented) \in Nat /\ DOMAIN presented = 1 .. Len(presented)
  BY DEF CountInv
<1>3. CASE presented' = presented
  <2> DEFINE f == [k \in Int |-> IF k > 0 THEN k + 1 ELSE k]
  <2>1. f \in [Int -> Int] /\ \A k, l \in Int : k # l => f[k] # f[l]
    OBVIOUS
  <2>2. ASSUME NEW k \in Int, NEW n \in Placements, Holds(k, n)' PROVE Holds(f[k], n)
    <3>1. CASE k > 0
      BY <1>1, <2>2, <3>1 DEF Holds
    <3>2. CASE k <= 0
      BY <1>3, <2>2, <3>2 DEF Holds
    <3>3. QED
      BY <3>1, <3>2
  <2> HIDE DEF f
  <2>3. QED
    BY <1>2, <1>3, <2>1, <2>2, CountMapped
<1>4. CASE inbox[1].kind = "card" /\ presented' = Append(presented, inbox[1].placement)
  <2> DEFINE f == [k \in Int |-> k + 1]
  <2>1. f \in [Int -> Int] /\ \A k, l \in Int : k # l => f[k] # f[l]
    OBVIOUS
  <2>2. inbox[1].placement \in Placements
    BY <1>1, <1>4 DEF Message, Presence, Card, Other
  <2>3. /\ presented' \in Seq(Placements) /\ Len(presented') = Len(presented) + 1
        /\ DOMAIN presented' = 1 .. Len(presented) + 1
        /\ presented'[Len(presented) + 1] = inbox[1].placement
        /\ \A i \in 1 .. Len(presented) : presented'[i] = presented[i]
    BY <1>2, <1>4, <2>2
  <2>4. ASSUME NEW k \in Int, NEW n \in Placements, Holds(k, n)' PROVE Holds(k + 1, n)
    <3>1. CASE k > 0
      BY <1>1, <2>4, <3>1 DEF Holds
    <3>2. CASE k = 0
      <4>1. presented'[Len(presented) + 1] = n
        BY <1>2, <2>3, <2>4, <3>2 DEF Holds
      <4>2. Holds(1, n)
        BY <1>1, <1>4, <2>3, <4>1 DEF Holds
      <4>3. QED
        BY <3>2, <4>2
    <3>3. CASE k < 0
      <4>1. /\ Len(presented) + 1 + k \in 1 .. Len(presented) + 1
            /\ presented'[Len(presented) + 1 + k] = n
        BY <2>3, <2>4, <3>3 DEF Holds
      <4>2. Len(presented) + (k + 1) \in 1 .. Len(presented) /\ presented[Len(presented) + (k + 1)] = n
        BY <1>2, <2>3, <3>3, <4>1
      <4>3. QED
        BY <1>2, <3>3, <4>2 DEF Holds
    <3>4. QED
      BY <3>1, <3>2, <3>3
  <2>5. \A k \in Int, n \in Placements : Holds(k, n)' => Holds(f[k], n)
    BY <2>4
  <2> HIDE DEF f
  <2>6. QED
    BY <2>1, <2>3, <2>5, CountMapped
<1>5. QED
  BY <1>1, <1>3, <1>4 DEF Receive

LEMMA CountStep == Wired /\ CountInv /\ [GateNext]_gateVars => CountInv'
<1> SUFFICES ASSUME Wired, CountInv, [GateNext]_gateVars PROVE CountInv'
  OBVIOUS
<1>1. CASE JudgeSteps
  <2>1. taps' = taps /\ (Receive \/ (inbox' = inbox /\ presented' = presented))
    BY <1>1 DEF JudgeSteps, history
  <2>2. CASE inbox' = inbox /\ presented' = presented
    BY <2>1, <2>2, CountSame DEF Holds
  <2>3. QED
    BY <2>1, <2>2, CountReceive
<1>2. CASE WorldSteps \/ MonitorSteps
  <2>0. presented' = presented
    BY <1>2, StepsOfMonitor DEF judge
  <2>1. CASE Quiet
    BY <2>0, <2>1, CountSame DEF Quiet, Holds
  <2>2. ASSUME NEW m \in Message, Send(m), NEW k \in Int, NEW n \in Placements, Holds(k, n)'
        PROVE  \/ Holds(k, n)
               \/ k = Len(inbox) + 1 /\ m.kind = "card" /\ m.placement = n
    <3>1. /\ inbox \in Seq(Message) /\ Len(inbox) \in Nat /\ DOMAIN inbox = 1 .. Len(inbox)
          /\ DOMAIN inbox' = 1 .. Len(inbox) + 1 /\ inbox'[Len(inbox) + 1] = m
          /\ \A i \in 1 .. Len(inbox) : inbox'[i] = inbox[i]
      BY <2>2 DEF Send, Wired, TypeOK
    <3>2. QED
      BY <2>0, <2>2, <3>1 DEF Holds
  <2>3. ASSUME NEW p \in BOOLEAN, Reported(p) PROVE CountInv'
    <3>1. Presence(p) \in Message /\ Presence(p).kind # "card"
      BY DEF Message, Presence
    <3>2. \A k \in Int, n \in Placements : Holds(k, n)' => Holds(k, n)
      BY <2>2, <2>3, <3>1 DEF Reported
    <3>3. QED
      BY <2>0, <2>3, <3>2, CountSame DEF Reported
  <2>4. ASSUME NEW r \in Readers, NEW m \in Placements, Presented(r, m) PROVE CountInv'
    <3>1. Card(r, m) \in Message /\ Card(r, m).placement = m
      BY DEF Message, Card
    <3>2. Send(Card(r, m)) /\ taps \in [Placements -> Nat] /\ taps' = [taps EXCEPT ![m] = @ + 1]
      BY <2>4 DEF Presented, Wired, TypeOK
    <3>3. ASSUME NEW n \in Placements, NEW k \in Int, NEW l \in Int, Holds(k, n)', Holds(l, n)'
          PROVE  taps'[n] >= IF k = l THEN 1 ELSE 2
      <4>1. \A j \in {k, l} : Holds(j, n) \/ (j = Len(inbox) + 1 /\ m = n)
        BY <2>2, <3>1, <3>2, <3>3
      <4>2. /\ Holds(k, n) /\ Holds(l, n) => taps[n] >= IF k = l THEN 1 ELSE 2
            /\ Holds(k, n) \/ Holds(l, n) => taps[n] >= 1
        BY DEF CountInv
      <4>3. taps[n] \in Nat /\ taps'[n] = taps[n] + (IF n = m THEN 1 ELSE 0)
        BY <3>2
      <4>4. QED
        BY <4>1, <4>2, <4>3
    <3>4. QED
      BY <2>0, <3>3 DEF CountInv
  <2>5. QED
    BY <1>2, <2>1, <2>3, <2>4, StepSends
<1>3. CASE UNCHANGED gateVars
  BY <1>3, CountSame DEF gateVars, vars, judge, history, Holds
<1>4. QED
  BY <1>1, <1>2, <1>3 DEF GateNext

-----------------------------------------------------------------------------
(* Without a pull or an outage nothing is reported to go away.             *)

LEMMA UseCounts ==
    ASSUME used \in [Limited -> Nat], NEW w \in Limited \ {"all"}, Use(w), Calm'
    PROVE  Calm /\ w \notin {"pulls", "outages"}
<1> DEFINE one == [used EXCEPT ![w] = @ + 1]
<1>1. {"pulls", "outages", "all"} \subseteq Limited
  BY DEF Limited
<1>2. /\ one \in [Limited -> Nat]
      /\ one.pulls = used.pulls + (IF w = "pulls" THEN 1 ELSE 0)
      /\ one.outages = used.outages + (IF w = "outages" THEN 1 ELSE 0)
  BY <1>1
<1>3. used' = [one EXCEPT !.all = @ + 1]
  BY DEF Use
<1> HIDE DEF one
<1>4. used'.pulls = one.pulls /\ used'.outages = one.outages
  BY <1>1, <1>2, <1>3
<1>5. used.pulls \in Nat /\ used.outages \in Nat
  BY <1>1
<1>6. QED
  BY <1>2, <1>4, <1>5 DEF Calm

LEMMA CalmBefore ==
    ASSUME Wired, [GateNext]_gateVars, Calm'
    PROVE  Calm /\ ~(\E r \in Readers : Pull(r)) /\ ~Outage
<1>1. used \in [Limited -> Nat] /\ {"placements", "pulls", "outages"} \subseteq Limited \ {"all"}
  BY DEF Wired, TypeOK, Limited
<1>2. ASSUME NEW r \in Readers, PutDown(r) PROVE Calm
  BY <1>1, <1>2, UseCounts DEF PutDown
<1>3. ~(\E r \in Readers : Pull(r)) /\ ~Outage
  BY <1>1, UseCounts DEF Pull, Outage
<1>4. ASSUME used' = used PROVE Calm
  <2>1. used'.pulls = 0 /\ used'.outages = 0
    BY DEF Calm
  <2>2. QED
    BY <1>4, <2>1 DEF Calm
<1>5. CASE MonitorSteps \/ JudgeSteps \/ UNCHANGED gateVars
  <2>1. CASE MonitorSteps
    BY <1>3, <1>4, <2>1 DEF MonitorSteps, Monitor, Establish, ListReaders, Enumerated, StatusChange,
                      StatusFails, Look, Failed
  <2>2. CASE JudgeSteps
    BY <1>3, <1>4, <2>2 DEF JudgeSteps
  <2>3. CASE UNCHANGED gateVars
    BY <1>3, <1>4, <2>3 DEF gateVars, vars
  <2>4. QED
    BY <1>5, <2>1, <2>2, <2>3
<1>6. CASE WorldSteps
  BY <1>2, <1>3, <1>4, <1>6 DEF WorldSteps, World, Lift, Plug, ServiceReturns
<1>7. QED
  BY <1>3, <1>5, <1>6 DEF GateNext

LEMMA CalmInit == GateInit => CalmInv
<1> SUFFICES ASSUME GateInit PROVE CalmInv
  OBVIOUS
<1>1. /\ service /\ phase = "establish" /\ reported = None /\ matched = {} /\ watched = {}
      /\ inbox = <<>> /\ stage = "reader" /\ last = None
  BY DEF GateInit, Init, Probe!Init
<1>2. reported # TRUE /\ last # "present"
  BY <1>1, Zenon, ReaderMonitorAssumption
<1>3. CalmMonitor
  BY <1>1, <1>2 DEF CalmMonitor
<1>4. CalmQueue
  BY <1>1, <1>2 DEF CalmQueue
<1>5. CalmJudge
  BY <1>1 DEF CalmJudge
<1>6. QED
  BY <1>3, <1>4, <1>5 DEF CalmInv

LEMMA CalmMonitorStep ==
    ASSUME Wired, CalmMonitor, [GateNext]_gateVars, Calm' PROVE CalmMonitor'
<1>0. phase \in {"wait", "look"} => reported = TRUE
  BY DEF Wired
<1>1. CASE JudgeSteps \/ UNCHANGED gateVars
  BY <1>1 DEF JudgeSteps, gateVars, vars, world, monitor, CalmMonitor
<1>2. ASSUME NEW r \in Readers, PutDown(r) \/ Lift(r) \/ Plug(r) PROVE CalmMonitor'
  BY <1>2 DEF PutDown, Lift, Plug, monitor, CalmMonitor
<1>3. CASE ServiceReturns
  BY <1>3 DEF ServiceReturns, monitor, CalmMonitor
<1>4. CASE Establish
  BY <1>4 DEF Establish, world, CalmMonitor
<1>5. CASE ListReaders
  BY <1>5 DEF ListReaders, world, CalmMonitor
<1>6. CASE Enumerated
  <2>1. /\ reported' = (matched # {}) /\ watched' = matched /\ matched' = matched
        /\ plugged' = plugged /\ service' = service /\ phase' \in {"list", "wait"}
    BY <1>6 DEF Enumerated, ReportPresence, world
  <2>2. QED
    BY <2>1 DEF CalmMonitor
<1>7. CASE StatusChange
  BY <1>7 DEF StatusChange, world, CalmMonitor
<1>8. CASE StatusFails
  BY <1>8 DEF StatusFails, CalmMonitor
<1>9. ASSUME NEW r \in Readers, Look(r) PROVE CalmMonitor'
  BY <1>9 DEF Look, world, CalmMonitor
<1>10. CASE Failed
  BY <1>10 DEF Failed, CalmMonitor
<1>11. QED
  BY <1>1, <1>2, <1>3, <1>4, <1>5, <1>6, <1>7, <1>8, <1>9, <1>10, CalmBefore
  DEF GateNext, WorldSteps, World, MonitorSteps, Monitor

\* Another message: an absence only before the first presence.
LEMMA CalmAppend ==
    ASSUME Wired, CalmQueue, NEW m \in Message, Send(m), last' = last,
           m = Presence(TRUE) => reported' = TRUE,
           m = Presence(FALSE) => reported # TRUE,
           reported = TRUE => reported' = TRUE
    PROVE  CalmQueue'
<1> DEFINE n == Len(inbox)
<1>1. /\ n \in Nat /\ DOMAIN inbox = 1 .. n
      /\ DOMAIN inbox' = 1 .. n + 1 /\ inbox'[n + 1] = m
      /\ \A i \in 1 .. n : inbox'[i] = inbox[i]
  BY DEF Send, Wired, TypeOK
<1> HIDE DEF n
<1>2. ASSUME NEW i \in DOMAIN inbox'
      PROVE  \/ i \in DOMAIN inbox /\ i < n + 1 /\ inbox'[i] = inbox[i]
             \/ i = n + 1 /\ inbox'[i] = m
  BY <1>1
<1>3. m = Presence(FALSE) => /\ last # "present"
                            /\ \A i \in DOMAIN inbox : inbox[i] # Presence(TRUE)
  BY DEF CalmQueue
<1>4. ASSUME reported' # TRUE, NEW i \in DOMAIN inbox' PROVE inbox'[i] # Presence(TRUE)
  <2>1. reported # TRUE /\ m # Presence(TRUE)
    BY <1>4
  <2>2. QED
    BY <1>2, <2>1 DEF CalmQueue
<1>5. ASSUME NEW i \in DOMAIN inbox', NEW j \in DOMAIN inbox', i < j, inbox'[i] = Presence(TRUE)
      PROVE  inbox'[j] # Presence(FALSE)
  <2>0. i \in DOMAIN inbox
    <3>1. i \in 1 .. n + 1 /\ j \in 1 .. n + 1 /\ i < j
      BY <1>1, <1>5
    <3>2. QED
      BY <1>1, <3>1
  <2>1. i \in DOMAIN inbox /\ inbox[i] = Presence(TRUE)
    BY <1>1, <1>5, <2>0
  <2>2. m # Presence(FALSE)
    BY <1>3, <2>1
  <2>3. j \in DOMAIN inbox => inbox[j] # Presence(FALSE)
    BY <1>5, <2>1 DEF CalmQueue
  <2>4. QED
    BY <1>2, <2>2, <2>3
<1>6. ASSUME last' = "present"
      PROVE  reported' = TRUE /\ \A i \in DOMAIN inbox' : inbox'[i] # Presence(FALSE)
  <2>1. reported = TRUE /\ \A i \in DOMAIN inbox : inbox[i] # Presence(FALSE)
    BY <1>6 DEF CalmQueue
  <2>2. m # Presence(FALSE)
    BY <1>3, <1>6
  <2>3. QED
    BY <1>2, <2>1, <2>2
<1>7. QED
  BY <1>4, <1>5, <1>6 DEF CalmQueue

LEMMA CalmSend ==
    ASSUME Wired, CalmMonitor, CalmQueue, WorldSteps \/ MonitorSteps, Calm'
    PROVE  CalmQueue'
<1>0. last' = last
  BY StepsOfMonitor DEF judge
<1>1. CASE Quiet
  <2>1. inbox' = inbox /\ reported' = reported
    BY <1>1 DEF Quiet
  <2>2. QED
    BY <1>0, <2>1 DEF CalmQueue
<1>2. \A p \in BOOLEAN : Presence(p) \in Message /\ Presence(p).present = p
  <2>1. \A p \in BOOLEAN : Presence(p) \in Message
    BY DEF Message
  <2>2. QED
    BY <2>1 DEF Presence
<1>3. CASE Reported(TRUE)
  <2>1. Send(Presence(TRUE)) /\ reported' = TRUE
    BY <1>3 DEF Reported
  <2>2. QED
    BY <1>0, <1>2, <2>1, CalmAppend
<1>4. CASE Reported(FALSE)
  <2>1. Send(Presence(FALSE)) /\ reported' = FALSE /\ reported # FALSE
    BY <1>4 DEF Reported
  <2>2. Enumerated \/ Failed
    BY <2>1 DEF WorldSteps, World, PutDown, Lift, Pull, Plug, Outage, ServiceReturns, monitor,
                MonitorSteps, Monitor, Establish, ListReaders, StatusChange, StatusFails, Look
  <2>3. Enumerated
    BY <2>2 DEF Failed, CalmMonitor
  <2>4. matched = {} /\ phase = "listed"
    BY <2>1, <2>3 DEF Enumerated, ReportPresence
  <2>5. reported # TRUE
    BY <2>4 DEF CalmMonitor
  <2>6. QED
    BY <1>0, <1>2, <2>1, <2>5, CalmAppend
<1>5. ASSUME NEW r \in Readers, NEW n \in Placements, Presented(r, n) PROVE CalmQueue'
  <2>1. /\ Card(r, n) \in Message /\ Send(Card(r, n)) /\ reported = TRUE /\ reported' = TRUE
        /\ Card(r, n) # Presence(FALSE)
    BY <1>5 DEF Message, Presented, Card, Presence
  <2>2. QED
    BY <1>0, <2>1, CalmAppend
<1>6. QED
  BY <1>1, <1>3, <1>4, <1>5, StepSends

LEMMA MessageIs ==
    ASSUME NEW m \in Message
    PROVE  \/ m = Other \/ (\E p \in BOOLEAN : m = Presence(p))
           \/ (\E r \in Readers, n \in Placements : m = Card(r, n))
  BY DEF Message, Presence, Card, Other

\* The judge's view of the message at the head.
LEMMA HeadSeen ==
    ASSUME Wired, SeenInbox # <<>>
    PROVE  /\ 1 \in DOMAIN inbox
           /\ Head(SeenInbox) = "present" => inbox[1] = Presence(TRUE)
           /\ Head(SeenInbox) = "absent" => inbox[1] = Presence(FALSE)
<1>1. /\ inbox \in Seq(Message) /\ DOMAIN inbox = 1 .. Len(inbox) /\ Len(inbox) \in Nat
      /\ \A i \in DOMAIN inbox : inbox[i] \in Message
  BY DEF Wired, TypeOK
<1>2. inbox # <<>>
  BY <1>1 DEF SeenInbox
<1>3. 1 \in DOMAIN inbox
  BY <1>1, <1>2
<1>4. Head(SeenInbox) = Seeing(inbox[1])
  <2>1. Head(SeenInbox) = SeenInbox[1]
    OBVIOUS
  <2>2. QED
    BY <1>3, <2>1 DEF SeenInbox
<1>5. inbox[1] \in Message /\ inbox[1].kind # "other"
  BY <1>1, <1>3 DEF Wired
<1>6. ASSUME NEW p \in BOOLEAN, inbox[1] = Presence(p)
      PROVE  Head(SeenInbox) = Reports(p) /\ p \in {TRUE, FALSE}
  <2>1. inbox[1].kind = "presence" /\ inbox[1].present = p
    BY <1>6 DEF Presence
  <2>2. QED
    BY <1>4, <2>1 DEF Seeing
<1>7. ASSUME NEW r \in Readers, NEW n \in Placements, inbox[1] = Card(r, n)
      PROVE  Head(SeenInbox) = "card"
  <2>1. inbox[1].kind = "card"
    BY <1>7 DEF Card
  <2>2. QED
    BY <1>4, <2>1 DEF Seeing
<1>8. /\ Head(SeenInbox) = "present" => inbox[1] = Presence(TRUE)
      /\ Head(SeenInbox) = "absent" => inbox[1] = Presence(FALSE)
  <2>1. inbox[1] # Other
    BY <1>5 DEF Other
  <2>2. CASE \E p \in BOOLEAN : inbox[1] = Presence(p)
    <3>1. Reports(TRUE) = "present" /\ Reports(FALSE) = "absent"
      BY DEF Reports
    <3>2. QED
      BY <1>6, <2>2, <3>1
  <2>3. CASE \E r \in Readers, n \in Placements : inbox[1] = Card(r, n)
    BY <1>7, <2>3
  <2>4. QED
    BY <1>5, <2>1, <2>2, <2>3, MessageIs
<1>9. QED
  BY <1>3, <1>8

\* What the judge last read of the presence.
LEMMA LastRead ==
    ASSUME JudgeSteps
    PROVE  last' = last \/ (SeenInbox # <<>> /\ last' = Head(SeenInbox))
  BY DEF JudgeSteps, Probe!Judge, Probe!Deadline, Probe!AwaitReader, Probe!AwaitTap,
         Probe!AwaitPlug, Probe!Absorb, Probe!WindowEnds, Probe!PlugDeadline, Probe!Read,
         Probe!Silence, Probe!history

LEMMA CalmRead ==
    ASSUME Wired, CalmQueue, JudgeSteps
    PROVE  CalmQueue'
<1>1. reported' = reported
  BY DEF JudgeSteps, monitor
<1>2. \/ inbox' = inbox
      \/ /\ Len(inbox) \in Nat \ {0} /\ DOMAIN inbox = 1 .. Len(inbox)
         /\ DOMAIN inbox' = 1 .. Len(inbox) - 1
         /\ \A i \in DOMAIN inbox' : inbox'[i] = inbox[i + 1]
  <2>1. /\ inbox \in Seq(Message) /\ (inbox' = inbox \/ (inbox # <<>> /\ inbox' = Tail(inbox)))
    BY JudgeTakes DEF Wired, TypeOK, Receive
  <2>2. QED
    BY <2>1
<1>3. ASSUME NEW i \in DOMAIN inbox'
      PROVE  \E j \in DOMAIN inbox : inbox'[i] = inbox[j]
  BY <1>2
<1>4. ASSUME NEW i \in DOMAIN inbox', NEW j \in DOMAIN inbox', i < j
      PROVE  \E k, l \in DOMAIN inbox : k < l /\ inbox'[i] = inbox[k] /\ inbox'[j] = inbox[l]
  <2>1. CASE inbox' = inbox
    BY <1>4, <2>1
  <2>2. CASE inbox' # inbox
    <3>1. /\ i + 1 \in DOMAIN inbox /\ j + 1 \in DOMAIN inbox /\ i + 1 < j + 1
      BY <1>2, <1>4, <2>2
    <3>2. inbox'[i] = inbox[i + 1] /\ inbox'[j] = inbox[j + 1]
      BY <1>2, <2>2
    <3>3. QED
      BY <3>1, <3>2
  <2>3. QED
    BY <2>1, <2>2
<1>5. ASSUME last' = "present"
      PROVE  reported = TRUE /\ \A i \in DOMAIN inbox : inbox[i] # Presence(FALSE)
  <2>1. CASE last = "present"
    BY <2>1 DEF CalmQueue
  <2>2. CASE last # "present"
    <3>1. 1 \in DOMAIN inbox /\ inbox[1] = Presence(TRUE)
      BY <1>5, <2>2, LastRead, HeadSeen
    <3>2. ASSUME NEW i \in DOMAIN inbox PROVE inbox[i] # Presence(FALSE)
      <4>1. i = 1 \/ 1 < i
        BY DEF Wired, TypeOK
      <4>2. Presence(TRUE) # Presence(FALSE)
        BY DEF Presence
      <4>3. QED
        BY <3>1, <4>1, <4>2 DEF CalmQueue
    <3>3. QED
      BY <3>1, <3>2 DEF CalmQueue
  <2>3. QED
    BY <2>1, <2>2
<1>6. ASSUME reported' # TRUE, NEW i \in DOMAIN inbox' PROVE inbox'[i] # Presence(TRUE)
  <2>1. \A j \in DOMAIN inbox : inbox[j] # Presence(TRUE)
    BY <1>1, <1>6 DEF CalmQueue
  <2>2. QED
    BY <1>3, <2>1
<1>7. ASSUME NEW i \in DOMAIN inbox', NEW j \in DOMAIN inbox', i < j, inbox'[i] = Presence(TRUE)
      PROVE  inbox'[j] # Presence(FALSE)
  <2>1. PICK k, l \in DOMAIN inbox : k < l /\ inbox'[i] = inbox[k] /\ inbox'[j] = inbox[l]
    BY <1>4, <1>7
  <2>2. inbox[l] # Presence(FALSE)
    BY <1>7, <2>1 DEF CalmQueue
  <2>3. QED
    BY <2>1, <2>2
<1>8. ASSUME last' = "present"
      PROVE  reported' = TRUE /\ \A i \in DOMAIN inbox' : inbox'[i] # Presence(FALSE)
  BY <1>1, <1>3, <1>5, <1>8
<1>9. QED
  BY <1>6, <1>7, <1>8 DEF CalmQueue

LEMMA CalmJudgeStep ==
    ASSUME Wired, CalmQueue, CalmJudge, JudgeSteps
    PROVE  CalmJudge'
<1> SUFFICES ASSUME failures' = {}
             PROVE  /\ stage' # "reader" => last' = "present"
                    /\ stage' \notin {"replug", "done"}
  BY DEF CalmJudge
<1>1. last = "present" => /\ SeenInbox # <<>> => Head(SeenInbox) # "absent"
  BY HeadSeen DEF CalmQueue
<1>2. ASSUME NEW e, Probe!Read(e), last = "present" PROVE e # "absent" /\ last' = "present"
  <2>1. e = Head(SeenInbox) /\ SeenInbox # <<>> /\ last' = IF e = "card" THEN last ELSE e
    BY <1>2 DEF Probe!Read
  <2>2. e \in {"present", "absent", "card"}
    <3>1. Head(SeenInbox) = SeenInbox[1] /\ 1 \in DOMAIN inbox
      BY <2>1, HeadSeen
    <3>2. QED
      BY <2>1, <3>1 DEF SeenInbox, Seeing, Reports
  <2>3. QED
    BY <1>1, <1>2, <2>1, <2>2
<1>3. ASSUME NEW e, Probe!Silence(e) PROVE e = "timeout" /\ last' = last
  BY <1>3 DEF Probe!Silence, Probe!history
<1>4. ASSUME NEW pass, NEW next, Probe!Verdict(pass, next)
      PROVE  failures = {} /\ pass /\ stage' = next
  BY <1>4 DEF Probe!Verdict
<1>5. ASSUME NEW e \in {"present", "absent", "card", "timeout"}, Probe!AwaitReader(e)
      PROVE  stage' = "phantom" /\ last' = "present"
  <2>1. e = "present" /\ Probe!Verdict(TRUE, "phantom")
    BY <1>4, <1>5 DEF Probe!AwaitReader
  <2>2. Probe!Read(e)
    BY <1>3, <1>5, <2>1 DEF Probe!AwaitReader
  <2>3. QED
    BY <1>4, <2>1, <2>2 DEF Probe!Read
<1>6. ASSUME NEW e \in {"present", "absent", "card", "timeout"}, Probe!AwaitTap(e)
      PROVE  stage' \notin {"replug", "done"} /\ last' = "present"
  <2>1. e = "card" /\ Probe!Verdict(TRUE, IF stage = "tap" THEN "held" ELSE "rearmed")
    BY <1>4, <1>6 DEF Probe!AwaitTap
  <2>2. failures = {} /\ stage' \in {"held", "rearmed"} /\ stage \in {"tap", "retap"}
    BY <1>4, <1>6, <2>1 DEF Probe!AwaitTap
  <2>3. QED
    BY <1>2, <1>3, <1>6, <2>2 DEF Probe!AwaitTap, CalmJudge
<1>7. ASSUME NEW e \in {"present", "absent", "card", "timeout"}, Probe!AwaitPlug(e)
      PROVE  stage' \notin {"replug", "done"} /\ last' = "present"
  <2>1. failures = {}
    BY <1>4, <1>7 DEF Probe!AwaitPlug, Probe!judge
  <2>2. stage = "unplug" /\ last = "present"
    BY <1>7, <2>1 DEF Probe!AwaitPlug, CalmJudge
  <2>3. e # "absent" /\ last' = "present"
    BY <1>2, <1>3, <1>7, <2>2 DEF Probe!AwaitPlug
  <2>4. stage' = stage
    BY <1>4, <1>7, <2>2, <2>3 DEF Probe!AwaitPlug, Probe!judge
  <2>5. QED
    BY <2>2, <2>3, <2>4
<1>8. ASSUME NEW e \in {"present", "absent", "card"}, Probe!Absorb(e)
      PROVE  stage' \notin {"replug", "done"} /\ last' = "present"
  <2>1. /\ stage \in {"phantom", "held", "removal", "rearmed"} /\ Probe!Read(e)
        /\ stage' = stage /\ failures = {}
    BY <1>8 DEF Probe!Absorb, Probe!Absorbing
  <2>2. last = "present"
    BY <2>1 DEF CalmJudge
  <2>3. QED
    BY <1>2, <2>1, <2>2
<1>9. CASE Probe!WindowEnds
  <2>1. stage \in {"phantom", "held", "removal", "rearmed"} /\ last' = last
    BY <1>9 DEF Probe!WindowEnds, Probe!Absorbing, Probe!history
  <2>2. Probe!After[stage] \in {"tap", "removal", "retap", "unplug"}
    BY <2>1 DEF Probe!After
  <2>3. failures = {} /\ stage' = Probe!After[stage]
    BY <1>4, <1>9 DEF Probe!WindowEnds
  <2>4. QED
    BY <2>1, <2>2, <2>3 DEF CalmJudge
<1>10. ~Probe!PlugDeadline
  BY <1>4 DEF Probe!PlugDeadline
<1>11. QED
  BY <1>5, <1>6, <1>7, <1>8, <1>9, <1>10 DEF JudgeSteps, Probe!Judge, Probe!Deadline

LEMMA CalmStep == Wired /\ CalmInv /\ [GateNext]_gateVars => CalmInv'
<1> SUFFICES ASSUME Wired, CalmInv, [GateNext]_gateVars, Calm'
             PROVE  CalmMonitor' /\ CalmQueue' /\ CalmJudge'
  BY DEF CalmInv
<1>1. CalmMonitor /\ CalmQueue /\ CalmJudge
  BY CalmBefore DEF CalmInv
<1>2. CalmMonitor'
  BY <1>1, CalmMonitorStep
<1>3. CASE JudgeSteps
  BY <1>1, <1>2, <1>3, CalmRead, CalmJudgeStep
<1>4. CASE WorldSteps \/ MonitorSteps
  <2>1. CalmQueue'
    BY <1>1, <1>4, CalmSend
  <2>2. CalmJudge'
    BY <1>1, <1>4, StepsOfMonitor DEF judge, CalmJudge
  <2>3. QED
    BY <1>2, <2>1, <2>2
<1>5. CASE UNCHANGED gateVars
  BY <1>1, <1>2, <1>5 DEF gateVars, vars, monitor, judge, CalmQueue, CalmJudge
<1>6. QED
  BY <1>3, <1>4, <1>5 DEF GateNext
-----------------------------------------------------------------------------
\* What the gate reports a pass of happened: two cards were put down, or one whose reader
\* was pulled under it, and after both a reader went away and came back.
THEOREM PassHappened == GateSpec => []PassIsReal
<1> DEFINE Story == Wired /\ CountInv /\ CalmInv
<1>1. GateSpec => []Story
  <2>1. GateInit => Story
    BY WiredInit, CountInit, CalmInit
  <2>2. Story /\ [GateNext]_gateVars => Story'
    BY WiredStep, CountStep, CalmStep
  <2> HIDE DEF Story
  <2>3. QED
    BY <2>1, <2>2, PTL DEF GateSpec
<1>2. Story /\ EarnedInv => PassIsReal
  <2> SUFFICES ASSUME Story, EarnedInv, code = 0 PROVE PassIsReal
    BY DEF PassIsReal
  <2>1. /\ stage = "done" /\ failures = {} /\ unplugged /\ last = "present" /\ Taps = 2
    BY DEF EarnedInv, Expected, Probe!Absorbing
  <2>2. used.pulls + used.outages > 0
    <3>1. used.pulls \in Nat /\ used.outages \in Nat
      BY DEF Wired, TypeOK, Limited
    <3>2. ~Calm
      BY <2>1 DEF CalmInv, CalmJudge
    <3>3. QED
      BY <3>1, <3>2 DEF Calm
  <2>3. /\ presented \in Seq(Placements) /\ Len(presented) = 2
        /\ DOMAIN presented = {1, 2} /\ presented = <<presented[1], presented[2]>>
        /\ presented[1] \in Placements /\ presented[2] \in Placements
    <3>1. presented \in Seq(Placements) /\ Len(presented) = 2
      BY <2>1 DEF Taps, CountInv
    <3>2. 1 .. 2 = {1, 2}
      OBVIOUS
    <3>3. DOMAIN presented = {1, 2}
      BY <3>1, <3>2
    <3>4. QED
      BY <3>1, <3>3
  <2>4. ASSUME presented[1] = presented[2] PROVE grants[presented[1]] > 1
    <3> DEFINE n == presented[1]
    <3>1. Holds(-1, n) /\ Holds(0, n)
      BY <2>3, <2>4 DEF Holds
    <3>2. taps[n] >= 2
      BY <2>3, <3>1 DEF CountInv
    <3>3. taps[n] <= grants[n] /\ taps[n] \in Nat /\ grants[n] \in Nat
      BY <2>3 DEF Wired, NoSpuriousTap, TypeOK
    <3>4. QED
      BY <3>2, <3>3
  <2>5. QED
    BY <2>1, <2>2, <2>3, <2>4 DEF PassIsReal
<1> HIDE DEF Story
<1>3. QED
  BY <1>1, <1>2, GateEarned, PTL
=============================================================================
