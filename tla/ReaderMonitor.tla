---------------------------- MODULE ReaderMonitor ----------------------------
(***************************************************************************)
(* The reader monitor of src-tauri/src/reader/mod.rs: a thread that        *)
(* enumerates the readers, waits for a change of their cards, and sends    *)
(* the core the presence of a reader and one message per card put down,    *)
(* through the queue core::actor::channel bounds.                          *)
(*                                                                         *)
(* Readers are plugged and pulled, cards put down and lifted, and the      *)
(* PC/SC service fails, at any moment; every placement of a card has a     *)
(* number of its own.  A wait may return at any time (it times out), with  *)
(* what lies on the readers at that instant; a reader pulled during the    *)
(* wait either reads as empty or makes the wait fail.  The core is reduced *)
(* to its queue, its presence bit and the chip being keyed.  Sleeps are    *)
(* left out; sim_set_reader, another sender of presence, is in             *)
(* StationCore.                                                            *)
(***************************************************************************)
EXTENDS Integers, Sequences, FiniteSets, Functions

CONSTANTS
    None,
    Readers,
    Capacity,  \* of the queue: 256
    Bound      \* how many of each of the Limited kinds of event

\* What is bounded: cards put down, readers pulled, outages of the service, messages
\* of other senders, kills of the process, and all of these together.
Limited == {"placements", "pulls", "outages", "others", "kills", "all"}

ASSUME ReaderMonitorAssumption ==
    /\ Capacity \in Nat \ {0}
    /\ Bound \in [Limited -> Nat]
    /\ None \notin BOOLEAN /\ None \notin {"present", "absent", 0, 1}

NoCard == 0
Placements == 1 .. Bound.placements

VARIABLES
    plugged,    \* the readers that are plugged in
    lying,      \* the placement on each reader, or NoCard
    service,    \* the PC/SC service answers
    phase,      \* where the monitor is
    reported,   \* reported_present
    cardState,  \* card_state
    watched,    \* watched
    matched,    \* what the last enumeration found
    readings,   \* what the last wait read and the loop has still to look at
    inbox,      \* the core's queue
    heard,      \* the core's reader_present
    keying,     \* the presentation being keyed
    taps,       \* history: presentations sent, of each placement
    grants,     \* history: how many each placement may cause
    moved,      \* history: placements lifted, or whose reader was pulled
    wrong,      \* history: presentations keyed on something else than their card
    used        \* how much of Bound is used up

world == <<plugged, lying, service>>
monitor == <<phase, reported, cardState, watched, matched, readings>>
core == <<heard, keying>>
history == <<taps, grants, moved, wrong>>
vars == <<world, monitor, inbox, core, history, used>>

Presence(p) == [kind |-> "presence", present |-> p]
Card(r, n) == [kind |-> "card", reader |-> r, placement |-> n]
Other == [kind |-> "other"]

Message == {Presence(p) : p \in BOOLEAN} \cup {Card(r, n) : r \in Readers, n \in Placements}
           \cup {Other}

TypeOK ==
    /\ plugged \subseteq Readers
    /\ lying \in [Readers -> Placements \cup {NoCard}]
    /\ service \in BOOLEAN
    /\ phase \in {"establish", "list", "listed", "wait", "look", "failed"}
    /\ reported \in BOOLEAN \cup {None}
    /\ \E S \in SUBSET watched : cardState \in [S -> BOOLEAN]
    /\ watched \subseteq Readers /\ matched \subseteq Readers
    /\ \E S \in SUBSET watched : readings \in [S -> Placements \cup {NoCard}]
    /\ inbox \in Seq(Message) /\ Len(inbox) <= Capacity
    /\ heard \in BOOLEAN
    /\ keying \in Message \cup {None}
    /\ taps \in [Placements -> Nat] /\ grants \in [Placements -> Nat]
    /\ moved \subseteq Placements /\ wrong \subseteq Placements
    /\ used \in [Limited -> Nat]
-----------------------------------------------------------------------------
May(what) == used[what] < Bound[what] /\ used.all < Bound.all
Use(what) == used' = [used EXCEPT ![what] = @ + 1, !.all = @ + 1]

Empty == [r \in {} |-> NoCard]

Init ==
    /\ plugged \in SUBSET Readers
    /\ lying = [r \in Readers |-> NoCard]
    /\ service = TRUE
    /\ phase = "establish" /\ reported = None
    /\ cardState = Empty /\ watched = {} /\ matched = {} /\ readings = Empty
    /\ inbox = <<>> /\ heard = FALSE /\ keying = None
    /\ taps = [n \in Placements |-> 0] /\ grants = taps
    /\ moved = {} /\ wrong = {}
    /\ used = [k \in Limited |-> 0]
-----------------------------------------------------------------------------
(* The world.  grants: a placement may be presented once; once more for    *)
(* every time its reader is pulled under it; not at all when it lay there  *)
(* before the process started.                                             *)

PutDown(r) ==
    /\ lying[r] = NoCard /\ May("placements") /\ Use("placements")
    /\ LET n == used.placements + 1 IN
         /\ lying' = [lying EXCEPT ![r] = n]
         /\ grants' = [grants EXCEPT ![n] = 1]
    /\ UNCHANGED <<plugged, service, monitor, inbox, core, taps, moved, wrong>>

Lift(r) ==
    /\ lying[r] # NoCard
    /\ lying' = [lying EXCEPT ![r] = NoCard]
    /\ moved' = moved \cup {lying[r]}
    /\ UNCHANGED <<plugged, service, monitor, inbox, core, taps, grants, wrong, used>>

Pull(r) ==
    /\ r \in plugged /\ May("pulls") /\ Use("pulls")
    /\ plugged' = plugged \ {r}
    /\ IF lying[r] = NoCard THEN UNCHANGED <<grants, moved>>
       ELSE /\ grants' = [grants EXCEPT ![lying[r]] = @ + 1]
            /\ moved' = moved \cup {lying[r]}
    /\ UNCHANGED <<lying, service, monitor, inbox, core, taps, wrong>>

Plug(r) ==
    /\ r \notin plugged /\ plugged' = plugged \cup {r}
    /\ UNCHANGED <<lying, service, monitor, inbox, core, history, used>>

Outage ==
    /\ service /\ May("outages") /\ Use("outages") /\ service' = FALSE
    /\ UNCHANGED <<plugged, lying, monitor, inbox, core, history>>

ServiceReturns ==
    /\ ~service /\ service' = TRUE
    /\ UNCHANGED <<plugged, lying, monitor, inbox, core, history, used>>

\* The process ends and a new one starts.
Kill ==
    /\ May("kills") /\ Use("kills")
    /\ phase' = "establish" /\ reported' = None
    /\ cardState' = Empty /\ watched' = {} /\ matched' = {} /\ readings' = Empty
    /\ inbox' = <<>> /\ heard' = FALSE /\ keying' = None
    /\ grants' = [n \in Placements |-> IF n \in Range(lying) THEN taps[n] ELSE grants[n]]
    /\ UNCHANGED <<world, taps, moved, wrong>>
-----------------------------------------------------------------------------
(* The queue of the core.                                                  *)

HasRoom == Len(inbox) < Capacity

OtherSends ==
    /\ HasRoom /\ May("others") /\ Use("others")
    /\ inbox' = Append(inbox, Other)
    /\ UNCHANGED <<world, monitor, core, history>>

Take ==
    /\ keying = None /\ inbox # <<>>
    /\ inbox' = Tail(inbox)
    /\ LET m == Head(inbox) IN
         /\ heard' = IF m.kind = "presence" THEN m.present ELSE heard
         /\ keying' = IF m.kind = "card" /\ heard THEN m ELSE None
    /\ UNCHANGED <<world, monitor, history, used>>

\* key_chip: the keying layer connects to whatever lies on the reader by then.
Keyed ==
    /\ keying # None /\ keying' = None
    /\ wrong' = IF keying.reader \in plugged /\ lying[keying.reader] = keying.placement
                THEN wrong ELSE wrong \cup {keying.placement}
    /\ UNCHANGED <<world, monitor, inbox, heard, taps, grants, moved, used>>
-----------------------------------------------------------------------------
(* The monitor.  Definitions whose names end in "Faulty" are plausible     *)
(* bugs, each beside the definition it imitates.                           *)

\* blocking_send waits while the queue is full.
Send(m) == HasRoom /\ inbox' = Append(inbox, m)

\* Faulty: the queue's refusal is not waited for, and what was reported is noted all
\* the same.
ReportPresenceFaulty(p) ==
    /\ reported' = p
    /\ IF reported # p /\ HasRoom THEN Send(Presence(p)) ELSE UNCHANGED inbox

ReportPresence(p) ==
    /\ reported' = p
    /\ IF reported # p THEN Send(Presence(p)) ELSE UNCHANGED inbox

\* Context::establish: a context leads to a new watch(), with nothing known.
Establish ==
    /\ phase = "establish"
    /\ phase' = IF service THEN "list" ELSE "failed"
    /\ cardState' = Empty /\ watched' = {} /\ matched' = {} /\ readings' = Empty
    /\ UNCHANGED <<world, reported, inbox, core, history, used>>

\* list_readers
ListReaders ==
    /\ phase = "list"
    /\ IF service THEN matched' = plugged /\ phase' = "listed"
                  ELSE phase' = "failed" /\ UNCHANGED matched
    /\ UNCHANGED <<world, reported, cardState, watched, readings, inbox, core, history, used>>

\* Faulty: whatever reader comes or goes, nothing is known of the others.
RetainedFaulty == Empty
Retained == Restrict(cardState, matched \cap DOMAIN cardState)

\* The presence is reported and what is watched adapted, before any card is looked at.
Enumerated ==
    /\ phase = "listed"
    /\ ReportPresence(matched # {})
    /\ watched' = matched
    /\ cardState' = IF matched # watched THEN Retained ELSE cardState
    /\ phase' = IF matched = {} THEN "list" ELSE "wait"
    /\ UNCHANGED <<world, matched, readings, core, history, used>>

\* get_status_change returns: changes or the timeout.
StatusChange ==
    /\ phase = "wait" /\ service
    /\ readings' = [r \in watched |-> IF r \in plugged THEN lying[r] ELSE NoCard]
    /\ phase' = "look"
    /\ UNCHANGED <<world, reported, cardState, watched, matched, inbox, core, history, used>>

StatusFails ==
    /\ phase = "wait" /\ (~service \/ watched \ plugged # {})
    /\ phase' = "failed"
    /\ UNCHANGED <<world, reported, cardState, watched, matched, readings, inbox, core, history,
                   used>>

\* Faulty: the first observation of a reader is an edge, too.
IsEdgeFaulty(r) == readings[r] # NoCard /\ (r \in DOMAIN cardState => ~cardState[r])
IsEdge(r) == readings[r] # NoCard /\ r \in DOMAIN cardState /\ ~cardState[r]

\* Faulty: the taps of all readers are sent as the first one's.
TapOfFaulty(r) == Card(CHOOSE q \in watched : TRUE, readings[r])
TapOf(r) == Card(r, readings[r])

\* The body of the loop over the readers' states, for one reader.
Look(r) ==
    /\ phase = "look" /\ r \in DOMAIN readings
    /\ IF IsEdge(r)
       THEN Send(TapOf(r)) /\ taps' = [taps EXCEPT ![readings[r]] = @ + 1]
       ELSE UNCHANGED <<inbox, taps>>
    /\ cardState' = [q \in DOMAIN cardState \cup {r} |->
                        IF q = r THEN readings[r] # NoCard ELSE cardState[q]]
    /\ readings' = Restrict(readings, DOMAIN readings \ {r})
    /\ phase' = IF DOMAIN readings = {r} THEN "list" ELSE "look"
    /\ UNCHANGED <<world, reported, watched, matched, core, grants, moved, wrong, used>>

\* Faulty: after an error the context is made anew without a report.
FailedFaulty ==
    /\ phase = "failed" /\ phase' = "establish"
    /\ UNCHANGED <<world, reported, cardState, watched, matched, readings, inbox, core, history,
                   used>>

\* No context, or watch() returned an error.
Failed ==
    /\ phase = "failed" /\ phase' = "establish"
    /\ ReportPresence(FALSE)
    /\ UNCHANGED <<world, cardState, watched, matched, readings, core, history, used>>
-----------------------------------------------------------------------------
World == \E r \in Readers : PutDown(r) \/ Lift(r) \/ Pull(r) \/ Plug(r)

Monitor ==
    \/ Establish \/ ListReaders \/ Enumerated \/ StatusChange \/ StatusFails \/ Failed
    \/ \E r \in Readers : Look(r)

Core == Take \/ Keyed

Next == World \/ Outage \/ ServiceReturns \/ Kill \/ OtherSends \/ Core \/ Monitor

Spec == Init /\ [][Next]_vars

\* The monitor's thread runs, and so does the core: key_chip answers.
FairSpec == Spec /\ WF_vars(Monitor) /\ WF_vars(Core)
-----------------------------------------------------------------------------
\* What the core will have heard of the presence when it takes message i.
HeardBefore(i) ==
    \/ heard /\ \A j \in 1 .. i - 1 : inbox[j].kind # "presence"
    \/ \E j \in 1 .. i - 1 : /\ inbox[j] = Presence(TRUE)
                            /\ \A k \in j + 1 .. i - 1 : inbox[k].kind # "presence"

\* No tap is thrown away as "presented while disconnected" for want of the presence:
\* whatever errors, removals and full queues came before, the core learns of a reader
\* before it learns of a card on one.
PresenceFirst == \A i \in DOMAIN inbox : inbox[i].kind = "card" => HeardBefore(i)

\* A card is presented once for being put down, never for lying there when the process
\* or a new watch() starts, and again only if its reader was pulled meanwhile.
NoSpuriousTap == \A n \in Placements : taps[n] <= grants[n]

\* A chip is keyed in place of the one that was presented only if that was taken off the
\* reader before its turn came, never for a mix-up of readers, queues and enumerations.
WrongOnlyIfMoved == wrong \subseteq moved

Up == service /\ plugged # {}

\* The core's presence bit ends up what it is in the world, whatever reports were
\* suppressed as repetitions.
PresenceConverges == (<>[]Up => <>[]heard) /\ (<>[]~Up => <>[]~heard)

\* A card put down on a reader known to be empty is presented, unless it is lifted, its
\* reader pulled, or the service or the process fails, first.  The reader must also not
\* have been read with another card meanwhile: a card swapped for the next one between
\* two waits is never presented.
TapNoticed ==
    \A r \in Readers, n \in Placements :
        (/\ r \in plugged /\ lying[r] = n
         /\ r \in matched /\ r \in DOMAIN cardState /\ ~cardState[r]
         /\ r \in DOMAIN readings => readings[r] \in {NoCard, n})
            ~> (taps[n] > 0 \/ lying[r] # n \/ r \notin plugged \/ ~service
                \/ phase = "establish")

\* Claim: "the card must return to EMPTY before the next one counts".
OnceUntilLifted == \A n \in Placements : taps[n] <= 1
=============================================================================
