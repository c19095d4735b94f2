----------------------------- MODULE ReaderProbe -----------------------------
(***************************************************************************)
(* The guided hardware gate of src-tauri/src/probe.rs (--reader-probe): a  *)
(* judge that reads the reader monitor's messages from the queue the core  *)
(* would have and scores the monitor in four cases, while an operator puts *)
(* down and lifts a card, pulls the reader and plugs it in again.          *)
(*                                                                         *)
(* The monitor is ReaderMonitor's seen from its queue: presences that      *)
(* change, and presentations while a reader is present, at any moment,     *)
(* whatever the operator was asked for.  Durations are left out: a window  *)
(* may end at any time.                                                    *)
(***************************************************************************)
EXTENDS Naturals, Sequences

CONSTANTS None, Capacity   \* of the queue: 256

ASSUME ProbeAssumption == Capacity \in Nat \ {0} /\ None \notin {"present", "absent", 0, 1}

VARIABLES
    inbox,      \* the queue of the monitor's messages
    reported,   \* the last presence the monitor sent
    stage,      \* what the judge waits for
    again,      \* of a window being absorbed: a presentation was read,
    presence,   \* and the last presence
    failures,   \* the cases that failed
    code,       \* the exit code
    taps,       \* history: presentations read before the unplugging, at most TooMany
    last,       \* history: the last presence read
    unplugged,  \* history: the absence of a reader was read as the answer to the prompt
    flapped     \* history: a presence was read while the card was removed

judge == <<stage, again, presence, failures, code>>
history == <<taps, last, unplugged, flapped>>
vars == <<inbox, reported, judge, history>>

Awaiting == {"reader", "tap", "retap", "unplug", "replug"}
Absorbing == {"phantom", "held", "removal", "rearmed"}
TooMany == 3

TypeOK ==
    /\ inbox \in Seq({"present", "absent", "card"}) /\ Len(inbox) <= Capacity
    /\ reported \in {"present", "absent", None}
    /\ stage \in Awaiting \cup Absorbing \cup {"done"}
    /\ again \in BOOLEAN
    /\ presence \in {"present", "absent", None}
    /\ failures \subseteq Awaiting \cup Absorbing
    /\ code \in {0, 1, None} /\ (code # None <=> stage = "done")
    /\ taps \in 0 .. TooMany
    /\ last \in {"present", "absent", None}
    /\ unplugged \in BOOLEAN /\ flapped \in BOOLEAN

Init ==
    /\ inbox = <<>> /\ reported = None
    /\ stage = "reader" /\ again = FALSE /\ presence = None
    /\ failures = {} /\ code = None
    /\ taps = 0 /\ last = None /\ unplugged = FALSE /\ flapped = FALSE
-----------------------------------------------------------------------------
\* The monitor's blocking_send.
Send(e) ==
    /\ Len(inbox) < Capacity
    /\ IF e = "card" THEN reported = "present" ELSE reported # e
    /\ inbox' = Append(inbox, e)
    /\ reported' = IF e = "card" THEN reported ELSE e
    /\ UNCHANGED <<judge, history>>

\* Probe::next without the timeout.
Read(e) ==
    /\ inbox # <<>> /\ e = Head(inbox)
    /\ inbox' = Tail(inbox)
    /\ taps' = IF e = "card" /\ stage \notin {"unplug", "replug"} /\ taps < TooMany
               THEN taps + 1 ELSE taps
    /\ last' = IF e = "card" THEN last ELSE e
    /\ unplugged' = (unplugged \/ (stage = "unplug" /\ e = "absent"))
    /\ flapped' = (flapped \/ (stage = "removal" /\ e # "card"))
    /\ UNCHANGED reported

Silence(e) == e = "timeout" /\ inbox = <<>> /\ UNCHANGED <<inbox, reported, history>>

\* Probe::verdict, and on to the next prompt or the end.
Verdict(pass, next) ==
    /\ failures' = IF pass THEN failures ELSE failures \cup {stage}
    /\ stage' = next
    /\ again' = FALSE /\ presence' = None
    /\ code' = IF next # "done" THEN None ELSE IF failures' = {} THEN 0 ELSE 1

\* Case 1: without a visible reader nothing else is attempted.
AwaitReader(e) ==
    /\ stage = "reader" /\ (Read(e) \/ Silence(e))
    /\ \/ e = "present" /\ Verdict(TRUE, "phantom")
       \/ e \in {"absent", "timeout"} /\ Verdict(FALSE, "done")
       \/ e = "card" /\ Verdict(FALSE, "tap")

\* Cases 2 and 3: the card is presented.
AwaitTap(e) ==
    /\ stage \in {"tap", "retap"} /\ (Read(e) \/ Silence(e))
    /\ IF e = "card" THEN Verdict(TRUE, IF stage = "tap" THEN "held" ELSE "rearmed")
                     ELSE Verdict(FALSE, IF stage = "tap" THEN "removal" ELSE "unplug")

\* Probe::absorb.
Absorb(e) ==
    /\ stage \in Absorbing /\ Read(e)
    /\ again' = (again \/ e = "card")
    /\ presence' = IF e = "card" THEN presence ELSE e
    /\ UNCHANGED <<stage, failures, code>>

\* What follows a window.
After == [phantom |-> "tap", held |-> "removal", removal |-> "retap", rearmed |-> "unplug"]

\* Faulty: what the last window read is not judged.
WindowEndsFaulty ==
    /\ stage \in Absorbing
    /\ Verdict(stage = "rearmed" \/ (~again /\ (stage = "removal" => presence # "absent")),
               After[stage])
    /\ UNCHANGED <<inbox, reported, history>>

WindowEnds ==
    /\ stage \in Absorbing
    /\ Verdict(~again /\ (stage = "removal" => presence # "absent"), After[stage])
    /\ UNCHANGED <<inbox, reported, history>>

\* Case 4: other messages are passed over.
AwaitPlug(e) ==
    /\ stage \in {"unplug", "replug"} /\ (Read(e) \/ Silence(e))
    /\ IF e = (IF stage = "unplug" THEN "absent" ELSE "present")
       THEN Verdict(TRUE, IF stage = "unplug" THEN "replug" ELSE "done")
       ELSE IF e = "timeout" THEN Verdict(FALSE, "done") ELSE UNCHANGED judge

\* Faulty: the wait starts anew with every message that is passed over.
PlugDeadlineFaulty ==
    /\ stage \in {"unplug", "replug"} /\ inbox = <<>>
    /\ Verdict(FALSE, "done")
    /\ UNCHANGED <<inbox, reported, history>>

PlugDeadline ==
    /\ stage \in {"unplug", "replug"}
    /\ Verdict(FALSE, "done")
    /\ UNCHANGED <<inbox, reported, history>>
-----------------------------------------------------------------------------
Judge ==
    \/ \E e \in {"present", "absent", "card", "timeout"} :
         AwaitReader(e) \/ AwaitTap(e) \/ AwaitPlug(e)
    \/ \E e \in {"present", "absent", "card"} : Absorb(e)

Deadline == WindowEnds \/ PlugDeadline

Next == Judge \/ Deadline \/ \E e \in {"present", "absent", "card"} : Send(e)

Spec == Init /\ [][Next]_vars

\* The judge runs, and time passes.
FairSpec == Spec /\ WF_vars(Judge) /\ WF_vars(Deadline)
-----------------------------------------------------------------------------
\* The gate passes a monitor only on two presentations, no more, whatever else came in
\* between, and on a reader that went away when asked and is back.
PassIsEarned == code = 0 => taps = 2 /\ unplugged /\ last = "present"

\* The gate ends however busy or silent the monitor is.
Ends == <>(stage = "done")
-----------------------------------------------------------------------------
(* A claim of the program that its code does not keep.                     *)

\* "no events, no presence flap on removal" (what case 3 prints).
FlapFails == code = 0 => ~flapped
=============================================================================
