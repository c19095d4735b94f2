------------------------------ MODULE ReaderGate -----------------------------
(***************************************************************************)
(* The hardware gate as it runs (src-tauri/src/probe.rs, run): the thread  *)
(* of ReaderMonitor, its queue, and the judge of ReaderProbe reading from  *)
(* that queue in the place of the core, until the judge exits the process. *)
(* Nobody else sends, and the core of ReaderMonitor takes no part.         *)
(***************************************************************************)
EXTENDS ReaderMonitor

VARIABLES
    stage, again, presence, failures, code, last, unplugged, flapped,  \* ReaderProbe's
    presented   \* history: the placements of the presentations read before the unplugging

judge == <<stage, again, presence, failures, code, last, unplugged, flapped, presented>>
gateVars == <<vars, judge>>

\* The judge looks at the kind of a message only (enum Seen).
Reports(p) == IF p THEN "present" ELSE "absent"
Seeing(m) == IF m.kind = "card" THEN "card" ELSE Reports(m.present)

SeenInbox == [i \in DOMAIN inbox |-> Seeing(inbox[i])]
SeenReported == IF reported = None THEN None ELSE Reports(reported)
Taps == Len(presented)

\* The monitor as the judge sees it.
Probe == INSTANCE ReaderProbe WITH inbox <- SeenInbox, reported <- SeenReported, taps <- Taps

GateInit == Init /\ presented = <<>> /\ Probe!Init

\* The receiver's recv, of the message whole.
Receive ==
    /\ inbox # <<>> /\ inbox' = Tail(inbox)
    /\ presented' = IF /\ Head(inbox).kind = "card" /\ stage \notin {"unplug", "replug"}
                       /\ Len(presented) < Probe!TooMany
                    THEN Append(presented, Head(inbox).placement) ELSE presented

JudgeSteps ==
    /\ UNCHANGED <<world, monitor, core, history, used>>
    /\ Receive \/ UNCHANGED <<inbox, presented>>
    /\ Probe!Judge \/ Probe!Deadline

\* The monitor's thread ends with the process.
MonitorSteps == stage # "done" /\ Monitor /\ UNCHANGED judge

WorldSteps == (World \/ Outage \/ ServiceReturns) /\ UNCHANGED judge

GateNext == WorldSteps \/ MonitorSteps \/ JudgeSteps

GateSpec == GateInit /\ [][GateNext]_gateVars
-----------------------------------------------------------------------------
\* The monitor sends what ReaderProbe takes it to send, presences that change and
\* presentations while a reader is present, and the judge reads it as there.
ImplementsProbe == Probe!Spec

\* The gate passes only when the operator did what was asked, whatever came in between: a
\* reader went away, because one was pulled or the service failed, and is back; and two
\* cards were put down, or one whose reader was pulled under it.
PassIsReal ==
    code = 0 =>
      /\ unplugged /\ last = "present" /\ used.pulls + used.outages > 0
      /\ \E m, n \in Placements : presented = <<m, n>> /\ (m = n => grants[m] > 1)
=============================================================================
