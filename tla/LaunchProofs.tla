----------------------------- MODULE LaunchProofs -----------------------------
(***************************************************************************)
(* Proofs about Launch for any number of processes, Windows sessions and   *)
(* verdicts: gates do not pass unchecked, a station in production stays,   *)
(* and a saved verdict is let go only by a process that has it, but for the*)
(* first save of one that loaded too early.                                *)
(***************************************************************************)
EXTENDS Launch, TLAPS

Present(p) == phase[p] # "none"

HasCli == \A p \in Procs : Present(p) => cli[p] \in Cli

\* No verification run ever hands itself to a primary.
NeverSends ==
    \A p \in Procs : /\ phase[p] = "sending" => cli[p].mode \notin Verification
                     /\ sendingTo[p] # None => phase[p] = "sending"

\* An exit code 0 that a verification run has, or is about to end with, is its own, or
\* its operator's.
OwnVerdict ==
    \A p \in Procs : phase[p] \in {"closing", "gone"} /\ code[p] = "0"
                     /\ cli[p].mode \in Verification
                     => p \in passed \/ p \in dismissed

\* A process has the console it asked for or none, the fault screen only from a watchdog
\* that gave up, and windows at all only once it runs, if it is no probe and no sender.
Screens ==
    \A p \in Procs : /\ "sim" \in windows[p] => "sim" \in cli[p].flags
                     /\ "fault" \in windows[p] => p \notin watched
                     /\ windows[p] # {} \/ p \in watched
                        => phase[p] \in {"running", "closing"} /\ HasWindows(cli[p].mode)

Serving(p) == phase[p] \in {"running", "closing"} /\ HasWindows(cli[p].mode)

\* The web view's data directory keeps the processes with windows apart.
OneServes == \A p, q \in Procs : Serving(p) /\ Serving(q) => p = q

\* Who was not overtaken, or has saved since, holds everything session.json holds.
NotBehind ==
    \A p \in Procs :
      Alive(p) /\ p \notin overtaken /\ cli[p].mode \in {"station", "spike"}
      => file["session.json"] \subseteq mem[p]

IInv == TypeOK /\ HasCli /\ NeverSends /\ OwnVerdict /\ Screens /\ OneServes /\ NotBehind

LEMMA InitIInv == Init => IInv
<1> SUFFICES ASSUME Init PROVE IInv
  OBVIOUS
<1>1. TypeOK
  BY DEF Init, TypeOK, Phases, Codes
<1> QED
  BY <1>1 DEF Init, IInv, Present, HasCli, NeverSends, OwnVerdict, Screens, Serving,
              OneServes, Alive, NotBehind

\* The end of a process disturbs nobody else.
LEMMA EndsIInv ==
  ASSUME IInv, NEW p \in Procs, NEW c \in Codes, Ends(p, c), Present(p),
         c = "0" /\ cli[p].mode \in Verification => p \in passed \/ p \in dismissed
  PROVE  IInv'
<1> USE DEF IInv, Ends, Present, outcomes
<1>1. TypeOK'
  BY DEF TypeOK, Phases
<1>2. HasCli' /\ NeverSends'
  BY DEF HasCli, NeverSends, TypeOK
<1>3. OwnVerdict' /\ Screens'
  BY DEF OwnVerdict, Screens, TypeOK
<1>4. OneServes'
  BY DEF OneServes, Serving, TypeOK
<1>5. NotBehind'
  BY DEF NotBehind, Alive, TypeOK
<1> QED BY <1>1, <1>2, <1>3, <1>4, <1>5

\* What a step may do to the windows and the watchdogs.
ScreensStep(p) ==
    /\ windows' \in [Procs -> SUBSET {"main", "sim", "fault"}] /\ watched' \subseteq Procs
    /\ \A q \in Procs : \/ windows'[q] = windows[q] /\ (q \in watched' <=> q \in watched)
                      \/ /\ q = p
                         /\ "sim" \in windows'[p] => "sim" \in cli[p].flags
                         /\ "fault" \in windows'[p] => p \notin watched'
                         /\ HasWindows(cli[p].mode)

LEMMA ExitsIInv ==
  ASSUME IInv, NEW p \in Procs, NEW c \in Codes, Exits(p, c), Alive(p), ScreensStep(p),
         passed' \subseteq Procs, passed \subseteq passed',
         dismissed' \subseteq Procs, dismissed \subseteq dismissed',
         c = "0" /\ cli[p].mode \in Verification => p \in passed' \/ p \in dismissed',
         phase[p] # "sending", phase[p] = "running" \/ ~HasWindows(cli[p].mode)
  PROVE  IInv'
<1> USE DEF IInv, Exits, Present, Alive, instances, store
<1>1. TypeOK'
  BY DEF TypeOK, Phases, ScreensStep
<1>2. HasCli' /\ NeverSends'
  BY DEF HasCli, NeverSends, TypeOK
<1>3. OwnVerdict'
  BY DEF OwnVerdict, TypeOK
<1>4. Screens'
  BY DEF Screens, ScreensStep, TypeOK
<1>5. OneServes'
  BY DEF OneServes, Serving, TypeOK
<1>6. NotBehind'
  BY DEF NotBehind, TypeOK
<1> QED BY <1>1, <1>2, <1>3, <1>4, <1>5, <1>6

\* A step that changes the windows of a running process and nothing else.
LEMMA WindowsIInv ==
  ASSUME IInv, NEW p \in Procs, phase[p] = "running", ScreensStep(p),
         UNCHANGED <<cli, phase, code, instances, store, outcomes>>
  PROVE  IInv'
<1> USE DEF IInv, instances, store, outcomes
<1>1. TypeOK'
  BY DEF TypeOK, ScreensStep
<1>2. HasCli' /\ NeverSends' /\ OwnVerdict' /\ OneServes' /\ NotBehind'
  BY DEF HasCli, Present, NeverSends, OwnVerdict, OneServes, Serving, NotBehind, Alive
<1>3. Screens'
  BY DEF Screens, ScreensStep
<1> QED BY <1>1, <1>2, <1>3

LEMMA GoesIInv ==
  ASSUME IInv, NEW p \in Procs, NEW next \in {"setup", "running"}, Goes(p, next), Alive(p),
         phase[p] # "sending", ScreensStep(p),
         next = "setup" => windows'[p] = windows[p] /\ (p \in watched' => p \in watched),
         next = "setup" => phase[p] = "started",
         next = "running" /\ HasWindows(cli[p].mode) => WindowsFree(p)
  PROVE  IInv'
<1> USE DEF IInv, Goes, Alive, instances, store, outcomes
<1>1. TypeOK'
  BY DEF TypeOK, Phases, ScreensStep
<1>2. HasCli' /\ NeverSends'
  BY DEF HasCli, NeverSends, TypeOK, Present
<1>3. OwnVerdict'
  BY DEF OwnVerdict, TypeOK
<1>4. Screens'
  BY DEF Screens, ScreensStep, TypeOK
<1>5. OneServes'
  BY DEF OneServes, Serving, TypeOK, WindowsFree, Others
<1>6. NotBehind'
  BY DEF NotBehind, TypeOK
<1> QED BY <1>1, <1>2, <1>3, <1>4, <1>5, <1>6

LEMMA SaveIInv ==
  ASSUME IInv, NEW p \in Procs, NEW session \in SUBSET Taps, Save(p, session),
         phase[p] = "running", HasWindows(cli[p].mode)
  PROVE  IInv'
<1> USE DEF IInv, Save, instances, screens, outcomes
<1>1. TypeOK'
  BY DEF TypeOK, FileOf, Files, Others
<1>2. HasCli' /\ NeverSends' /\ OwnVerdict' /\ OneServes' /\ Screens'
  BY DEF HasCli, NeverSends, OwnVerdict, OneServes, Serving, Present, Screens
<1>3. NotBehind'
  <2> SUFFICES ASSUME NEW q \in Procs, Alive(q)', q \notin overtaken',
                      (cli[q].mode \in {"station", "spike"})'
               PROVE  file'["session.json"] \subseteq mem'[q]
    BY DEF NotBehind
  <2>1. CASE q = p
    BY <2>1 DEF TypeOK, FileOf, Files
  <2>2. CASE q # p
    <3>1. CASE cli[p].mode = "conformance"
      BY <2>2, <3>1 DEF NotBehind, Alive, TypeOK, FileOf, Files
    <3>2. CASE cli[p].mode # "conformance"
      <4>1. FileOf(cli[q].mode) = FileOf(cli[p].mode)
        BY <3>2 DEF FileOf
      <4>2. phase[q] = "running"
        BY <2>2, <4>1 DEF Others, Alive
      <4> QED BY <2>2, <4>2 DEF OneServes, Serving, HasWindows
    <3> QED BY <3>1, <3>2
  <2> QED BY <2>1, <2>2
<1> QED BY <1>1, <1>2, <1>3

\* Only Save changes session.json.
LEMMA StepIInv == IInv /\ [Next]_vars => IInv'
<1> SUFFICES ASSUME IInv, [Next]_vars PROVE IInv'
  OBVIOUS
<1>0. CASE UNCHANGED vars
  BY <1>0 DEF vars, instances, screens, store, outcomes, IInv, TypeOK, HasCli, NeverSends,
              OwnVerdict, Screens, OneServes, NotBehind, Present, Serving, Alive
<1>1. ASSUME NEW p \in Procs, NEW c \in Launches, Start(p, c) PROVE IInv'
  <2> USE <1>1, LaunchAssumption DEF IInv, Start, instances, screens, outcomes
  <2>1. TypeOK'
    <3>1. sendingTo[p] = None
      BY DEF NeverSends
    <3> QED BY <3>1 DEF TypeOK, Phases, FileOf, Files
  <2>2. HasCli' /\ NeverSends' /\ OwnVerdict' /\ OneServes' /\ Screens'
    BY DEF HasCli, NeverSends, OwnVerdict, OneServes, Serving, Present, TypeOK, Screens
  <2>3. NotBehind'
    BY DEF NotBehind, Alive, TypeOK, FileOf, Files
  <2> QED BY <2>1, <2>2, <2>3
<1>2. ASSUME NEW p \in Procs, Register(p) PROVE IInv'
  <2> USE <1>2 DEF IInv, Register, screens, store, outcomes
  <2>1. TypeOK'
    <3>1. cli[p].mode \in Modes /\ cli[p].session \in Sessions
      BY DEF HasCli, Present, Cli
    <3>2. cli[p].mode \in {"station", "quit"}
      BY <3>1 DEF Registers, Modes
    <3> QED BY <3>1, <3>2 DEF TypeOK, Phases
  <2>2. HasCli' /\ NeverSends' /\ OwnVerdict' /\ OneServes' /\ Screens'
    BY DEF HasCli, NeverSends, OwnVerdict, OneServes, Serving, Present, TypeOK, Screens, Registers
  <2>3. NotBehind'
    BY DEF NotBehind, Alive, TypeOK
  <2> QED BY <2>1, <2>2, <2>3
<1>3. ASSUME NEW p \in Procs, SkipPlugin(p) PROVE IInv'
  BY <1>3, GoesIInv DEF SkipPlugin, Alive, ScreensStep, screens, IInv, TypeOK
<1>4. ASSUME NEW p \in Procs, NEW q \in Procs, Deliver(p, q) PROVE IInv'
  <2> USE <1>4 DEF IInv, Deliver, screens, outcomes
  <2>1. TypeOK'
    BY DEF TypeOK, Phases, Codes
  <2>2. HasCli' /\ NeverSends' /\ OneServes' /\ Screens'
    BY DEF HasCli, NeverSends, OneServes, Serving, Present, TypeOK, Screens
  <2>3. OwnVerdict'
    BY DEF OwnVerdict, NeverSends, TypeOK, Honors, ChordArmed, Verification
  <2>4. NotBehind'
    BY DEF NotBehind, Alive, TypeOK
  <2> QED BY <2>1, <2>2, <2>3, <2>4
<1>5. ASSUME NEW p \in Procs, SendFails(p) PROVE IInv'
  BY <1>5, EndsIInv DEF SendFails, Present, IInv, NeverSends, Codes
<1>6. ASSUME NEW p \in Procs, SetupQuit(p) PROVE IInv'
  <2>1. /\ ~HasWindows(cli[p].mode) /\ Alive(p) /\ phase[p] # "sending" /\ ScreensStep(p)
        /\ UNCHANGED <<passed, dismissed>> /\ passed \subseteq Procs /\ dismissed \subseteq Procs
    BY <1>6 DEF SetupQuit, HasWindows, Alive, IInv, TypeOK, ScreensStep, screens, outcomes
  <2>2. \E c \in {"3", "4"} : Exits(p, c)
    BY <1>6 DEF SetupQuit
  <2> QED BY <2>1, <2>2, ExitsIInv DEF Codes
<1>7. ASSUME NEW p \in Procs, SetupProbe(p) PROVE IInv'
  BY <1>7, GoesIInv DEF SetupProbe, Alive, HasWindows, ScreensStep, screens, IInv, TypeOK
<1>8. ASSUME NEW p \in Procs, SetupWindows(p) PROVE IInv'
  <2>1. ScreensStep(p)
    BY <1>8 DEF SetupWindows, ScreensStep, IInv, TypeOK
  <2> QED BY <1>8, <2>1, GoesIInv DEF SetupWindows, Alive
<1>8a. ASSUME NEW p \in Procs, SetupFails(p) PROVE IInv'
  BY <1>8a, EndsIInv DEF SetupFails, Present, Codes
<1>9. ASSUME NEW p \in Procs, NEW t \in Taps, SaveTap(p, t) PROVE IInv'
  <2>1. mem[p] \cup {t} \in SUBSET Taps
    BY DEF IInv, TypeOK
  <2> QED BY <1>9, <2>1, SaveIInv DEF SaveTap
<1>10. ASSUME NEW p \in Procs, NewSession(p) PROVE IInv'
  BY <1>10, SaveIInv DEF NewSession
<1>11. ASSUME NEW p \in Procs, ChordHeld(p) \/ CanaryLost(p) \/ NoReport(p) PROVE IInv'
  <2>1. /\ Alive(p) /\ phase[p] = "running" /\ ScreensStep(p)
        /\ UNCHANGED <<passed, dismissed>> /\ passed \subseteq Procs /\ dismissed \subseteq Procs
    BY <1>11 DEF ChordHeld, CanaryLost, NoReport, Alive, IInv, TypeOK, ScreensStep, screens,
                 outcomes
  <2>2. \E c \in Codes : Exits(p, c) /\ (c = "0" => cli[p].mode = "station")
    BY <1>11 DEF ChordHeld, CanaryLost, NoReport, ChordArmed, Codes
  <2> QED BY <2>1, <2>2, ExitsIInv DEF Verification
<1>12. ASSUME NEW p \in Procs, NEW ok \in BOOLEAN, Verdict(p, ok) PROVE IInv'
  <2>1. /\ Alive(p) /\ phase[p] = "running" /\ ScreensStep(p)
        /\ passed' \subseteq Procs /\ passed \subseteq passed'
        /\ UNCHANGED dismissed /\ dismissed \subseteq Procs
    BY <1>12 DEF Verdict, Alive, IInv, TypeOK, ScreensStep, screens
  <2>2. \E c \in Codes : Exits(p, c) /\ (c = "0" => p \in passed')
    BY <1>12 DEF Verdict, Codes
  <2> QED BY <2>1, <2>2, ExitsIInv
<1>12a. ASSUME NEW p \in Procs, NEW w \in windows[p], CloseWindow(p, w) PROVE IInv'
  <2>1. phase[p] = "running" /\ ScreensStep(p)
    BY <1>12a DEF CloseWindow, ScreensStep, IInv, TypeOK, Screens
  <2>2. CASE windows'[p] = {}
    <3>1. /\ Exits(p, "0") /\ dismissed' = dismissed \cup {p} /\ passed' = passed
          /\ passed \subseteq Procs /\ dismissed \subseteq Procs
      BY <1>12a, <2>2 DEF CloseWindow, IInv, TypeOK
    <3> QED BY <2>1, <3>1, ExitsIInv DEF Codes, Alive
  <2>3. CASE windows'[p] # {}
    BY <1>12a, <2>1, <2>3, WindowsIInv DEF CloseWindow, outcomes
  <2> QED BY <2>2, <2>3
<1>12b. ASSUME NEW p \in Procs, SimQuit(p) PROVE IInv'
  <2>1. /\ phase[p] = "running" /\ ScreensStep(p) /\ Exits(p, "0")
        /\ dismissed' = dismissed \cup {p} /\ passed' = passed
        /\ passed \subseteq Procs /\ dismissed \subseteq Procs
    BY <1>12b DEF SimQuit, ScreensStep, screens, IInv, TypeOK
  <2> QED BY <2>1, ExitsIInv DEF Codes, Alive
<1>12c. ASSUME NEW p \in Procs, Recreate(p) PROVE IInv'
  <2>1. ScreensStep(p)
    BY <1>12c DEF Recreate, ScreensStep, IInv, TypeOK, Screens
  <2> QED BY <1>12c, <2>1, WindowsIInv DEF Recreate
<1>12d. ASSUME NEW p \in Procs, GiveUp(p) PROVE IInv'
  <2>1. ScreensStep(p)
    BY <1>12d DEF GiveUp, ScreensStep, IInv, TypeOK, Screens
  <2>2. CASE UNCHANGED <<cli, phase, code, instances, store>>
    BY <1>12d, <2>1, <2>2, WindowsIInv DEF GiveUp
  <2>3. CASE Exits(p, "70")
    <3>1. /\ UNCHANGED <<passed, dismissed>> /\ passed \subseteq Procs
          /\ dismissed \subseteq Procs /\ phase[p] = "running"
      BY <1>12d DEF GiveUp, outcomes, IInv, TypeOK
    <3> QED BY <2>1, <2>3, <3>1, ExitsIInv DEF Codes, Alive
  <2> QED BY <1>12d, <2>2, <2>3 DEF GiveUp
<1>13. ASSUME NEW p \in Procs, Close(p) PROVE IInv'
  BY <1>13, EndsIInv DEF Close, Present, IInv, OwnVerdict, TypeOK
<1>14. ASSUME NEW p \in Procs, Kill(p) PROVE IInv'
  BY <1>14, EndsIInv DEF Kill, Alive, Present, Codes
<1> QED BY <1>0, <1>1, <1>2, <1>3, <1>4, <1>5, <1>6, <1>7, <1>8, <1>9, <1>10, <1>11,
           <1>8a, <1>12, <1>12a, <1>12b, <1>12c, <1>12d, <1>13, <1>14 DEF Next, Advance, Run

\* The inductive invariant holds in every state of any number of launches.
THEOREM Invariant == Spec => []IInv
<1>1. Init => IInv
  BY InitIInv
<1>2. IInv /\ [Next]_vars => IInv'
  BY StepIInv
<1> QED BY <1>1, <1>2, PTL DEF Spec

\* Every launch has a command line, a phase and an exit code of its own kind.
THEOREM TypeCorrect == Spec => []TypeOK
<1>1. IInv => TypeOK
  BY DEF IInv
<1> QED BY <1>1, Invariant, PTL

\* Of all launches, in whatever session and in whatever order, one at most has windows
\* (main.rs, the single-instance plugin; windows.rs, the web view's data directory).
THEOREM SingleInstance == Spec => []OneServes
<1>1. IInv => OneServes
  BY DEF IInv
<1> QED BY <1>1, Invariant, PTL

\* A verification run that ended with 0 has found what it looks for, or was closed by hand:
\* its exit code is never another process's doing (main.rs, the single-instance callback
\* and the gates; windows.rs and sim_quit).
THEOREM GatesHold == Spec => []NoFalsePass
<1>1. IInv => NoFalsePass
  BY DEF IInv, OwnVerdict, NoFalsePass
<1> QED BY <1>1, Invariant, PTL

\* A station in production that runs is ended, while its watchdog has not given up, by
\* nothing but a kill or the watchdog's exit 70 (main.rs, the --quit callback, the dev exit
\* and the close handler; commands/sim.rs, sim_quit; watchdog.rs, enter_fault_state).
THEOREM Lockdown == Spec => LockdownHolds
<1> DEFINE Stays == \A p \in watched : phase[p] = "running" /\ Production(p)
                      => phase'[p] = "running" \/ code'[p] \in {"killed", "70"}
<1>1. IInv /\ [Next]_vars => Stays
  <2> SUFFICES ASSUME IInv, [Next]_vars, NEW p \in watched, phase[p] = "running", Production(p)
               PROVE  phase'[p] = "running" \/ code'[p] \in {"killed", "70"}
    OBVIOUS
  <2> USE DEF IInv, TypeOK
  <2>a. p \in Procs /\ cli[p].mode = "station" /\ cli[p].flags = {}
    BY DEF Production
  <2>b. "sim" \notin windows[p] /\ "fault" \notin windows[p]
    BY <2>a DEF Screens
  <2>0. CASE UNCHANGED vars
    BY <2>0 DEF vars
  <2>1. ASSUME NEW q \in Procs, Advance(q) PROVE phase'[p] = "running"
    <3>1. CASE \E r \in Procs : Deliver(q, r)
      BY <2>a, <3>1 DEF Deliver, Honors, ChordArmed
    <3>2. CASE Register(q) \/ SkipPlugin(q) \/ SendFails(q) \/ Close(q)
      BY <2>a, <3>2 DEF Register, SkipPlugin, SendFails, Close, Goes, Ends
    <3>3. CASE SetupQuit(q) \/ SetupProbe(q) \/ SetupWindows(q) \/ SetupFails(q)
      BY <2>a, <3>3 DEF SetupQuit, SetupProbe, SetupWindows, SetupFails, Goes, Ends, Exits
    <3> QED BY <2>1, <3>1, <3>2, <3>3 DEF Advance
  <2>2. ASSUME NEW q \in Procs, Run(q) PROVE phase'[p] = "running" \/ code'[p] = "70"
    <3>1. CASE (\E t \in Taps : SaveTap(q, t)) \/ NewSession(q) \/ Recreate(q)
      BY <3>1 DEF SaveTap, NewSession, Save, Recreate
    <3>2. CASE ChordHeld(q) \/ CanaryLost(q) \/ (\E ok \in BOOLEAN : Verdict(q, ok)) \/ NoReport(q)
      <4>1. q # p
        BY <2>a, <3>2 DEF ChordHeld, CanaryLost, ChordArmed, Verdict, Verification, NoReport
      <4> QED BY <2>a, <3>2, <4>1 DEF ChordHeld, CanaryLost, Verdict, NoReport, Exits
    <3>3. CASE (\E w \in windows[q] : CloseWindow(q, w)) \/ SimQuit(q)
      <4>1. CASE q = p
        <5>1. \A w \in windows[p] : w = "main"
          BY <2>a, <2>b
        <5> QED BY <2>a, <2>b, <3>3, <4>1, <5>1 DEF CloseWindow, CloseBlocked, Kiosk, SimQuit
      <4>2. CASE q # p
        BY <2>a, <3>3, <4>2 DEF CloseWindow, SimQuit, Exits
      <4> QED BY <4>1, <4>2
    <3>4. CASE GiveUp(q)
      BY <2>a, <3>4 DEF GiveUp, Exits
    <3> QED BY <2>2, <3>1, <3>2, <3>3, <3>4 DEF Run
  <2>3. ASSUME NEW q \in Procs, Kill(q) PROVE phase'[p] = "running" \/ code'[p] = "killed"
    BY <2>a, <2>3 DEF Kill, Ends
  <2>4. ASSUME NEW q \in Procs, NEW c \in Launches, Start(q, c) PROVE phase'[p] = "running"
    BY <2>a, <2>4 DEF Start
  <2> QED BY <2>0, <2>1, <2>2, <2>3, <2>4 DEF Next
<1>2. Spec => [][Stays]_vars
  BY <1>1, Invariant, PTL DEF Spec
<1> QED BY <1>2 DEF LockdownHolds

\* A verdict leaves session.json only when a process that has it begins a shift or is reset,
\* or at the first save of a process that loaded the session too early (main.rs, the load
\* before the single-instance plugin; actor.rs, begin_shift, reset_demo and try_persist).
THEOREM Saved == Spec => SavedStays
<1> DEFINE Stays == \A t \in Taps : Lost(t) => \/ GivenUp(t)
                                             \/ \E p \in overtaken : phase[p] = "running"
<1>1. IInv /\ [Next]_vars => Stays
  <2> SUFFICES ASSUME IInv, [Next]_vars, NEW t \in Taps, Lost(t)
               PROVE  GivenUp(t) \/ \E p \in overtaken : phase[p] = "running"
    OBVIOUS
  <2> USE DEF IInv, TypeOK, Files, Lost
  <2>0. CASE UNCHANGED vars
    BY <2>0 DEF vars, store
  <2>1. ASSUME NEW p \in Procs, Advance(p) PROVE file' = file
    BY <2>1 DEF Advance, Register, SkipPlugin, Deliver, SendFails, SetupQuit, SetupProbe,
                SetupWindows, SetupFails, Close, Goes, Ends, Exits, store
  <2>2. ASSUME NEW p \in Procs, NEW session \in SUBSET Taps, Save(p, session),
               phase[p] = "running", HasWindows(cli[p].mode)
        PROVE  GivenUp(t) \/ \E q \in overtaken : phase[q] = "running"
    <3>1. CASE cli[p].mode = "conformance"
      BY <2>2, <3>1 DEF Save, FileOf
    <3>2. CASE cli[p].mode # "conformance" /\ p \notin overtaken
      <4>1. t \in mem[p]
        BY <2>2, <3>2 DEF HasWindows, NotBehind, Alive
      <4>2. file'["session.json"] = session /\ mem'[p] = session
        BY <2>2, <3>2 DEF Save, FileOf
      <4> QED BY <2>2, <4>1, <4>2 DEF GivenUp
    <3>3. CASE p \in overtaken
      BY <2>2, <3>3
    <3> QED BY <3>1, <3>2, <3>3
  <2>3. ASSUME NEW p \in Procs, (\E u \in Taps : SaveTap(p, u)) \/ NewSession(p)
        PROVE  GivenUp(t) \/ \E q \in overtaken : phase[q] = "running"
    <3>1. phase[p] = "running" /\ HasWindows(cli[p].mode)
      BY <2>3 DEF SaveTap, NewSession
    <3>2. \E session \in SUBSET Taps : Save(p, session)
      BY <2>3 DEF SaveTap, NewSession
    <3> QED BY <2>2, <3>1, <3>2
  <2>4. ASSUME NEW p \in Procs, Run(p), ~(\E u \in Taps : SaveTap(p, u)), ~NewSession(p)
        PROVE  file' = file
    BY <2>4 DEF Run, ChordHeld, CanaryLost, NoReport, Verdict, CloseWindow, SimQuit, Recreate,
                GiveUp, Exits, store
  <2>5. ASSUME NEW p \in Procs, Kill(p) PROVE file' = file
    BY <2>5 DEF Kill, Ends
  <2>6. ASSUME NEW p \in Procs, NEW c \in Launches, Start(p, c)
        PROVE  file'["session.json"] = file["session.json"]
    BY <2>6 DEF Start, FileOf
  <2> QED BY <2>0, <2>1, <2>3, <2>4, <2>5, <2>6 DEF Next
<1>2. Spec => [][Stays]_vars
  BY <1>1, Invariant, PTL DEF Spec
<1> QED BY <1>2 DEF SavedStays
=============================================================================
