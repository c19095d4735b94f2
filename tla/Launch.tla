-------------------------------- MODULE Launch --------------------------------
(***************************************************************************)
(* The processes of src-tauri/src/main.rs and cli.rs on one machine and one*)
(* user's data directory: stations, verification runs and --quit senders,  *)
(* started, crossing and ending in any order, in the Windows sessions of   *)
(* that user.  A process reads session.json first, then asks the           *)
(* single-instance plugin whether it is its session's primary one, then    *)
(* opens windows.                                                          *)
(*                                                                         *)
(* A launch has one mode and some flags.  What a station does while it runs*)
(* is reduced to the verdicts it saves, the shifts it begins, the windows  *)
(* it has and the ways it ends; --reader-probe ends before all this.       *)
(***************************************************************************)
EXTENDS Naturals, FiniteSets

CONSTANTS
    Procs,     \* processes that may be started, each once
    Sessions,  \* Windows sessions
    Taps,      \* verdicts that may be saved, each once
    Launches,  \* the command lines, as parsed, that may be used
    None       \* Rust's Option::None

Verification == {"conformance", "spike", "exit_probe"}
Modes == {"station", "quit"} \cup Verification
Flags == {"dev-exit", "windowed", "sim"}
Cli == [mode : Modes, session : Sessions, flags : SUBSET Flags]
Files == {"session.json", "conformance-session.json"}

ASSUME LaunchAssumption ==
    /\ Launches \subseteq Cli
    /\ None \notin Procs

VARIABLES
    cli,        \* the command line of each process and its Windows session
    phase,      \* how far it is
    code,       \* its exit code, once it has one
    primary,    \* of each Windows session: the holder of its mutex
    sendingTo,  \* of each secondary: the primary it hands its arguments to
    windows,    \* the labels of its windows
    watched,    \* the processes whose watchdog has not given up
    mem,        \* the saved verdicts the session in memory has
    file,       \* and those of the session files
    overtaken,  \* history: processes that loaded before another one's save, and have
                \* not saved since
    passed,     \* history: verification runs that found what they look for
    dismissed   \* history: processes whose windows were closed, or QUIT SHELL pressed

instances == <<primary, sendingTo>>
screens == <<windows, watched>>
store == <<mem, file, overtaken>>
outcomes == <<passed, dismissed>>
vars == <<cli, phase, code, instances, screens, store, outcomes>>

Phases == {"none", "started", "sending", "setup", "running", "closing", "gone"}
Codes == {"0", "1", "2", "3", "4", "70", "71", "failed", "killed", None}

TypeOK ==
    /\ cli \in [Procs -> Cli \cup {None}]
    /\ phase \in [Procs -> Phases]
    /\ code \in [Procs -> Codes]
    /\ primary \in [Sessions -> Procs \cup {None}]
    /\ sendingTo \in [Procs -> Procs \cup {None}]
    /\ mem \in [Procs -> SUBSET Taps]
    /\ file \in [Files -> SUBSET Taps]
    /\ windows \in [Procs -> SUBSET {"main", "sim", "fault"}] /\ watched \subseteq Procs
    /\ overtaken \subseteq Procs /\ passed \subseteq Procs /\ dismissed \subseteq Procs
    /\ \A p \in Procs : sendingTo[p] # None => cli[p].mode \in {"station", "quit"}

Init ==
    /\ cli = [p \in Procs |-> None]
    /\ phase = [p \in Procs |-> "none"]
    /\ code = [p \in Procs |-> None]
    /\ primary = [s \in Sessions |-> None]
    /\ sendingTo = [p \in Procs |-> None]
    /\ mem = [p \in Procs |-> {}]
    /\ file = [f \in Files |-> {}]
    /\ windows = [p \in Procs |-> {}] /\ watched = {}
    /\ overtaken = {} /\ passed = {} /\ dismissed = {}
-----------------------------------------------------------------------------
\* (Definitions whose names end in "Faulty" are plausible bugs; no specification
\* uses them.)
FileOfFaulty(mode) == "session.json"
FileOf(mode) == IF mode = "conformance" THEN "conformance-session.json" ELSE "session.json"

\* Faulty: of the verification modes only the probe keeps off the plugin.
RegistersFaulty(mode) == mode # "exit_probe"
Registers(mode) == mode \notin Verification

\* Faulty: what the exit needs is in place in every station.
ChordArmedFaulty(p) == cli[p].mode = "station"
ChordArmed(p) == "dev-exit" \in cli[p].flags /\ cli[p].mode = "station"

Kiosk(p) == cli[p].mode = "station" /\ "windowed" \notin cli[p].flags

HasWindows(mode) == mode \in {"station", "conformance", "spike"}

Alive(p) == phase[p] \notin {"none", "gone"}

Others(p) == {q \in Procs \ {p} : Alive(q)}

\* The end of a process; the system takes its memory, windows and mutex back.
Ends(p, c) ==
    /\ phase' = [phase EXCEPT ![p] = "gone"]
    /\ code' = [code EXCEPT ![p] = c]
    /\ primary' = [s \in Sessions |-> IF primary[s] = p THEN None ELSE primary[s]]
    /\ sendingTo' = [sendingTo EXCEPT ![p] = None]
    /\ windows' = [windows EXCEPT ![p] = {}] /\ watched' = watched \ {p}
    /\ mem' = [mem EXCEPT ![p] = {}]
    /\ overtaken' = overtaken \ {p}
    /\ UNCHANGED <<cli, file, outcomes>>

Goes(p, next) ==
    /\ phase' = [phase EXCEPT ![p] = next]
    /\ UNCHANGED <<cli, code, instances, store, outcomes>>

\* app.exit, or the last window closed: the event loop will end the process.
Exits(p, c) ==
    /\ phase' = [phase EXCEPT ![p] = "closing"]
    /\ code' = [code EXCEPT ![p] = c]
    /\ UNCHANGED <<cli, instances, store>>
-----------------------------------------------------------------------------
(* main up to the builder: the session is loaded, a conformance one reset. *)
Start(p, c) ==
    /\ phase[p] = "none"
    /\ cli' = [cli EXCEPT ![p] = c]
    /\ phase' = [phase EXCEPT ![p] = "started"]
    /\ LET f == FileOf(c.mode)
       IN IF c.mode = "conformance"
          THEN file' = [file EXCEPT ![f] = {}] /\ UNCHANGED mem
          ELSE mem' = [mem EXCEPT ![p] = file[f]] /\ UNCHANGED file
    /\ UNCHANGED <<code, instances, screens, overtaken, outcomes>>

\* The single-instance plugin: the first process of a session that asks becomes its
\* primary; any other one sends it its arguments.
Register(p) ==
    /\ phase[p] = "started" /\ Registers(cli[p].mode)
    /\ LET s == cli[p].session
       IN IF primary[s] = None
          THEN /\ primary' = [primary EXCEPT ![s] = p]
               /\ phase' = [phase EXCEPT ![p] = "setup"]
               /\ UNCHANGED sendingTo
          ELSE /\ sendingTo' = [sendingTo EXCEPT ![p] = primary[s]]
               /\ phase' = [phase EXCEPT ![p] = "sending"]
               /\ UNCHANGED primary
    /\ UNCHANGED <<cli, code, screens, store, outcomes>>

SkipPlugin(p) ==
    /\ phase[p] = "started" /\ ~Registers(cli[p].mode)
    /\ Goes(p, "setup") /\ UNCHANGED screens

\* Faulty: asks the sender, which never arms.
HonorsFaulty(p, q) == cli[p].mode = "quit" /\ ChordArmed(p)
Honors(p, q) == cli[p].mode = "quit" /\ ChordArmed(q)

\* The primary's callback runs once its event loop does: a --quit ends it if it is
\* armed, anything else but focuses its window.  The sender ends with 0 all the same.
Deliver(p, q) ==
    /\ phase[p] = "sending" /\ sendingTo[p] = q
    /\ phase[q] = "running"
    /\ LET honored == Honors(p, q)
       IN /\ phase' = [phase EXCEPT ![p] = "gone", ![q] = IF honored THEN "closing" ELSE @]
          /\ code' = [code EXCEPT ![p] = "0", ![q] = IF honored THEN "0" ELSE @]
    /\ sendingTo' = [sendingTo EXCEPT ![p] = None]
    /\ mem' = [mem EXCEPT ![p] = {}]
    /\ overtaken' = overtaken \ {p}
    /\ UNCHANGED <<cli, primary, screens, file, outcomes>>

\* The primary ends before it runs the callback.
SendFails(p) ==
    /\ phase[p] = "sending" /\ phase[sendingTo[p]] \in {"closing", "gone"}
    /\ Ends(p, "0")

\* Setup of a --quit sender nobody consumed: it scans the machine's processes by name.
SetupQuit(p) ==
    /\ phase[p] = "setup" /\ cli[p].mode = "quit"
    /\ Exits(p, IF Others(p) = {} THEN "3" ELSE "4")
    /\ UNCHANGED <<screens, outcomes>>

SetupProbe(p) ==
    /\ phase[p] = "setup" /\ cli[p].mode = "exit_probe"
    /\ Goes(p, "running") /\ UNCHANGED screens

\* The web view's data directory admits one process; any other one fails its setup.
WindowsFree(p) ==
    \A q \in Others(p) : HasWindows(cli[q].mode) => phase[q] \notin {"running", "closing"}

\* The watchdog is not spawned in a conformance process.
SetupWindows(p) ==
    /\ phase[p] = "setup" /\ HasWindows(cli[p].mode) /\ WindowsFree(p)
    /\ windows' = [windows EXCEPT ![p] = {"main"} \cup (cli[p].flags \cap {"sim"})]
    /\ watched' = IF cli[p].mode = "conformance" THEN watched ELSE watched \cup {p}
    /\ Goes(p, "running")

\* A window or the global shortcut cannot be had, for that reason or another.
SetupFails(p) ==
    /\ phase[p] = "setup" /\ cli[p].mode # "quit"
    /\ Ends(p, "failed")
-----------------------------------------------------------------------------
(* While it runs.                                                          *)

\* The whole session in memory is written, over whatever the file holds.
Save(p, session) ==
    /\ mem' = [mem EXCEPT ![p] = session]
    /\ file' = [file EXCEPT ![FileOf(cli[p].mode)] = session]
    /\ overtaken' = (overtaken \ {p}) \cup
         {q \in Others(p) : phase[q] # "running" /\ FileOf(cli[q].mode) = FileOf(cli[p].mode)}
    /\ UNCHANGED <<cli, phase, code, instances, screens, outcomes>>

SaveTap(p, t) ==
    /\ phase[p] = "running" /\ HasWindows(cli[p].mode)
    /\ \A f \in Files : t \notin file[f]
    /\ \A q \in Procs : t \notin mem[q]
    /\ Save(p, mem[p] \cup {t})

\* select_batch of the page, apply_batch and sim_reset_demo of the console or the
\* harness, the spike's own apply_batch: a session with no verdict yet is saved.
NewSession(p) ==
    /\ phase[p] = "running" /\ HasWindows(cli[p].mode)
    /\ windows[p] \cap {"main", "sim"} # {} \/ cli[p].mode = "spike"
    /\ Save(p, {})

ChordHeld(p) ==
    /\ phase[p] = "running" /\ ChordArmed(p)
    /\ Exits(p, "0")
    /\ UNCHANGED <<screens, outcomes>>

CanaryLost(p) ==
    /\ phase[p] = "running" /\ ChordArmed(p)
    /\ Exits(p, "71")
    /\ UNCHANGED <<screens, outcomes>>

\* conformance_report, the spike's count of stale boots, the probe's physical press.
Verdict(p, ok) ==
    /\ phase[p] = "running" /\ cli[p].mode \in Verification
    /\ cli[p].mode = "conformance" => "main" \in windows[p]
    /\ Exits(p, IF ok THEN "0" ELSE "1")
    /\ passed' = IF ok THEN passed \cup {p} ELSE passed
    /\ UNCHANGED <<screens, dismissed>>

NoReport(p) ==
    /\ phase[p] = "running" /\ cli[p].mode = "conformance"
    /\ Exits(p, "2")
    /\ UNCHANGED <<screens, outcomes>>

CloseBlocked(p, w) == w = "main" /\ Kiosk(p)

\* A window is closed by hand; with the last one the event loop ends.
CloseWindow(p, w) ==
    /\ phase[p] = "running" /\ w \in windows[p] /\ ~CloseBlocked(p, w)
    /\ windows' = [windows EXCEPT ![p] = @ \ {w}]
    /\ IF windows'[p] = {}
       THEN Exits(p, "0") /\ dismissed' = dismissed \cup {p}
       ELSE UNCHANGED <<cli, phase, code, instances, store, dismissed>>
    /\ UNCHANGED <<watched, passed>>

\* sim_quit, the console's QUIT SHELL button.
SimQuit(p) ==
    /\ phase[p] = "running" /\ "sim" \in windows[p]
    /\ Exits(p, "0")
    /\ dismissed' = dismissed \cup {p}
    /\ UNCHANGED <<screens, passed>>

\* The watchdog makes the main window anew, which may fail; Watchdog has the details.
Recreate(p) ==
    /\ phase[p] = "running" /\ p \in watched
    /\ \E built \in BOOLEAN :
         windows' = [windows EXCEPT ![p] = IF built THEN @ \cup {"main"} ELSE @ \ {"main"}]
    /\ UNCHANGED <<cli, phase, code, instances, watched, store, outcomes>>

\* The cap is exceeded: the fault screen is shown, or its creation fails.
GiveUp(p) ==
    /\ phase[p] = "running" /\ p \in watched
    /\ watched' = watched \ {p}
    /\ \/ /\ windows' = [windows EXCEPT ![p] = (@ \ {"main"}) \cup {"fault"}]
          /\ UNCHANGED <<cli, phase, code, instances, store>>
       \/ /\ windows' = [windows EXCEPT ![p] = @ \ {"main"}]
          /\ Exits(p, "70")
    /\ UNCHANGED outcomes

Close(p) == phase[p] = "closing" /\ Ends(p, code[p])

Kill(p) == Alive(p) /\ Ends(p, "killed")
-----------------------------------------------------------------------------
\* What a started process does by itself.
Advance(p) ==
    \/ Register(p) \/ SkipPlugin(p)
    \/ \E q \in Procs : Deliver(p, q)
    \/ SendFails(p)
    \/ SetupQuit(p) \/ SetupProbe(p) \/ SetupWindows(p) \/ SetupFails(p)
    \/ Close(p)

Run(p) ==
    \/ \E t \in Taps : SaveTap(p, t)
    \/ NewSession(p) \/ ChordHeld(p) \/ CanaryLost(p)
    \/ \E ok \in BOOLEAN : Verdict(p, ok)
    \/ NoReport(p)
    \/ \E w \in windows[p] : CloseWindow(p, w)
    \/ SimQuit(p) \/ Recreate(p) \/ GiveUp(p)

Next == \E p \in Procs : Advance(p) \/ Run(p) \/ Kill(p) \/ (\E c \in Launches : Start(p, c))

Spec == Init /\ [][Next]_vars

\* The operating system runs every process.
FairSpec == Spec /\ \A p \in Procs : WF_vars(Advance(p))
-----------------------------------------------------------------------------
\* A verification run ends with 0 only by its own verdict, or by hand, by its own windows:
\* no station that runs, no second launch, no chord and no --quit lets a gate pass that
\* has checked nothing.  (What its windows do to it is another matter: GateHasResults.)
NoFalsePass ==
    \A p \in Procs : phase[p] = "gone" /\ code[p] = "0" /\ cli[p].mode \in Verification
                     => p \in passed \/ p \in dismissed

\* The production launch: the kiosk, with no flag that arms an exit.
Production(p) == cli[p].mode = "station" /\ cli[p].flags = {}

\* A station in production, once it runs, goes on whatever is launched, held or closed,
\* until it is killed or its watchdog gives up: then it may end with 70, or holds the
\* fault screen (FaultStays says for how long).
LockdownHolds ==
    [][\A p \in watched :
         phase[p] = "running" /\ Production(p)
         => phase'[p] = "running" \/ code'[p] \in {"killed", "70"}]_vars

\* A process that counted the verdict lets it go: it begins a shift or is reset.
GivenUp(t) == \E p \in Procs : phase[p] = "running" /\ t \in mem[p] /\ t \notin mem'[p]

Lost(t) == t \in file["session.json"] /\ t \notin file'["session.json"]

\* A verdict leaves session.json, through ends, relaunches and verification runs, only
\* when a shift or a reset is begun by a process that has it in its session; or at the
\* first save of one that loaded the session before another one's last save.
SavedStays ==
    [][\A t \in Taps : Lost(t) => \/ GivenUp(t)
                                 \/ \E p \in overtaken : phase[p] = "running"]_vars

\* A --quit handed to a primary that armed its dev exit ends it, however far it was with
\* its start.
QuitEndsArmed ==
    \A p, q \in Procs :
      phase[p] = "sending" /\ sendingTo[p] = q /\ cli[p].mode = "quit" /\ ChordArmed(q)
      ~> phase[q] = "gone" \/ code[p] = "killed"
-----------------------------------------------------------------------------
(* Claims of the documentation that the code does not keep.                *)

\* "restart is lossless" (DEPLOYMENT.md): a verdict that was saved stays in the session
\* until a process that counted it lets it go.
RestartLossless == [][\A t \in Taps : Lost(t) => GivenUp(t)]_vars

\* "exit 0/1/2 with results" (cli.rs), of a conformance run.
GateHasResults ==
    \A p \in Procs : phase[p] = "gone" /\ code[p] = "0" /\ cli[p].mode = "conformance"
                     => p \in passed

\* "The process stays alive so the fault stays visible" (watchdog.rs).
FaultStays ==
    [][\A p \in Procs :
         phase[p] = "running" /\ Production(p) /\ windows[p] = {"fault"}
         => phase'[p] = "running" \/ code'[p] = "killed"]_vars

\* "a session-0 agent or different-user RDP shell does not, and gets exit 3 with the
\* station still running" (DEPLOYMENT.md).
OtherSessionGetsThree ==
    \A p, q \in Procs :
      /\ phase[p] = "closing" /\ cli[p].mode = "quit"
      /\ phase[q] = "running" /\ cli[q].mode = "station" /\ cli[q].session # cli[p].session
      => code[p] = "3"
=============================================================================
