------------------------------ MODULE Watchdog -------------------------------
(***************************************************************************)
(* The watchdog of src-tauri/src/watchdog.rs: it recovers the page of the  *)
(* main window after a failed WebView2 process or a silent heartbeat, up   *)
(* to a cap, and then holds a fault screen.                                *)
(*                                                                         *)
(* Time is discrete; a unit is the ten seconds between two checks of the   *)
(* heartbeat, so a page that runs beats in every unit (it does every five  *)
(* seconds).  The watchdog is prompt: what is due is handled before time   *)
(* passes.  A page that is loaded again beats within LoadTime units.       *)
(***************************************************************************)
EXTENDS Naturals, Sequences

CONSTANTS
    Window, Limit,    \* of the StormGate: 60 s and 3
    HeartbeatLimit,   \* units a page may be silent: 30 s
    LoadTime,         \* units until a loaded page beats
    Bound             \* how many of each of the Limited kinds of event

\* What is bounded: pages that hang, renderers and browsers that die, other
\* processes that die, reloads without effect, windows that cannot be built.
Limited == {"hangs", "renderers", "browsers", "others", "reloads", "windows"}

ASSUME WatchdogAssumption ==
    /\ {Window, Limit, HeartbeatLimit, LoadTime} \subseteq Nat \ {0}
    /\ LoadTime <= HeartbeatLimit
    /\ Bound \in [Limited -> Nat]

VARIABLES
    gate,       \* StormGate::events, as ages
    silence,    \* Heartbeat::age_ms
    failures,   \* ProcessFailed events on their way to the watchdog
    check,      \* the heartbeat check is due
    pc,         \* step of the watchdog
    page,       \* what is on the screen
    loading,    \* units until the page beats
    exited,     \* the process exited with EXIT_STORM
    lost,       \* history: the main window could not be built
    recent,     \* history: recoveries carried out, as ages below Window
    attempts,   \* history: recoveries attempted before the window was lost, counted
                \* until they exceed the causes
    causes,     \* history: things that went wrong, twice for a page yet to beat
    used        \* how much of Bound is used up

history == <<lost, recent, attempts, causes>>
vars == <<gate, silence, failures, check, pc, page, loading, exited, history, used>>

Kinds == {"browser", "renderer", "other"}
Documents == {"running", "silent", "dead"}
Pages == Documents \cup {"none", "fault"}

\* The gate's list cannot grow past the attempt that stops the watchdog.
TypeOK ==
    /\ gate \in Seq(0 .. Window) /\ Len(gate) <= Limit + 1
    /\ silence \in 0 .. HeartbeatLimit + 1
    /\ failures \in Seq(Kinds)
    /\ check \in BOOLEAN
    /\ pc \in {"watching", "reloading", "creating", "faulting", "stopped"}
    /\ page \in Pages
    /\ loading \in 0 .. LoadTime
    /\ exited \in BOOLEAN
    /\ lost \in BOOLEAN
    /\ recent \in Seq(0 .. Window - 1)
    /\ attempts \in Nat /\ causes \in Nat
    /\ used \in [Limited -> Nat]
-----------------------------------------------------------------------------
May(what) == used[what] < Bound[what]
Use(what) == used' = [used EXCEPT ![what] = @ + 1]

Init ==
    /\ gate = <<>>
    /\ silence = 0
    /\ failures = <<>>
    /\ check = TRUE
    /\ pc = "watching"
    /\ page = "running" /\ loading = LoadTime
    /\ exited = FALSE /\ lost = FALSE
    /\ recent = <<>> /\ attempts = 0 /\ causes = 0
    /\ used = [k \in Limited |-> 0]
-----------------------------------------------------------------------------
(* What goes wrong.  The hook of windows.rs sends the failures.            *)

YetToBeat == IF page = "running" /\ silence > 0 THEN 1 ELSE 0

Goes(what, p, reported) ==
    /\ page \in Documents /\ May(what) /\ Use(what)
    /\ page' = p
    /\ failures' = failures \o reported
    /\ causes' = causes + Len(reported) + YetToBeat
    /\ UNCHANGED <<gate, silence, check, pc, loading, exited, lost, recent, attempts>>

\* A page that hangs is reported by nobody; its silence is the only sign.
PageHangs ==
    /\ page = "running" /\ May("hangs") /\ Use("hangs")
    /\ page' = "silent"
    /\ causes' = causes + 1 + YetToBeat
    /\ UNCHANGED <<gate, silence, failures, check, pc, loading, exited, lost, recent,
                   attempts>>

RendererFails ==
    Goes("renderers", IF page = "dead" THEN "dead" ELSE "silent", <<"renderer">>)

\* The browser takes its renderer with it, which may be reported first.
BrowserFails ==
    \E reported \in {<<"browser">>, <<"renderer", "browser">>} :
        Goes("browsers", "dead", reported)

OtherProcessFails == Goes("others", page, <<"other">>)
-----------------------------------------------------------------------------
(* The watchdog.  A definition whose name ends in "Faulty" is a plausible  *)
(* bug; no specification uses it.                                          *)

\* The ages below span.  They are listed as the attempts were made, the oldest first: retain
\* drops the first ones.
Younger(ages, span) ==
    LET dropped == CHOOSE n \in 0 .. Len(ages) :
                       \A i \in DOMAIN ages : i <= n <=> ages[i] >= span
    IN SubSeq(ages, dropped + 1, Len(ages))

RetainedFaulty(ages) == Younger(ages, Window - 1)
Retained(ages) == Younger(ages, Window)

Allowed(n) == n <= Limit

\* StormGate::admit, and where the loop goes from there.
Attempt(next) ==
    /\ gate' = Retained(Append(gate, 0))
    /\ attempts' = IF lost \/ attempts > causes THEN attempts ELSE attempts + 1
    /\ pc' = IF Allowed(Len(gate')) THEN next ELSE "faulting"
    /\ recent' = IF Allowed(Len(gate')) THEN Append(recent, 0) ELSE recent

RecreatesFaulty(kind) == FALSE
Recreates(kind) == kind = "browser"

ProcessFailed ==
    /\ pc = "watching" /\ failures # <<>>
    /\ failures' = Tail(failures)
    /\ Attempt(IF Recreates(Head(failures)) THEN "creating" ELSE "reloading")
    /\ page' = IF pc' = "creating" THEN "none" ELSE page
    /\ UNCHANGED <<silence, check, loading, exited, lost, causes, used>>

\* Faulty: the silence goes on counting while the page recovers.
TouchedFaulty == silence
Touched == 0

HeartbeatCheck ==
    /\ pc = "watching" /\ check
    /\ check' = FALSE
    /\ IF silence > HeartbeatLimit
       THEN silence' = Touched /\ Attempt("reloading")
       ELSE UNCHANGED <<silence, gate, attempts, pc, recent>>
    /\ UNCHANGED <<failures, page, loading, exited, lost, causes, used>>

Loads == page' = "running" /\ loading' = LoadTime

\* reload_via_com: nothing without a window, of no use without a browser; a
\* failure is only logged.
ReloadMain ==
    /\ pc = "reloading" /\ pc' = "watching"
    /\ \/ page \in {"running", "silent"} /\ Loads /\ UNCHANGED <<causes, used>>
       \/ /\ page \in {"running", "silent"} /\ May("reloads") /\ Use("reloads")
          /\ causes' = causes + 1
          /\ UNCHANGED <<page, loading>>
       \/ page \in {"dead", "none"} /\ UNCHANGED <<page, loading, causes, used>>
    /\ UNCHANGED <<gate, silence, failures, check, exited, lost, recent, attempts>>

\* create_main: a failure is only logged.
CreateMain ==
    /\ pc = "creating" /\ pc' = "watching"
    /\ \/ Loads /\ UNCHANGED <<lost, used>>
       \/ /\ May("windows") /\ Use("windows")
          /\ lost' = TRUE
          /\ UNCHANGED <<page, loading>>
    /\ UNCHANGED <<gate, silence, failures, check, exited, recent, attempts, causes>>

\* enter_fault_state, after which the loop ends.
EnterFaultState ==
    /\ pc = "faulting" /\ pc' = "stopped"
    /\ \/ page' = "fault" /\ UNCHANGED <<exited, used>>
       \/ page' = "none" /\ exited' = TRUE /\ May("windows") /\ Use("windows")
    /\ UNCHANGED <<gate, silence, failures, check, loading, history>>

WatchdogStep ==
    ProcessFailed \/ HeartbeatCheck \/ ReloadMain \/ CreateMain \/ EnterFaultState
-----------------------------------------------------------------------------
Older(ages) == [i \in DOMAIN ages |-> IF ages[i] < Window THEN ages[i] + 1 ELSE Window]

\* A unit passes.  A running page beats in it once it has loaded, which it may do
\* early.
TimePasses ==
    /\ ~exited
    /\ pc \in {"watching", "stopped"}
    /\ pc = "watching" => failures = <<>> /\ ~check
    /\ check' = TRUE
    /\ gate' = Older(gate)
    /\ recent' = Younger(Older(recent), Window)
    /\ \/ /\ page = "running"
          /\ silence' = 0 /\ loading' = 0
       \/ /\ page # "running" \/ loading > 0
          /\ silence' = IF silence > HeartbeatLimit THEN silence ELSE silence + 1
          /\ loading' = IF loading > 0 THEN loading - 1 ELSE 0
    /\ UNCHANGED <<failures, pc, page, exited, lost, attempts, causes, used>>

Failure == PageHangs \/ RendererFails \/ BrowserFails \/ OtherProcessFails

Next == Failure \/ WatchdogStep \/ TimePasses

Spec == Init /\ [][Next]_vars

\* The runtime runs the watchdog's task, and time passes.
FairSpec == Spec /\ WF_vars(WatchdogStep) /\ WF_vars(TimePasses)
-----------------------------------------------------------------------------
\* In no span of the window's length are there more recoveries than the limit: the
\* operator never watches a page flicker.
StormCap == Len(recent) <= Limit

\* One failure does not use up the cap: the watchdog attempts no more recoveries
\* than things went wrong.  A failure of a page that has yet to beat counts twice,
\* for a recovery from a failed process does not restart the heartbeat's clock: the
\* next load may then outlast the limit and be interrupted in its turn.  (Except when the
\* window could not be built: then silence is all there is.)
AttemptsHaveCauses == attempts <= causes

\* A page that stopped runs again, or the station says so (fault screen), or the
\* process exits for its wrapper.  (Except, again, without a window: the reloads
\* that follow have nothing to reload and come too seldom for the cap.)
Answered == (page = "running" /\ loading = 0) \/ page = "fault" \/ exited \/ lost
SilenceAnswered == page \in {"silent", "dead"} ~> Answered
=============================================================================
