# Station shell: a TLA+ verification project

The station shell is the desktop process that runs a keying line: an operator taps a chip on a
card reader, a keying layer keys it, a batch source and a session file count it, and a web page
in a kiosk window shows the verdict. This directory holds TLA+ models of its core, translated
from `src-tauri/src` (Rust) and `bridge/src` (TypeScript), the TLC runs that check them on small
instances, and TLAPS proofs of their safety properties for every instance.

    tlc -workers 2 -config MCStationCore_line.cfg MCStationCore     # one run
    tlapm StationCoreProofs.tla                                     # one module of proofs

Paths below are relative to `src-tauri/src` unless they start with `bridge/`.

## 1. The system

| component | state it keeps | operations | talks to |
|---|---|---|---|
| station state, `core/state.rs` | snapshot (connection, batch, counts), `seq`, the three legs of the connection, shift, armed end of shift | one pure method per operation, each returning a payload or nothing | owned by the actor |
| core actor, `core/actor.rs` | the station state, retry ledger, quiet windows, end-shift emissions, blip | one handler per `CoreMsg`, a 250 ms tick | a queue of 256 messages in; session file, batch source, logs, boot cache and pusher out |
| retry ledger, `core/retry.rs` | failures per chip | record, clear chip, clear all | the actor |
| batch source, `seams/batch_source.rs` | progress overlay, in memory and in `sim_progress.json` | list, get, record_outcome, reset | the actor |
| keying seam, `seams/keying.rs` | the simulation's policy | key_chip, ready, arm | the actor; the sim console |
| session file and logs, `persist/` | `session.json`, `overruns.jsonl`, `failures.jsonl` | load, save (temp, sync, rename), append | the actor |
| boot cache, `boot.rs` | the last snapshot, serialised | store, load, boot protocol | written by the actor, read by the page synchronously |
| push channel, `push.rs`, `commands/ui.rs` | none | eval in the main window; answers of commands | actor to page |
| adapter, `bridge/src` | `lastSeq`, snapshot, listeners | boot pull or baked fallback, applyPush, selectBatch, endShift | both channels; `bridge_attached`, `heartbeat` back |
| watchdog, `watchdog.rs`, `windows.rs` | storm gate; the window | recover from a failed process or a silent page; hold a fault screen | process-failure hook, heartbeat |
| exit chord, `devexit.rs` | generation and current press of the chord | press, release, hold timers, delivery check, probe | OS shortcuts; ends the process |
| reader monitor, `reader/mod.rs` | card state per reader, last reported presence | presence and card edges | sends messages to the actor, or to the probe |
| startup, `main.rs`, `cli.rs` | modes, single-instance mutex, exit codes | start, hand over to the primary, `--quit`, verification runs | other processes of the machine; the session file |
| hardware probe, `probe.rs` | the case being judged, failures | four cases, unplug and replug, each with a deadline | reads the monitor's messages; an operator |
| the rest | | sim console, conformance commands and suite, configuration, logging, scripts | |

What is hard here, and therefore what the properties are about:

* **kills and failed writes between the effects of one handler.** A tap keys a chip (a physical
  effect), then updates the batch source's file, the overrun log, the state, the session file,
  the boot cache, the page. Any prefix may be all that happened.
* **the pause after a failed write**, which must come before a second count can be lost, and
  must end by itself.
* **two delivery channels to a page that can vanish**, with one sequence number.
* **recovery that must not storm**, driven by two sources of failure reports that overlap.
* **timers that outlive what started them** (hold timers, blips, quiet windows);
* **a thread that polls a world that moves on between two looks** (readers and cards), and sends
  what it saw through a queue that may be full;
* **processes that cross**: a station that starts while another one ends, a gate run beside it.

The correctness of each part, in a sentence: the session file is never more than one tap behind
the state, and equal to it whenever the line is up and nothing is being committed (actor,
session file); no chip gets a third retry (ledger); a batch passes its total only as the policy
and the failures allow, and the log accounts for it (batch source); the page ends up showing
the core's snapshot, never goes back, and dispatches each payload's events once and in order
(boot cache, push channel, adapter); at most three recoveries a minute, none without a cause,
and a dead page never goes unanswered (watchdog); the exit fires exactly for a held chord (exit
chord); a card put down is presented once, and the core learns of a reader before a card on it
(reader monitor); a session file is whole, or the one before it, after any cut, and no verdict is
saved before its record is written (persistence); a tap that asks for an outcome gets it (sim
keying); no gate passes that has checked nothing, and a locked station stays (startup); a probe
passes only what its cases require, and ends (hardware probe). `PROJECT.json` lists each hazard at its line with the properties that watch it.

## 2. The modules

| module | models | size of the idea |
|---|---|---|
| `StationState` | `core/state.rs` | the struct as a record, each method an operator; no state of its own |
| `StationCore` | `core/actor.rs` and what it calls in `core/retry.rs`, `seams/`, `persist/`, `boot.rs`, `main.rs` | the actor, its files, the page's last view, the disk, kills |
| `StationPage` | `push.rs`, `boot.rs`, `commands/ui.rs`, `windows.rs`, `bridge/src`, the notices of a boot in `core/actor.rs` | the way of a snapshot, and of an end of shift, to the screen |
| `Watchdog` | `watchdog.rs`, the hook and reload of `windows.rs`, `Heartbeat` | recovery in discrete time |
| `DevExit` | `devexit.rs` | hold, verification and probe in discrete time |
| `ReaderMonitor` | `reader/mod.rs` and the queue it sends into | readers, cards, the monitor's thread, the core's inbox |
| `SessionFile` | `persist/session.rs` | `atomic_write` in its steps, and what a disk keeps |
| `RecordLog` | `persist/failures.rs` | lines, torn and joined |
| `Persistence` | both, as a tap of `core/actor.rs` uses them | append, then save; one process, one disk |
| `SimKeying` | `seams/keying.rs`, `commands/sim.rs`, the readiness in `core/actor.rs` | a policy shared by two threads |
| `Launch` | `main.rs`, `cli.rs` | processes of several modes in several Windows sessions |
| `ReaderProbe` | `probe.rs` | a judge of the monitor's messages |
| `ReaderGate` | `probe.rs` (`run`) | the judge of `ReaderProbe` on the queue of `ReaderMonitor` |
| `SnapshotMirror`, `DurableRegister`, `RecoveryContract` | | what the page's channel, a state file and the core promise; `StationPage`, `SessionFile` and `StationCore` implement them |
| `StationCoreProofs`, `StationPageProofs`, `PersistenceProofs`, `KeyingProofs`, `LaunchProofs`, `ReaderMonitorProofs`, `DevExitProofs`, `WatchdogProofs` | | section 4 |
| `MC...` | | the instances for TLC |

Definitions ending in `Faulty` are plausible bugs, each beside the definition it imitates. No
specification uses them; each shows that a property would notice.

### StationCore

A handler of the actor runs to completion before the next message is taken, but a kill may come
between any two of its effects, and a write may fail. So a handler is a sequence of steps: `pc`
is the next one, `ret` the step after a running commit.

    message -> state change -> Persist -> Push -> UpdatePersistHealth -> (ret) -> idle
    tap     -> ChipKeyed | RecoverableFailure | PermanentFailure | KeyingNotReady
               -> RecordOutcome | RecordOutcomeFails -> AppendOverrun -> EmitVerdict -> commit
    tick    -> Tick (probe) -> TickBlip -> TickEndShift -> ConfirmEmission -> idle

Only effects that outlast the process or leave it are steps of their own; memory changes between
them cannot be told apart and are made with the next or the previous step. A message may arrive
whenever the actor is idle, with any content: this covers every order of the queue. Taps that
the gates of `on_card_presented` refuse change nothing and are not actions.

`disk`, `source`/`sourceDisk`, `overruns` are the files (and the overlay in memory); `diskOk`
says whether writes succeed; `boot` is the cache and `shown` the last snapshot that left the
process. `keyed`, `strikes`, `resetFailed`, `notReady` are history variables: no guard reads them.

Abstractions. Batch and chip names are model values; a shift's identifier is its number (the
code draws a UUID). Fixtures start at zero. `CrashRestart` is the kill and the next start in one
step. A reset of the demo or the conformance suite is one step; kills inside it are not
distinguished. Sequence numbers are `StationPage`'s subject. `failures.jsonl` is left out:
nothing reads it; its appends are `RecordLog`'s. `RecoveryContract` sees of all this one shift in
memory and one copy: it counts a verdict only when the copy has all the others. The refinement
maps `live` to the running shift, `durable` to the file's. Durations are sets of windows that
have not run out (`waits`): the order in which they end is free, which allows more than the code.

### StationPage and SnapshotMirror

A snapshot is its revision number; the core numbers payloads, refreshes the cache, pushes,
settles (a health flip is a payload of its own) and answers. The page is a document: it is
created by a window, boots by the synchronous pull or by the baked fallback, announces itself,
subscribes, applies payloads from two channels, and can be reloaded or lost at any step,
including between the render of the init script and the window. `SnapshotMirror` has three
variables, the core's revision, the published one, and the one on the screen; it promises that the
screen never goes back and never shows what was not published. The refinement maps `rev`,
`cache.rev` and `view.rev` to them.

A document that boots sends the core a notice, by `try_send`: it may be refused (the queue is
full), or wait in the queue while ticks are handled before it (`notice`). Assumption: the quiet
window (3 s) that a handled notice opens, and the spacing of two emissions, are long enough for
a document to have mounted its UI, and for the actor to read what was queued before
(`Space`, `EmitEndShift`).

### Watchdog and DevExit

Both are in discrete time. In `Watchdog` a unit is ten seconds, the period of the heartbeat
check; what is due is handled before time passes, and a page that is loaded again beats within
`LoadTime` units. In `DevExit` a unit is a second; events in the queue of the event loop are
handled before time passes or the chord is pressed again, timers may be late. Without that
promptness a stalled event loop could see a release and a press together; this is not covered.

### ReaderMonitor and ReaderProbe

The world (readers plugged and pulled, cards put down and lifted, the PC/SC service) changes at
any moment; the monitor's thread goes through its phases (`establish`, `list`, `listed`, `wait`,
`look`, `failed`) and blocks while the queue is full. Every placement of a card has a number, so
that a presentation can be told from a repetition. A wait may return at any time, because it
times out. The core is its queue, its presence bit and the chip being keyed. `ReaderProbe` takes
the core's place: the judge reads the same messages, in any order the monitor can send them, and
absorbs, waits or runs out of time; the operator is free not to do what the prompt says.
`ReaderGate` puts the two together as `run` does: the monitor's thread sends, the judge receives
the messages whole and sees their kind only, nobody else sends, and both end with the process.
`ReaderProbe` is then an abstraction of the real monitor (`ImplementsProbe`), and a pass can be
traced back to what was put down, lifted, pulled and plugged in (`PassIsReal`).

### SessionFile, RecordLog and Persistence

`SessionFile` is `create, write, sync, rename`, each of which may fail, be the last of a process
or of a machine. The file system is external: synced data stays, a rename is seen at once and
reaches the disk later, at the latest with the next sync; other data at any time or never. An
append of `RecordLog` is two pieces and a newline; a power cut leaves some beginning of the file.
`Persistence` has both, in the order of a tap: the record first, however that goes, then the save.
`StationCore` uses the register that `SessionFile` implements.

### SimKeying

The policy is behind a mutex, but arming an outcome and drawing it are two accesses, and
`sim_arm_policy` comes from another thread. Weights are unsigned words that wrap around, as a
release build adds them. Readiness lives twice, in the policy and in the station.

### Launch

A process loads the session, asks the single-instance plugin, sets up its windows (which may fail)
and runs; it may be killed at any step. A launch is a mode and some flags: `--dev-exit` arms the
chord and the `--quit`, `--windowed` takes the kiosk's guard from the main window, `--sim` opens the
console. While it runs a process is reduced to what it saves, verdicts and new sessions
(`NewSession`: a shift begun by the page, the console, the harness or the spike, and the resets), and
to the ways it can end:

| end | code | who |
|---|---|---|
| `ChordHeld`, a `--quit` (`Deliver`) | 0 | a station with `--dev-exit` |
| `CanaryLost` | 71 | the same |
| `Verdict`, `NoReport` | 0, 1, 2 | verification runs |
| `CloseWindow`, of its last window | 0 | every process with windows, but for the kiosk's main one (`main.rs:242-249`) |
| `SimQuit` | 0 | a process with a console |
| `GiveUp`, when the fault screen cannot be built | 70 | every process with a watchdog, that is all but a conformance run |
| `SetupQuit`, `SetupFails`, `Kill` | 3 or 4, "failed", "killed" | |

`Recreate` and `GiveUp` are what the watchdog does to the windows, at any time; when it does so is
`Watchdog`'s subject. `watched` is the processes whose watchdog has not given up.

External assumptions: the plugin makes the first asker of a Windows session its primary and delivers
arguments once the primary's event loop runs; the web view's data directory admits one process
(`WindowsFree`); the event loop ends with 0 when the last window is closed by hand, and does not end
between the destruction of a window by the watchdog and its making anew, nor when that fails.

## 3. The runs

| run | shows | bounds |
|---|---|---|
| `core_line` | `DurableWhileHealthy`, `AtMostOneTapAhead`, `ShownAheadOnlyWhilePausing`, `NoFourthChance`, `OverrunsAudited`, `PauseHeldUntilReady`, `ImplementsContract` | 1 batch of total 1, 1 chip, policy allow, 3 taps, 2 shifts, 1 kill, 1 breakdown of the disk |
| `core_console` | `BlockBound`, `BootCacheFresh` | a conformance process with the sim console, policy block; 2 taps, 1 each of shift, kill, error of the batch source, reset, breakdown, blip |
| `core_live` | `EndShiftResolves`, `LineResumes` | 1 each of tap, shift, end of shift, breakdown, kill; page loads at will; fairness |
| `page` | `PageCurrent`, `HeardInOrder`, `MissedOnlyByRace`, `BootedPageHearsEnd`, `ImplementsMirror` | any 3 events of 8 kinds (one or two of each) |
| `watchdog` | `StormCap`, `AttemptsHaveCauses`, `SilenceAnswered` | the code's constants; 1 of each of 6 kinds of failure; fairness |
| `devexit` | `FiresOnlyAfterHold`, `HeldChordExits` | hold of 2 units; 3 presses, 1 repeat, 1 lost release, 1 lost verification; fairness |
| `reader` | `PresenceFirst`, `NoSpuriousTap`, `WrongOnlyIfMoved`, `PresenceConverges`, `TapNoticed` | 2 readers, a queue of 1; any 3 of 2 placements, 1 pull, 1 outage, 1 other message, 1 kill; fairness |
| `files` | `NeverTorn`, `RecordedBeforeSaved`, `OneSpoiledPerInterruption`, `LosesOneSaveToACut`, `ImplementsRegister` | 3 saves, 3 records, 1 interrupted append, 1 power cut, 1 start that cannot read; kills and failed steps at will |
| `keying_taps` | `UpMeansReady`, `FiredAsRequested`, `DrawsByWeight` | 1 sticky chip, words of 2 bits, 7 choices of weights, of which some sum to 0 or wrap |
| `launch_crossing` | `NoFalsePass`, `LockdownHolds`, `SavedStays`, `QuitEndsArmed` | 2 processes of any mode, with the flags that make a difference, 2 Windows sessions, 2 verdicts; fairness |
| `probe_gate` | `PassIsEarned`, `Ends` | a queue of 4; fairness |
| `launch_stale` | a claim of a document that the code does not keep (section 6) | the least that shows it |

Type invariants. The `TypeOK` of every module that holds a state of the system (`RecordLog` calls
it `LogTypeOK`, `Persistence` `PersistenceTypeOK`) is proved in section 4. It is the first thing to add to a configuration while working
on a module (`INVARIANT TypeOK`); the runs spend their time on the rest.

One more configuration is kept beside the runs, because it takes half a minute and its properties
are proved: `MCReaderGate_real` checks `PassIsReal` and `ImplementsProbe` on one reader, a queue of
2, and any 4 of 2 placements, 2 pulls and 1 outage (1,061,183 states). These are what the
prompts ask for and one event more; passes with two cards, with one card twice, and with an outage
in the place of the unplugging all occur in it.

Why the bounds are enough to meet the interesting cases. Three taps let a chip reach its third
strike and let a second tap follow a tap lost with a write; two shifts let the file hold an old
shift while a new one runs; one batch of total one makes the second success an overrun. Swaps,
presence and readiness reports, ticks and page loads are not bounded at all. One kill and one
breakdown may each fall between any two steps. What these bounds leave out (more chips, batches,
kills) is covered for the properties that are proved. In `core_console` a kill of a conformance
process, which starts afresh, meets a broken disk and a reset.

In `page` three events together give every pair of a change with a reload, a lost window, a
fallback, a refused notice or a reset, with a third in between; what happens without an event (deliveries,
attaches, boots, emissions) is free. In `watchdog` six failures exceed the cap of three, and
with the unit of ten seconds the window of 60 s and the limit of 30 s are 6 and 3.

In `reader` three events let a card be put down while another one is tapped, its reader pulled or
the process killed, with the queue full by the first message; lifts, plugging in and the return of
the service are free. In `files` three records let one be torn, one be spoiled by it and one be
whole; three saves put two around a cut. Weights of two bits have every case of the addition: no
wrap, a wrap to zero, a wrap past zero. Two processes are enough for every step of `Launch`, which
are of one process or of a pair; what more of them could do to the safety properties is proved.
The queue of 4 in `probe_gate` holds an answer to each of the next prompts.

Deadlock is checked in the core's runs, `reader`, `files` and `keying_taps`, and turned off where
the system may stop or the budget of events runs out with nothing left to do: `page` (a page on
which nothing happens any more), `watchdog`, `devexit`, `launch_crossing`, `launch_stale` and
`probe_gate` (processes end).

### Fairness

* `StationCore`: weak fairness of the handler's steps (a handler that runs is not starved; it
  assumes that the keying layer answers, `key_chip` has no timeout) and of each window running
  out (time passes); strong fairness of the tick, because tokio's `select!` picks at random
  among the ready branches, so a due tick is taken again and again however full the queue is.
  None for messages, the disk's healing or kills: both liveness properties assume that reader,
  keying layer and disk eventually stay up. `EndShiftResolves` assumes besides that verdicts, boots
  of the page and further requests stop (`Postpones`): each verdict (2600 ms) and each boot (3000 ms)
  opens a quiet window anew, and a repeated request forgets the emissions there were
  (`core/actor.rs:539-543`), so that on a line that never rests a requested end waits for ever.
  Boots are not bounded in `core_live`, so the premise is met there; without it TLC finds that
  execution, one boot for every tick.
* `Watchdog`: weak fairness of the watchdog's task and of time. None for failures.
* `DevExit`: weak fairness of the event loop, the timers, the verification task and time.
* `ReaderMonitor`: weak fairness of the monitor's thread and of the core, which assumes again that
  `key_chip` answers; without it a full queue blocks the monitor for good. None for the world.
* `Launch`: weak fairness of what each process does by itself (the operating system runs it).
  None for verdicts, chords and launches.
* `ReaderProbe`: weak fairness of the judge and of its deadlines. None for the operator.

### Properties worth a word

`DurableWhileHealthy` has an exception, a reset whose write failed: the code only logs that.
`BlockBound` is the strongest bound the code keeps under policy block: with no kill, failed
write or error the total holds exactly, and each of them can cost one chip. `PauseHeldUntilReady`
excludes executions with a blip: a blip that runs out sets the keying leg to ready whatever the
layer last said. `PageCurrent` excludes a boot from a script baked before a demo reset.
`AttemptsHaveCauses` counts a failure of a page that has yet to beat twice, because a recovery
from a failed process does not restart the heartbeat's clock. `SilenceAnswered` exempts a window
that could not be built again: the code then neither recovers nor raises the fault screen.

`BootedPageHearsEnd` exempts a document that was exposed (`endExposed`): its notice was refused,
it was unloaded, or there was no page; the code really loses the event then. `TapNoticed` exempts a
card swapped for the next one between two waits, which the code never presents, and what lies
there when a `watch()` starts. `NoSpuriousTap` grants a second presentation for every time a reader
is pulled under its card. `OneSpoiledPerInterruption` counts records whose append returned without
an error and which no reader of lines can read. `RecordedBeforeSaved` is about executions without a
power cut: the log is not synced, so that a cut may take the record and leave the verdict.
`LosesOneSaveToACut` exempts a start that cannot read the file, which `session.rs:34-35` decides to
take for fresh state. `FiredAsRequested` exempts what the console armed in between (`lent`) and a
chip it made sticky (`stuck`).

`NoFalsePass`, `LockdownHolds` and `SavedStays` name every way the code has. A gate's 0 may come from a
hand that closed its windows, or pressed QUIT SHELL in its console (`dismissed`); that it then has
no result is `GateHasResults`, section 6. `LockdownHolds` is about the production launch, a station
without `--dev-exit`, `--windowed` and `--sim`, until its watchdog gives up; what comes after is
`FaultStays`, section 6. `SavedStays` says that a verdict leaves `session.json` when a process that has
it begins a shift or is reset, which any station may do at its page or console, or at the save
of a process that loaded before another one's last save; `launch_stale` shows the second.

## 4. The proofs

Eight modules, each EXTENDing the module it is about, prove for every value of the constants:

| module | theorem | statement | inductive invariant |
|---|---|---|---|
| `StationCoreProofs` | `Invariance` | `Spec => []Inv` | `Inv` |
| | `TypeCorrect`, `Durable`, `OneTapAhead`, `Escalation` | `[]TypeOK`, `[]DurableWhileHealthy`, `[]AtMostOneTapAhead`, `[]NoFourthChance` | |
| | `NeverBack` | `CountsNeverGoBack`: only a kill takes counts back, and by one tap at most | |
| | `PauseHeld` | `[]PauseHeldUntilReady` | `PauseInv` |
| | `Recovery` | `ImplementsContract` | `Inv`, `HasBatch` |
| | `BootFresh`, `ShownIsSaved` | `[]BootCacheFresh`, `[]ShownAheadOnlyWhilePausing` | `Inv`, `BootInv` |
| | `TotalHolds`, `OverrunsRecorded` | `[]BlockBound`, `[]OverrunsAudited` | `Inv`, `AccountInv` |
| | `ShiftsRecoverable` | `[](station.shift # None => CountsRecoverable)` | `Inv`, `HasBatch` |
| | `BlockExact` | under policy block and with no loss, `[]NoChipPastTotal` | `AccountInv`, `SourceInv` |
| `StationPageProofs` | `Types`, `TypeCorrect`, `InOrder` | `[]PInv`, `[]TypeOK`, `[]HeardInOrder` | `PInv` |
| | `Order`, `Mirrors` | `[]OInv`, `ImplementsMirror` | `PInv`, `OInv` |
| | `OnlyRacesDrop` | `[]MissedOnlyByRace` | these and `MInv` |
| | `ScreenCurrent` | `[]PageCurrent` | these and `CInv` |
| | `EndHeard` | `[]BootedPageHearsEnd`, if more than one emission is required | these and `EInv` |
| `PersistenceProofs` | `TypeCorrect`, `Atomic`, `OneSaveAtMost`, `Refinement` | `[]TypeOK`, `[]NeverTorn`, `LosesOneSaveToACut`, `ImplementsRegister` | `IInv` |
| | `FewSpoiled`, `LogTypeCorrect` | `LogSpec => []OneSpoiledPerInterruption`, `LogSpec => []LogTypeOK` | `LogInv` |
| | `Composition` | `PersistenceSpec => Spec /\ LogSpec` | |
| | `VerdictsLogged`, `PersistenceTypeCorrect` | `PersistenceSpec => []RecordedBeforeSaved`, `PersistenceSpec => []PersistenceTypeOK` | `PersistenceInv` |
| `KeyingProofs` | `TypeCorrect`, `Ready`, `AsRequested`, `ByItsWeight` | `[]TypeOK`, `[]UpMeansReady`, `[]FiredAsRequested`, `DrawsByWeight` | `IInv` |
| `LaunchProofs` | `TypeCorrect`, `GatesHold`, `Lockdown`, `Saved` | `[]TypeOK`, `[]NoFalsePass`, `LockdownHolds`, `SavedStays` | `IInv` |
| | `SingleInstance` | `[]OneServes`: one process at most has windows | `IInv` |
| `ReaderMonitorProofs` | `TypeCorrect`, `PresenceBeforeCard`, `TapsGranted`, `WrongMoved` | `[]TypeOK`, `[]PresenceFirst`, `[]NoSpuriousTap`, `[]WrongOnlyIfMoved` | `Inv` |
| | `LiftedBetweenTaps` | `[](used.pulls = 0 => OnceUntilLifted)` | `Inv`, `PullInv` |
| | `MonitorAsProbed` | `GateSpec => ImplementsProbe` | `Wired` |
| | `PassEarned`, `ProbeTypeCorrect` | `Probe!Spec => []PassIsEarned`, `Probe!Spec => []TypeOK` | `EarnedInv` |
| | `PassHappened` | `GateSpec => []PassIsReal` | `Wired`, `EarnedInv`, `CountInv`, `CalmInv` |
| `DevExitProofs` | `TypeCorrect`, `OnlyAfterHold` | `[]TypeOK`, `[]FiresOnlyAfterHold` | `IInv` |
| `WatchdogProofs` | `Caused` | `[]AttemptsHaveCauses` | `IInv` |
| | `CapHolds` | `[]StormCap` | `CapInv` |
| | `TypeCorrect`, `FaultsMeanStorm` | `[]TypeOK`, `GivesUpOnStorm` | `IInv`, `CapInv`, `Rest` |

Assumptions: the named ASSUMEs of the modules, which TLC evaluates in the runs. They are the
constants' types, that `Option::None` is none of the values it stands beside, and, for `Watchdog`,
that a page may load in time for the heartbeat's limit (`LoadTime <= HeartbeatLimit`). `EndHeard`
alone has a hypothesis of its own, below.

**StationCore.** `AtMostOneTapAhead` is not inductive: nothing in it says why a second verdict
cannot be recorded while the first is unsaved. `Inv` adds what the code relies on:
`TapInv` (a tap that is being handled has a chip, a batch and, until its verdict, a
connected line), `CommitInv` (a connected line has its persistence healthy; a continuation is
held during a commit only; a pending end of shift has emissions left), `DiskInv` (a commit whose
write succeeded has the state on disk; after a reset that failed to write there is no shift to
lose), `DurableWhileHealthy` itself, `ShiftInv` (no shift, running or on disk, has a number that
was not given out, so a new shift is not the file's) and `StrikeInv` (the retry verdicts shown
for a chip are the ledger's failures but for the verdict in hand). With them a verdict is
recorded only on a line whose last write succeeded: the file equals the state before it, and is
one tap behind after it. `NeverBack` follows from the same invariant: only a kill replaces
counts by the file's, which are at most one less. The proof has one lemma per group of conjuncts
and, under each, one step per action.

`PauseInv` adds to the pause that without a blip used there is none running. `BootInv` says that
the boot cache is behind in the middle of a commit at most; with `DurableWhileHealthy` it gives
`ShownIsSaved`, because what leaves the process is a snapshot of a state that was first written
or whose failed write pauses the line before the next message.

**Recovery.** With `Inv` every step of the actor is one of the contract or a stutter: a
verdict is `Count` because the file equals the state before it, a write is `Save`, a kill
`Restart`. `HasBatch` adds that a shift that runs has a batch: `to_persisted` writes the shift and
its batch together, and a running shift without one would be saved as none.

**Accounting.** `BlockBound` and `OverrunsAudited` bound a history (`keyed`, or what the batch source
counts) by four copies of a count that disagree after a kill or a failed write: the source's, its
file, the station's batch and `session.json`. `AccountInv` says of each copy that it covers the
chips keyed but for the losses so far (kills, breakdowns of the disk, errors of the source, each
counted once) and what the running handler still brings to it (`Owed`). A breakdown is the hard
case: it is counted when it happens and costs a chip only if a tap is taken before the line knows,
so an invariant without a reserve for it breaks two steps later. `Credit` is that reserve: one as
long as the disk is broken and a first write has not failed. `OverrunsAudited` needs the same
argument with the appended records in the place of the copies. A lemma per action says what the
step pays for; the arithmetic is separate from the case analysis.

**Claims that hold with a condition.** Two of the claims that section 6 lists are kept by the code up
to one case each, and the theorems say which. `ShiftsRecoverable`: what is shown on a line that takes
taps is on disk whenever a shift runs; only a batch swapped in without one is lost. It needs no
exception for a failed reset, because such a reset leaves no shift (`DiskInv`). `BlockExact`: a
total is exceeded only after a kill, a breakdown of the disk or an error of the source. It needs,
besides `BlockBound`, that the source is not ahead of the chips keyed (`SourceInv`), which a kill
after a failed reset would break, since the overlay file then brings back what the reset dropped.

**StationPage.** `HeardInOrder` needs more than the adapter's test of the number: `PInv` says that
whatever travels (the evaluations, the answers, the attach) has a number already given out, that
no document has heard of a payload above the last number it took, and that its view is not ahead
of that. `OInv` says that numbers and snapshots keep one order: a later payload never carries an
older snapshot, and nothing travels that the cache did not have first. With both a payload that is
applied takes the mirror's screen forward, and not past what was published.

`MInv` is about what the number's test throws away: the evaluations are in the order of issue, and
the adapter's number is the one its boot, an answer or the last evaluation left it (`Reached`); so
an evaluation that is dropped was overtaken by an answer, or was in the boot snapshot. `CInv` says
of a page that is behind why it will not stay so (`Brought`): something that carries the newest
snapshot under a number the adapter will take is on its way, is being issued, or will be asked
for by an attach that is still to be delivered. `EInv` follows an end of shift through its
emissions: the page that was there waits for it, booted, subscribed or with its notice to come
(`PageWaits`), the spacing of emissions outlasts the notice queued at the last one (`NoticeRead`),
so any emission but the first is heard (`SecondHeard`), and the end is confirmed only after
`EndShiftEmitsToConfirm` of them. Hence the hypothesis `EndShiftEmitsToConfirm > 1`: the code's value is
2 (`core/actor.rs:43`), and with 1 TLC finds the property violated, an emission between the boot of
the page and its subscription. The constant is not a margin, the property needs it.

**Persistence.** `NeverTorn` rests on the order of the steps of `atomic_write`: the temporary file is
whole after `write`, synced after `sync`, and only then renamed; a new save starts by truncating it,
also what another process left. The refinement maps `stored` to what is at the path, `safe` to what
is on the disk: a sync makes the file before this one safe, so that a cut takes one write at most.
For the log, `Numbers` says that the record being appended is new and stands only at the end of
the last line, and `Budget` that the spoiled records, the one that a torn tail will spoil and the one
that stands there without its newline are paid for by interruptions (one each) and cuts (two
each). Each part of the composition takes its own steps or none (`Composition`), so that both
invariants hold of it; `RecordInv` then orders them: a verdict in memory, and a tap past its append,
has its record in the file or an error to show for it.

**SimKeying.** `UpMeansReady` relates the two copies of the readiness over every report, blip,
refusal and reset; `FiredAsRequested` needs that nothing stays armed from one presentation to the
next unless the console armed it; `DrawsByWeight` is a case split on the two sums modulo `Word`,
for every width.

**Launch.** `IInv` says which processes may be handed to another one (never a verification run),
where each exit code comes from (a 0 of a verification run from its verdict or from a hand), that
the web view's directory keeps processes with windows apart (`OneServes`), that a running station
whose file was not written by another one since it loaded has all of it in memory (`NotBehind`), and
which windows a process can have (`Screens`): only a running or ending one has any, a console only if
`--sim` asked for it, and a process whose watchdog has not given up no fault screen. The last is
what `Lockdown` needs: a production station that is watched has no window but its main one, which
the kiosk does not let anybody close.

**ReaderMonitor.** The monitor's knowledge lags the world, and the core's lags the monitor's. `ReportInv`
says that what was reported last is what the core will have heard at the end of its queue;
`GrantInv` that the presentations a placement may still cause, one for a reading that is an edge
and one for a reader taken to be empty under it, are within its grants, which needs that no
placement is on two readers (`OwnInv`); `SeenInv` that a placement that was read and is not keyed
yet lies there still, or was moved. `PullInv` says that nothing but a pull grants a placement a
second presentation: `LiftedBetweenTaps` is what remains of the claim that `MCReaderMonitor_replug`
refutes.

**The hardware gate.** `MonitorAsProbed` is a refinement step by step: the monitor of
`ReaderProbe` may send a presence only if it differs from the last one and a card only while a reader
is reported, and `Wired` says why the real one does no other (in particular that it waits and
looks only after it reported a reader). `EarnedInv` says what the judge has counted and read at each
stage if no case has failed yet; `PassEarned` follows, for every monitor `ReaderProbe` allows, and through the
refinement for the real one. What a pass says of the world is a question of counting: the presentations read and
those still queued are a line (`Holds`), and `CountInv` says that a placement that stands in it
twice was presented twice, and `NoSpuriousTap` that it was then granted two; so two presentations of
one placement mean a pull. `CalmInv` says that with no pull and no outage an absence that was reported
is older than every presence: the judge cannot read one as the answer to its prompt.

**DevExit.** A timer knows its press only by its generation. `HeldSince` says that a timer of the present
press has no longer to go than the keys have to stay down; it is kept because a press that is over
is forgotten before the next one (`WillForget`: with no release lost, one is the last event on
the loop), and because no timer has a generation to come (`TimersPast`).

**Watchdog.** Causes are counted when something goes wrong, attempts later. `Paid` says that the causes
cover the attempts made, the failures still in the queue and, if the page's silence will outlast
the limit with nothing more going wrong, the heartbeat's attempt (`Credit`). The gate plays no part.
`StormCap` is about a span that ends at any time, while the gate forgets only when it admits. `CapInv`
says that, until the watchdog gives up, what the gate would retain now is what was carried out in
the last span. It rests on four facts about lists of ages in the order of the attempts: `retain` drops
a first part of them (which part, by the least-number principle), never lengthens them, keeps an
attempt made now, and what it drops now it would drop later (`RetainedOlder`). The converse,
`FaultsMeanStorm`, is the cap as the operator meets it: the attempt that is refused finds the limit
already carried out within its span. `Rest` bounds the gate's own list, which between two attempts
holds ages that no longer count.

Only model-checked: all liveness (`EndShiftResolves`, `LineResumes`, `SilenceAnswered`,
`HeldChordExits`, `PresenceConverges`, `TapNoticed`, `QuitEndsArmed`, `Ends`), because liveness under
fairness and `ENABLED` are beyond the prover. Every safety property that a passing run checks is
a theorem. No module declares a `RECURSIVE` operator.

## 5. What is not modelled

* Configuration, paths, logging, JSON and string handling, the argument parser (a launch has one
  mode and a set of flags), the build and gate scripts: formatting, or code that keeps no state. The cases of the
  conformance suite are tests; what they do to the station is in `StationCore` and `SimKeying`.
* The capacity of the core's queue, but for the notice it refuses and the monitor it blocks.
* The keying of a real chip, which is in another repository: `key_chip` may have any outcome. A
  `key_chip` that never answers (`core/actor.rs:427`) stops the actor; the fairness assumes that
  it answers, and the code has no timeout that would see to it.
* Kills inside a reset, whose writes are one step.
* The core behind a fault screen (`watchdog.rs:130`): it goes on keying chips for a page that
  shows nothing. The two share no state. A window that cannot be built again (`watchdog.rs:117`)
  is in `Watchdog`, and exempted: the station stays dark.
* A `--quit` sender nobody consumed is its session's primary for the 100 ms of its scan
  (`main.rs:253`); a station launched then hands over its arguments and ends. `Launch` has the
  steps, no document says what should happen.

## 6. Where documents and code disagree

`launch_stale` is a listed run. The others are kept as configurations, each a second's work; TLC
finds the property in its cfg violated (with `-continue`, both of `MCLaunch_closed`).

| configuration | says | the code |
|---|---|---|
| `MCLaunch_stale` | `DEPLOYMENT.md:16`: a restart is lossless | a process that loaded the session before the station it takes over from saved again writes the old one back |
| `MCLaunch_session` | `DEPLOYMENT.md:99`: a `--quit` from another Windows session ends with 3 | with 4: the scan of process names crosses sessions (as lines 51-54 say) |
| `MCLaunch_closed`, `GateHasResults` | `cli.rs:11`: a conformance run exits "0/1/2 with results" | its window is an ordinary one; closed by hand it ends the process with 0 and without a result |
| `MCLaunch_closed`, `FaultStays` | `watchdog.rs:127`: the process stays alive so the fault stays visible; `README.md:156`: Alt+F4 does nothing | the guard against closing is for the label "main" only (`main.rs:243`); the fault screen can be closed, and the process ends with 0 |
| `MCStationCore_swap` | `bridge/vendor/contract.ts:11-12`: the shell persists the active batch and counts across crashes | a batch swapped in without a shift is never on disk, nor are the counts of its taps |
| `MCStationCore_overrun` | `config.rs:20-21`: past the total no keying call and no verdict | after a kill between `record_outcome` and the session write, one more chip is keyed |
| `MCStationPage_race` | `contract.rs:83-86`: delivery by the two channels is race-free | events of a payload that an answer overtook are dropped |
| `MCStationPage_end` | `core/actor.rs:40-43`: one emission would suffice by construction | both can be dropped while the window is recreated, and are counted |
| `MCDevExit_lost` | `devexit.rs:92-94`: a lost release can never fire the exit | the old timer fires for a new, short press |
| `MCReaderMonitor_replug` | `reader/mod.rs:13-15`: the card must be lifted before the next presentation | a reader pulled and plugged in again between two waits presents its card twice |
| `MCPersistence_cut` | `DEPLOYMENT.md:58-61`: after a power cut, the state as of the last completed tap | the directory is not synced: the rename may be lost, and one tap with it |
| `MCPersistence_tail` | `DEPLOYMENT.md:61-62`: the logs may carry one torn final line | the next append continues the torn line, which is then not the last and has swallowed a record |
| `MCReaderProbe_flap` | `probe.rs:132`: "no events, no presence flap on removal" | only the last presence of the window is judged: a flap passes |

## 7. Plan

Done: the core with its proofs and its recovery contract, the page with its abstract
specification and its proofs, the watchdog, the exit chord, the reader monitor and the probe,
the files, the sim keying, startup. What is left, in this order:

1. Kills inside a reset; the core going on behind the fault screen (`Watchdog` composed with
   `StationCore`); several queued messages in `StationCore` with the queue's bound.
2. Proofs: the safety of what item 1 adds.
