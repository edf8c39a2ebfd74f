# DynAlloc in TLA+

DynAlloc is a Linux daemon that gives the process in the foreground more of the
machine: it moves it to a cgroup (or pins it to cores), changes its niceness,
I/O class, OOM score and the CPU governor, throttles heavy background processes
while the machine is under pressure, and undoes all of it later, after a crash
too. This directory models the parts of it that are easy to get wrong and hard
to test, checks them with TLC and proves the most important results with TLAPS.

Paths are relative to the root of the repository.

## 1. Inventory

| component | state it keeps | operations | hard behaviour |
|---|---|---|---|
| daemon (`daemon.js`) | `State` (foreground pid, thermal pause), timers, `_slowTickRunning`, `shuttingDown` | focus handler, fastTick, slowTick, manual commands, hot reload, bootstrap, cleanup | three asynchronous activities over shared state, awaits in the middle of each; partial failure of the cleanup |
| scheduler (`scheduler.js`) | stress level, `HysteresisState`, `AutoRestoreTracker` | `tick`, `classifyProcesses`, boost plans | dwell times, a tracker keyed by reusable pids |
| rollback (`rollback.js`) | modified pids, original governors; the state file | track, persist, clear, `recoverFromCrash` | crash between two steps, recycled pids |
| actuator and controllers (`actuator.js`, `lib/controllers`, `lib/cgroup-manager.js`) | modification log, cgroup paths | renice, ionice, taskset, cgroup writes, OOM score | each command may fail by itself |
| governor (`governor.js`) | original governors | capture, set, restore all | what counts as original |
| sensor (`sensor.js`) | CPU history, focus watcher child | focus query and watch, process list, PSI, battery, temperature | unordered answers, failing polls |
| profiles (`profiles/`) | registry, demands by source, active profile, idle timer | demand, withdraw, idle timeout, reload of the profile file | priorities, a timer racing events, reload |
| adaptive engine (`adaptive/`) | pending transition, cooldown, history of switches, user override | event, debounce, switch, rollback, override | events that overtake one another, debounce, cooldown, oscillation |
| policy engine (`policy-engine/`) | rules in force, their cooldowns, once-only rules that fired, state store, previous readings, actions awaiting, delay timers, watcher of the policy file | update, emit, evaluate, execute with rollback, reload, destroy | re-entrant events, awaits in the middle of actions, rules that feed themselves, delays that outlive a reload |
| detectors (`detectors/`), recognition (`recognition/`) | last verdicts, pending context, debounce timer, last demand | detect on each tick, merge, recognise | two ticks that know different things, events merged under a debounce |
| VRAM reclaim (`lib/controllers/vram-reclaim-controller.js`) | processes held, cooldowns, interval | suspend, resume, force resume, stop, reload | a process left stopped |
| resource controllers (`lib/resource-controller-manager.js`, `lib/controllers/`), power budget (`power-budget-arbiter.js`) | GPU snapshot, cap in force, what `tc` and `nft` have of the interface | setup, apply, engage, release, destroy | one snapshot and several writers, commands that fail or are cut off half way |
| energy accounting (`lib/energy-accountant.js`) | last counter, totals, joules by application | sample, attribute | a counter that wraps around, shares of processes that come and go |
| predictive engine (`intelligence/predictive-engine.js`) | transition counts, active pre-allocation, its snapshot, two timers | record, pre-allocate, revert | revert of a guess while the foreground moves on |
| configuration (`config.js`) | `CONFIG`, one object that all parts read | load, validate, hot reload; thermal profiles and scheduler modes write it too | several writers, a rollback that puts old values back |
| rest of `intelligence/`, `monitoring/`, `metrics.js`, `logger.js` | records | record, report | none that changes the system |
| plugin SDK (`sdk/`), plugins | order of loading, state of each plugin | load, activate, deactivate, clean up | dependencies, a plugin that vetoes or throws |
| IPC server, CLI | connections | commands | its commands run between any two steps of the others |

How they interact: everything runs in one Node event loop. `fastTick` reads
pressure and temperature, asks the scheduler for the stress level and executes
the restores it returns. `slowTick` polls the focus (calling the focus handler),
lists the processes, asks the scheduler whom to throttle, executes it and has
the rollback manager persist. The focus handler is called by the slow tick and,
on GNOME/Wayland, by a D-Bus watcher. The IPC server calls the manual commands.
All of them write process attributes through the actuator and record them in
the rollback manager. Both ticks run the detectors, whose events reach the profile
manager over the bus, directly or through the adaptive engine. The ticks also feed the
policy engine, whose actions write governors, `CONFIG` and placement back; the
foreground changes feed the predictive engine. The remaining layers (VRAM reclaim,
power budget, energy, recognition, plugins) are off by default, run on timers of
their own and share nothing but `CONFIG` and the reading of the foreground.

What makes each correct: what the scheduler throttles is remembered, written
down and lifted; the foreground is spared and boosts do not stay behind; a crash
loses nothing that recovery needs; recovery touches no stranger; the stress
level and the thermal pause obey their times; the active profile is the one the
detectors and the user call for. A policy rule that matched is accounted for, a
failed action is taken back, and every core ends with the governor it began with.
What a layer stopped, capped, warmed up, loaded or counted is continued, released,
cooled down, unloaded in order and counted once. The thresholds that go in pairs
stay in order whoever writes them.

## 2. Modules

| module | models | lines of the source |
|---|---|---|
| `Actuator` | what a boost, a throttle and a restore do to the attributes of one process | `actuator.js` 146-282, `daemon.js` 530-565 and 963-975 |
| `Rollback` | the rollback record of one pid, and what recovery writes | `rollback.js` 41-85, 178-272 |
| `Daemon` (extends both) | the daemon over the processes of the machine | `daemon.js` 292-448, 530-613, 617-998, 1025-1144, 1731-1830, 2458-2640; `scheduler.js` 107-150, 313-447; `rollback.js`; `governor.js` |
| `MCDaemon` | finite instances of `Daemon` | |
| `StressControl` | hysteresis of the stress level, thermal pause, hot reload of the hysteresis flag | `scheduler.js` 34-103, 248-311; `daemon.js` 190-281, 457-503 |
| `DaemonProofs`, `DaemonSafetyProofs` | proofs about `Daemon` | |
| `StressProofs` | proofs about `StressControl` | |
| `ProfileManager` | demands, the choice among them, the idle timer | `profiles/profile-manager.js` 78-99, 179-198, 232-378 |
| `AdaptiveEngine` (extends it) | the profile manager with and without the adaptive engine | `adaptive/adaptive-engine.js` 197-252, 305-420; `adaptive/transition-manager.js` 62-270, 364-406 |
| `MCAdaptive` | finite instances of `AdaptiveEngine` | |
| `ProfileSelection` | what the profile layer promises: one profile, the commanded or else the strongest | `profiles/profile-manager.js` 353-378 |
| `AdaptiveProofs` | proofs about `AdaptiveEngine`, the refinement included | |
| `Matcher` | conditions of rules | `policy-engine/matcher.js` 95-264 |
| `RuleEngine` (extends it) | the rules of a file in force, cooldowns, which rules an event lets fire | `policy-engine/rule-engine.js` 55-280, `policy-loader.js` 265-304 |
| `EventSources` (extends `Matcher`) | readings, the store, the events they make | `policy-engine/event-sources.js` 45-270, `state-store.js` 46-189, `event-bus.js` 200-253 |
| `ActionExecutor` | what actions do, await and take back | `policy-engine/action-executor.js` 122-753, `governor.js` 20-104 |
| `PolicyEngine` (extends the four) | the policy engine in the event loop | `policy-engine/policy-engine.js` 100-461, `policy-loader.js` 316-441, its hooks in `daemon.js` |
| `MCPolicy` | a finite instance of `PolicyEngine` | |
| `PolicyProofs` | proofs about `PolicyEngine` | |
| `VramReclaim` | suspending and continuing users of video memory | `lib/controllers/vram-reclaim-controller.js` 93-572 |
| `ResourceControllers` | GPU limit, power budget, network interface, the manager's life | `lib/resource-controller-manager.js` 158-267, `lib/controllers/gpu-controller.js` 120-301, `network-controller.js` 226-440, `power-budget-arbiter.js` 94-459 |
| `PredictiveEngine` | counting, prediction, pre-allocation and its revert | `intelligence/predictive-engine.js` 131-417, its hooks in `daemon.js` |
| `PluginSdk` | loading and unloading plugins | `sdk/plugin-lifecycle-manager.js` 72-373 |
| `Recognition` | the detectors and the recognition of the workload | `detectors/`, `recognition/recognition-engine.js` 133-355, `workload-recognizer.js` 346-458, `daemon.js` 710-940 |
| `EnergyAccountant` | the energy counter and its attribution | `lib/energy-accountant.js` 119-361, `daemon.js` 2342-2373 |
| `Configuration` | the writers of `CONFIG` | `config.js` 828-1108, `daemon.js` 190-281 and 1694-1719, `thermal-controller.js` 96-133, `action-executor.js` 207-679 |
| `ProfileFile` | the registry of profiles, its file, inheritance, what an active profile sets | `profiles/profile-registry.js` 47-343, `base-profile.js` 99-103, `profile-manager.js` 150-256 and 353-534 |
| `LayerConstants` | constants these layers share | |
| `OptionalLayers` (extends the eight) | the layers together | `daemon.js` 2290-2412 |
| `MCLayers` | a finite instance of `OptionalLayers` | |
| `ProfileProofs` | proofs about `ProfileFile` | |
| `LayersProofs` | proofs about `OptionalLayers`, with those of `ProfileProofs` | |
| `ListLemmas` | facts about sequences, loops and numbers the proofs share | |

### Daemon: state and actions

A synchronous stretch of JavaScript is one action; each await ends one.

* The machine: `alive`, `inc` (start times), `ppid`, `os` (attributes), `gov`,
  `focus`. `Spawn`, `Exit` and `FocusMoves` are the environment. A child inherits
  the attributes of its parent, throttle included.
* `fg` is `State.currentForegroundPid`; `stress`, `throttled` the scheduler's
  level and tracker; `mem` and `disk` the rollback record in memory and on disk;
  `oomLogged` what `restoreProcess` finds in the modification log.
* `tasks[i]`: a focus handler started by the watcher. `FocusSignal` starts the
  query, `DeliverFocus` is the handler up to its await (adopt the new foreground,
  restore the old), `ResumeBoost` the rest.
* `slow`: the slow tick in flight, one at most (`_slowTickRunning`).
  `SlowPoll`/`SlowBlind`, `SlowDeliver` and `SlowBoost` (the same handler),
  `SlowScan` or `SlowScanFails`, `SlowClassify` (classify, prune, throttle,
  track, persist: no await among them; the write may fail, which `persist` swallows).
* `FastTick`, `ManualBoost`, `ManualThrottle`, `ManualRestore`.
* `Cleanup` is `cleanupAndExit` up to `process.exit`, with the loop that throws
  when anything is throttled; `ProcessExit`, `Crash`, `Start` (recovery,
  then the capture of the governor). `KilledThrottling` is a kill inside
  `SlowClassify`: some throttles are made, the last perhaps in part, and the file is
  still the old one.
* `auto` is a history variable: the live processes whose last change by a daemon
  was a throttle of the slow tick; `unsaved`, those of them throttled since the
  state file was last written; `touched`, the live processes some daemon
  boosted or throttled. No action reads them.

### StressControl: state and actions

`FastTick` evaluates the hysteresis and updates the pause at an arbitrary time;
`Boost` is the governor part of `_executeBoost`; `Reload` flips
`ENABLE_HYSTERESIS`; `Advance` moves the clock. The history (`wanted`,
`wantedSince`, `lastHot`, `pauseStart`, `raisedAt`) records what the ticks asked
for and saw, independently of the code's own counters, and the properties
compare the two.

### ProfileManager and AdaptiveEngine: state and actions

`demand` is the demand set, `active` the active profile, `idleDue` the idle timer.
`Demand` and the handlers of the three events are operators of `ProfileManager`;
`AdaptiveEngine` makes actions of them. `adaptive` is the switch
`ENABLE_ADAPTIVE_SWITCHING`, fixed by `Init`, so one instance covers both ways.
`Event` is an event of a detector: handled at once without the engine or when it
withdraws a demand, otherwise put through `Transition` (same profile, cooldown,
oscillation, then `pending`). `DebounceTimer` is `_executeTransition`,
`IdleTimeoutEnds` the idle timer, `DemandUserOverride` and `ReleaseUserOverride` the
commands, `Advance` the clock. `said`, `idleSince` and `successes` are history.

A demand weighs what its profile does, an override `ADAPTIVE_USER_OVERRIDE_PRIORITY`,
which may be anything from 0 to 1000 and so less than a profile's; its timestamp is 0, so
that it wins every tie (`Holds`).

`ProfileSelection` is the abstract specification: a command, the set of wishes, the
active profile. `ImplementsSelection` is its `Spec` with the override for the command
and the set of demands, whoever makes them, for the wishes; timers, waiting
transitions and demands that change nothing are stutters of it.

### PolicyEngine: state and actions

The engine is synchronous up to its actions, and an emission calls the evaluation
inside whatever emitted it. `todo` is the stack of the calls a callback has still to
make: `CallUpdate` turns a reading into fields and events, `CallEmit` evaluates the
rules against an event, `CallRunAction` runs an action up to its first await,
`CallDelayed` sets its timer. When `todo` is empty the microtasks run: `jobs` are the
actions awaiting, in the order they resume, and `ResumeJob` takes the first to its
next await (the stages are named in `ActionExecutor`). Only when both are empty does the
loop take a callback: a tick, an emission put off by `setImmediate` (`RunImmediate`), a
delay (`TimerFires`), the watcher of the policy file (`BaseStat`, `Notice`, `Reload`),
a reload of the configuration, `Destroy`. `machine` is what actions change: the
pressure thresholds, the governor of each core with the one captured, the placement of
processes. `owed` counts matches not yet in the audit log, `before` and `alone` in a
job are what its action found and whether another ran in between: history.

### OptionalLayers: state and actions

The layers share no state that one of them writes and another reads, so a behaviour
has one switched on (`layer`) and the state space is a sum and not a product. In short:

* `VramReclaim`: `VramTicks` is one interval, from the driver's list to the signals;
  `ForceResume`, `StopVram` and `ReloadVram` are the calls of the daemon; processes die,
  start under a used pid and take the focus.
* `ResourceControllers`: `ArbiterTick` reads, decides and moves the cap;
  `SetupNetwork` is `setup()`, of which every command may fail or be cut off by its
  timeout after it took effect, the two initial deletes unnoticed (`SetupCommands`);
  `TearDown` is `stop()`, which clears its flags whether its commands work or not;
  `ForceRelease`, `ReloadBudget`, `DestroyManager`; `ApplyGpuProfile` is another user of
  the GPU. `loose` is history: where a command failed the last time queueing or table
  were put up or taken away. A restored limit is rounded to whole watts (`Rounded`).
* `PredictiveEngine`: `ForegroundBecomes` counts, ends or starts a pre-allocation;
  `HoldEnds` is its timer.
* `PluginSdk`: every call into a plugin's code is an action: `LoadPlugin`,
  `Deactivate`, `Cleanup`.
* `Recognition`: `FastTick` knows power and idleness, `SlowTick` the name of the
  foreground, if it is still there; `RunRecognition` is the end of the debounce.
* `EnergyAccountant`: the machine `Consume`s, `SampleEnergy` reads the counter.
* `Configuration`: `CONFIG` has several writers: `HotReload`, `ApplyThermalProfile`,
  `SetSchedulerMode`, and `ProfileSettles`, which on failure puts back what the profile
  found, whatever was written since.
* `ProfileFile`: `registered` is the registry with what each profile resolved to,
  `calls` the demand set in the order of its timestamps. `CallProfile` and
  `WithdrawCall` are `demand`, `ReloadProfiles` the watcher of the file,
  `PluginRegisters` the plugin SDK. `_resolveInheritance` is two functions of the number
  of parents followed: `Walk`, the profiles it meets and whether it meets one twice, which
  rejects the profile, and `Inherited`, what it merges. `Given` is the preset the
  documentation promises, against which `ProfileInForce` compares it.

### Abstractions

* WARN and CRITICAL are one level in `Daemon` (they differ only in what makes
  them, which is `StressControl`'s subject, and in CRITICAL calling `slowTick` at
  once, which `SlowPoll` allows at any time).
* Who is heavy, media or protected by a plugin is any subset of those that
  `classifyProcesses` may throttle; the adaptive score is any Boolean.
* Commands on a live process succeed; those on a dead one change nothing. Tick
  intervals, idle backoff and watchdog are "at any time".
* A write of the state file may fail, and then the old one stays. Once the file could be
  written it can be read and removed. A kill cuts short the stretch in which the order of
  commands and file matters (`KilledThrottling`); in the others what it leaves is a mix of
  before and after, and they are atomic.
* In `ProfileManager` profiles are the built-in ones, whose priorities all differ. Only an
  override can tie with a profile, and its timestamp 0 wins; other timestamps do not
  matter and are left out. A demand for an unknown profile
  does not occur. `ADAPTIVE_DEBOUNCE_MS` is not 0, and timers go off one instant late
  at most. The engine's rollback is left out: it waits for an exception that
  `_forwardToPM`, `_activateProfile` and `_applySettings` all catch before.
* cgroup and affinity are one attribute (a run uses one of the two); the cores
  have one governor.
* `AUTO_RESTORE`, `ENABLE_SAFE_ROLLBACK`, `ENABLE_THERMAL_PROTECTION` have their
  default, true. A new daemon has another pid than the crashed one. The
  modification log is not cut.
* Policy: a condition compares numbers and Booleans; operators on strings and lists
  compare like `==`. The YAML syntax, templates, commands a rule may run and the
  rotation of the audit log are left out. Kernel commands of `ActionExecutor`
  succeed; what a resource controller answers is any choice.
* GPU and network commands fail whenever the environment likes, some of them after
  they took effect. Which load the arbiter reads, and what it is bound by, is
  any choice; the smoothing of its readings is left out.
* Predictive engine: one hour and one battery bucket; no context is evicted.
* Recognition: scores are those of events without a CPU or GPU reading.
* Energy: one process to an application. VRAM: the interval fires on time.
* Configuration: of the pairs of thresholds, those of CPU pressure and temperature;
  the memory pressure's are written where the CPU's are, except by the modes.
* Profile file: no two demands come at one instant; the thermal and the power
  controller take every preset they know; a governor is never set, because
  `_resolveCores` returns no cores.

## 3. Runs

| run | instance | what it shows |
|---|---|---|
| `daemon_core` | parent `p1` forks `p2`, one event handler, manual commands, two daemons | throttles are tracked, in the file once it could be written, lifted at NORMAL and never left on the foreground |
| `daemon_polling` | `p1`, `p2` unrelated, two start times each, OOM protection, governor switching, polled focus, two daemons | boosts do not leak; recovery frees what the file has, spares a process that took over a pid, and gives the cores the first governor back |
| `daemon_focus` | one handler, fairness | a focus that stays becomes the foreground |
| `stress_control` | dwell times 2, 1, 3, pause 3, clock to 7 | dwell respected, pressure followed, pause covers the heat, no boost in it |
| `adaptive` | four profiles, debounce 1, cooldown 1, window 6, threshold 3, idle timeout 3, one override of priority 450 (one profile is stronger, one its equal), clock to 8 | without the engine the profile follows the detectors; with it an override wins over what is not stronger and announced transitions are spaced and few; either way it implements `ProfileSelection` |
| `policy` | three policy files and an unreadable one, two cores, three governors, `MaxRules` 5, `MaxWaiting` 2, `Debounce` 1, `Late` 0, `LongAgo` 1 | every match is audited, an action that failed (a refused governor or mode, an unknown type, a missing event, a controller that refuses) is undone, governors are handed back, rules that emit events leave the loop time, edits of the file come into force |
| `optional_layers` | see below | nothing stays stopped, capped, pre-allocated, loaded out of order or unaccounted for; a recognised workload gets its profile; thresholds stay in order; the strongest call for a profile is obeyed and puts in force what the profile says and inherits |
| `daemon_cleanup` | violation | a clean shutdown leaves throttled processes throttled |
| `daemon_recovery` | violation | recovery re-applies the daemon's values |
| `daemon_boost` | violation | the end of stress strips the foreground's boost |
| `thermal_resume` | violation | the resume threshold is never consulted |
| `adaptive_withdrawn` | violation | a withdrawal is overtaken by the event it withdraws |

Bounds: `MaxStart` processes per pid (two show reuse), `MaxDaemons` daemons (two
show a crash and a recovery), `Handlers` focus handlers in flight besides the
slow tick (one already overlaps with it), `Commands` the manual commands (each
kind once), `MaxTime`. Two pids are enough for old and new foreground, parent
and child, foreground and background. Dwell times of 1 to 3 with clock steps of
1 and 2 put a tick before, at and past every deadline. The window of `adaptive` is
long enough for one transition more than its threshold allows, at the closest
spacing the cooldown and the debounce time leave.

The three files of `policy` hold, between them, a profile that succeeds and one that
fails half way, a delay, a rule that feeds itself, a once-only rule, rules of one event
in order of priority, and one rule more than `MaxRules` lets in. `MaxWaiting` bounds the
timers and emissions outstanding when a reading comes: two let a delayed action meet a
second match of its rule. `LongAgo` is the longest cooldown and delay.

`optional_layers`: a hold of 1, a cooldown of 3, an interval of 2, one suspension in a
tick, two reloads, three processes of which one is protected (VRAM); two observations,
at most two counted, threshold 70 %, hold 1, cooldown 2 (prediction); three plugins of
which one needs the two others and one is there twice; two idle ticks; a counter of 4
that is read while the machine uses 4, and two accounts for three applications
(energy); eight configuration files, two presets and the default, three modes, one profile
under way (configuration); four built-in profiles, four files that replace a parent, share
an ancestor, make a cycle and a tie, leave out a priority or a profile, one plugin and two
callers (profiles). In each the limit is reached and passed: the counter wraps,
an account is evicted, a cooldown ends after the hold, a directory is refused.

Each property can fail: beside the definition it depends on stands a variant that
no specification uses, changed as a plausible bug would change it (`PruneAll`,
`CandidatesIgnoringFocus`, `RecoverAll`, `PersistedBefore`, `CancelNever`, ...), and
with the variant in its place TLC finds the property violated. The pairs are
listed under "mutants" in `PROJECT.json`.

`Policy.cfg` and `Layers.cfg` turn the deadlock check off, because what they model ends:
a destroyed policy engine with nothing left to run, a layer that was stopped.

Fairness. In `daemon_focus` the event loop resumes every handler whose await
is over (weak fairness of the handlers and of the slow tick; every await has a
timeout), the interval timer starts the slow tick and its poll does not fail for
ever (strong fairness, since a tick in flight disables it). Nothing is assumed
of focus signals, of the daemon's start or of the processes.

In `policy` the event loop finishes the calls and microtasks of a callback (weak
fairness), and takes again and again the emissions, timers and changes of files that
wait, and lets time pass (strong fairness: other callbacks disable them for a moment).
Nothing is assumed of readings, edits and the end.

In `optional_layers` Node's timers fire and time passes (weak fairness of the interval,
the hold and the debounce), and slow ticks that find the name of the foreground recur
(strong fairness: between two of them it may have changed). Nothing is assumed of
processes, drivers and users, or of a run of the daemon's fast ticks.

## 4. What the violations say

1. **Cleanup** (`daemon.js:2472`): `for (const [pid] of
   scheduler.autoRestore.getThrottledPids())` destructures numbers. With anything
   throttled the statement throws, and the rest of the cleanup is skipped:
   processes stay throttled, the governor raised, the state file in place. The
   next start recovers from it (which is why `Start` after a failed cleanup finds
   the file). Architecture.md:169 promises the restore.
2. **Recovery** (`rollback.js:225`): the record holds what the daemon wrote.
   `rollback.js:6-8` promises the original state. Placement and OOM score are
   restored; `RecoveryFreesThrottled` says so and is proved.
3. **Boost** (`daemon.js:757`): a process throttled, then focused and boosted, is
   still in the tracker; NORMAL restores it. README.md:13 promises the boost.
4. **Thermal resume** (`daemon.js:491`): only the pause threshold is compared.
   The comment at 470-472 and `config.js:247` promise the other.

5. **Withdrawn demand** (`adaptive/adaptive-engine.js:319`): an event that calls for a
   profile waits out the debounce time, one that withdraws it does not and leaves
   the waiting one alone. A game that is left at once becomes the demand of the
   workload detector after its withdrawal, until the next workload event.
   ProfileManager.md:253 says that NONE withdraws the demand.

Besides these the models show, without a run of their own, where the code does less than
is written of it. The properties of the passing runs except exactly these cases, and their
comments say so.

* **Throttles since the last write** (`daemon.js:943-957`, `rollback.js:114`): a kill between
  the throttles and the end of `persist`, or a write that failed and is swallowed, leaves
  throttles that no recovery knows of. `rollback.js:8` says "no system left in modified
  state". `ThrottleIsPersisted` and `RecoveryFreesThrottled` are about the throttles made
  before the last write (`auto` without `unsaved`).
* **Overrides** (`adaptive-engine.js:216`): the comments there and at `config.js:408` and
  Architecture.md:827 say that an override wins all conflicts. It loses to every profile
  whose priority is above `ADAPTIVE_USER_OVERRIDE_PRIORITY`, which may be set to anything
  down to 0. `OverrideWins` says when it wins.
* **Repeated rule ids** (`policy-loader.js:278-283`): PolicyEngine.md:268,
  `policy-loader.js:31` and the warning at line 280 say the last one wins; the code warns
  and keeps both, which share one cooldown, since it is kept by id. `EditsTakeEffect` asks
  that the last one is in force and leaves the others open.
* **Failing teardown** (`network-controller.js:344, 351`): `stop()` runs its commands with
  `allowFail` and clears its flags whatever they did, so that a queueing or table stays
  which nobody removes any more; line 65 says that `stop()` removes the qdisc.
  `ControllersLetGo` excepts what a failed command left (`loose`).
* **Reverting a pre-allocation** (`daemon.js:2326-2336`): the revert writes "powersave" and
  the balanced GPU profile, where `predictive-engine.js:33-34` says the previous state comes
  back; and at the end `forceRevert` (`daemon.js:2600`) runs after `restoreAll` (line 2487),
  so that the cores end at "powersave" whatever they had first, where README.md:57 and
  Architecture.md:169 promise that all is restored. `PreallocationEnds` asks for an end of
  the boost and for what the code writes.
* **Plugin dependencies** (`plugin-lifecycle-manager.js:20`): "The manager loads
  dependencies first". It takes the directory order and refuses a plugin whose
  dependencies have not come yet.

Of profile files: a profile whose file gives
no priority is never chosen (`base-profile.js:89` has no default, ProfileManager.md:139
says 100); a built-in profile keeps what it inherited from a parent that the file replaces
at the start; an ancestor shared by two parents counts as a cycle
(`profile-registry.js:333`, one visited set for all branches); after a reload of the
profile file the built-in profiles are gone, and new settings of the active profile are
not applied, since `_reevaluate` acts only when another profile wins. `ProfileInForce`
names these exceptions.

## 5. Proofs

`DaemonProofs` proves `TypeCorrect`: `Spec => []TypeOK`.

`DaemonSafetyProofs` proves, for any pids, parents, handlers, commands and
bounds, `ThrottledIsTracked`, `NormalLeavesNothingThrottled`,
`ForegroundNotThrottled`, `ThrottleIsPersisted` and `RecoveryFreesThrottled`. They
are not inductive; the strengthening `ThrottleInv` adds

* `SnapshotHasThrottled`: the snapshot about to be classified lists everything
  throttled. Without it pruning with an old snapshot could forget a process. It
  holds because throttles come only from the slow tick, of which there is one,
  and because a process that dies leaves `auto`;
* `NothingThrottledAtNormal` (for every state of the daemon's life, failed
  cleanup included): lets the early return under NORMAL be harmless;
* `ThrottledIsRecorded`: the record in memory knows what the file knows, so a
  later persist does not lose it;
* `ForegroundSpared`: a throttled foreground has a boost pending. A process
  becomes the foreground and gets its boost in two actions with anything in
  between;
* `AutoIsAlive`, and that what is `unsaved` is in `auto`.

`ThrottleIsPersisted` itself needs that a write covers everything throttled so far: what
was throttled by ticks whose write failed is still in the tracker and the record when a
later one succeeds, which then empties `unsaved`.

`RecoveryComplete` then needs one step: the process is alive and not `unsaved`, so its
entry is on disk; its start time agrees, so `recoverFromCrash` writes it.

`StressProofs` proves the type invariant (`TypeCorrect`) and the other four properties of `StressControl` for any dwell times
and any pause. `StressInv` ties history to the code: while hysteresis has been
on, the pending level is the wanted one and is counted from the tick history
counts from (`CountAgrees`); the pause ends where its start says (`PauseAgrees`).

`StrangersSpared` is `RecoverySparesStrangers`. Its invariant `StrangersInv` says that an
entry, in memory or on disk, whose start time is that of a live process names a process a
daemon changed, and that no entry is younger than the process that has its pid. The second
part is what makes `Spawn` harmless: a newborn's start time is above that of every entry
for its pid.

Two properties of `daemon_polling` hold only where the focus is polled, and their
theorems say so in a hypothesis the instance of that run satisfies:

* `BoostsStayWithForeground` is `OnlyForegroundBoosted` under `OnlyTicksBoost` (no
  handlers, no process in play forks another, nobody boosts by hand). A handler that
  resumes late boosts the process it started with, a child inherits its parent's attributes,
  and a command boosts what it is told: each of them breaks the property. `BoostInv` adds
  that what has a boost's placement is the foreground, and that what has OOM protection is
  in the modification log as well, without which a restore would leave the protection;
* `GovernorRecovered` is `RecoveryRestoresGovernor` under `Handlers = {}`. While the first
  daemon is the only one there was, whoever may still raise the governor has recorded the
  one before (`RaisedIsRecorded`), and a state file without a name is one a cleanup wrote
  after setting the governor back (`NamelessFileIsLast`). A handler in flight could boost
  after that cleanup.

`AdaptiveProofs` proves `TypeOK`, and `OverrideWins`, `SuccessesSpaced` and
`ProfileFollowsDetectors` for any profiles with distinct priorities and any priority of
overrides. The invariant has one part for each: the active profile is the choice
among the demands and the user's demand is the override (`Chosen`); what waits
came a cooldown after the last announced success (`Spaced`); without the engine the
demands are what was said last, and the idle timer runs only since idleness began
(`Direct`). `ImplementsProfileSelection` is the refinement: initial states map to initial
states and every step to a step of `ProfileSelection` or a stutter. The lemmas under it
say that the choice by folding over the sources and the choice among the command and the
set of demanded profiles are one (`WinnerIsChoice`, from `StrongestHolds`), and that a
handler changes one demand.

`NeverOscillates` is `NoOscillation`. The engine counts the entries of a list it prunes, the
property the successes in any window of time. Their link is `Calm`: every success of the
window that ends now is in the list, so that the list is at least as long as there are
successes (`NotMoreValues`); and a transition that waits was let in when the window before
it had room for one more, room nobody else can take since only one transition waits.

`PolicyProofs` proves `GovernorsAreHandedBack`: `GovernorHandedBack` for any policy
files, conditions, cores and interleaving of actions. The invariant says that of every
core the initial governor is captured, or nothing is and the core still has it
(`Traceable`, which switches and rollbacks keep because they capture first), and that
nothing is left that could act once the engine is destroyed (`Quiet`).

`AuditIsComplete` is `AuditComplete`. `Ledger` says that what is owed is the number of calls
to come, delays and jobs together. Each step moves one entry from one of the three to
another or to the log, and the lemmas count: an event queues as many calls as
`EvaluateEvent` lets rules fire.

`FailuresAreUndone` is `FailedActionUndone`. A job that no other disturbs is harmless (it
has not failed, and nothing of it is to be undone), or what it changed is covered by the
snapshots it has still to restore (`Covered`, `Undoable`); each restore takes its snapshot
away with what it covered. An action that is refused (an unknown mode or type, an event
without a name) has changed nothing, so its snapshot puts back what is there. A thresholds
snapshot is taken by the first step only, because
a later step of a profile is never one that sets the mode (`NoModeLater`).

`LayersProofs` proves six properties of `OptionalLayers`, each from an invariant of its
layer that the others leave alone:

* `StoppedAlwaysKnown`: with the types of the entries the property is inductive
  (`VramInv`): whatever removes an entry continues the process first or finds it dead;
* `ControllersAlwaysLetGo`: a snapshot exists only while a cap that lowers the card is
  in force, and it holds the limit the card was found with (`CardInv`); what is on the
  interface has a flag, or a command failed the last time it was put up or taken away
  (`InterfaceInv`);
* `DependentsAlwaysUnloadedFirst`: what a plugin depends on stands before it in the
  order of loading, and only the last of that order is ever being unloaded (`SdkInv`);
* `ThresholdsAlwaysInOrder`: every snapshot that may be put back is in order too, and
  what validation lets through is, for any file (`ConfigInv`).
* `EnergyAlwaysAccounted` (`EnergyAccounted`): what the counter shows since the last sample
  is what was used, for as long as that is less than a turn of the counter, and never more
  (`EnergyInv`). An interval is shared by integer division, so that the shares add up to at
  most the whole; crediting an account, opening one and evicting the oldest change the
  sum of the accounts by at most the share (`AttributeAdds`);
* `ProfilesStayInForce` (`ProfileInForce`), from `ProfileProofs`, for any built-in
  profiles, files, plugins and callers. `ProfileInv` says that what a profile resolved to
  is, domain by domain, what it is given (`Fits`), wherever it is well resolved. The code
  merges whole settings depth first; `Given` asks each domain for the last parent that
  gives it something. They agree step by step (`ResolvedFits`), but the two registries
  before and after a registration take different numbers of steps, so the argument needs
  that walks in registries that agree on what a profile inherits from agree, whatever the
  number of steps, once it exceeds the number of profiles met (`SameWalk`, `SameGiven`): for
  a profile that is not rejected meets each of them once.

Induction. The prover has no induction rule it can apply to a formula, so each one is an
argument about a set of numbers: `LeastNumber` of `ListLemmas` is that a set of naturals
has a least element, and `Induct` that a set with 0 and successors holds all of them; the set is
then {n : the claim holds up to n}. A recursive function on 0..n is shown to exist in the
same way, one turn at a time (`OneMoreTurn`, `LoopRuns`). With it the loops of
`validatePolicy`, `evaluateEvent`, `_pruneRecentTransitions`, of the energy accounts and of
the profile registry are proved about for inputs of any length.

What proving found in the model. The first statement of `ProfileInForce` was wrong: at
startup the built-in profiles are resolved before the file is read and are resolved again
after it from what they had resolved to, so that a profile of the file which inherits from a
built-in whose own parent the file replaces gets the old parent's preset. The proof of
`StartRight` stops at exactly that case; with one more definition in the first file of
`MCLayers` TLC shows it too. `WellResolved` now excludes such profiles, and says why.

Assumptions: the named `ASSUME`s of the modules, which TLC evaluates in every run. Most only
type the constants. The others are what the code's own tables and checks guarantee: a
definition that `_validate` accepts is well formed, built-in profiles are valid and have
distinct ids, the rules of a policy file are a finite list, a listing of processes and the
set of applications are finite, presets and defaults of the configuration are in order.

Only model-checked are the liveness properties `FocusConverges`, `LoopComesToRest`,
`EditsTakeEffect`, `SuspensionEnds`, `PreallocationEnds` and `WorkloadGetsItsProfile`:
liveness is out of the prover's reach, as is anything with ENABLED. Every safety property
and every action property that a passing run checks is a theorem. The type invariants of
`PolicyEngine` and of the layers say what the variables range over; no run spends its time
on them. No module declares a RECURSIVE operator: the descendant set of `Daemon` is a least
fixed point, and loops are recursive functions.

## 6. Not modelled

* Learning, timeline, recommendation, explainability and doctor engines, report
  generator, metrics, logger, benchmark: they record and render; no part that changes a
  process reads what they keep.
* IPC line protocol and CLI: parsing and rendering. The commands that change the
  daemon's state are actions of `Daemon` and `AdaptiveEngine`.
* Wiring of the optional layers in `daemon.js` beyond what the modules name, and the
  watchdog, which restarts the timers: in the models a tick may come at any time.
* The controllers for CPU, I/O, memory, governor and power pass single commands on; what
  they write is in `Actuator` where the daemon uses it.
* The table of the configuration schema and the override of the log level.
* Manifests, permissions and versions of plugins: pure validation; plugins themselves.
* Parsers of `/proc`, of compositor output and of YAML, the tables of the classifier,
  topology detection, multimedia tuning: pure functions or I/O.
* Packaging, installation and the verification scripts.
