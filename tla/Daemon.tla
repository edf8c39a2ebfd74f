------------------------------- MODULE Daemon -------------------------------
(***************************************************************************)
(* daemon.js over the processes it manages: the focus handler, the two     *)
(* timer loops, the manual commands of the IPC server, clean shutdown,     *)
(* crash and crash recovery.                                               *)
(*                                                                         *)
(* The daemon is one event loop.  A synchronous stretch of JavaScript is   *)
(* one action; an await ends the action and what follows it is another, so *)
(* everything may happen in between.  There are two kinds of asynchronous  *)
(* activity: focus handlers, any number of which are in flight at once     *)
(* (tasks), and the slow tick, which its flag keeps to one (slow).         *)
(*                                                                         *)
(* A kill may also cut a stretch short.  In SlowClassify, where the order  *)
(* of commands and file matters, that is an action (KilledThrottling); in  *)
(* the others what it leaves is a mix of before and after.                 *)
(*                                                                         *)
(* Abstracted: WARN and CRITICAL are one level (StressControl has all      *)
(* three); which processes are heavy, media or protected by a plugin is    *)
(* any choice; the cores have one governor between them.                   *)
(***************************************************************************)
EXTENDS Rollback, FiniteSets

CONSTANTS Pids,         \* the pids in play, other than the daemon's own
          NoPid,
          Parent,       \* Parent[p]: the pid that forks p, or NoPid
          GamePids,     \* pids GameMode may report as active
          Handlers,     \* bound: focus handlers in flight at once
          MaxDaemons,   \* bound: daemon processes started
          GovernorSwitch, \* ENABLE_GOVERNOR_SWITCH, after the check for PPD
          Commands      \* bound: the IPC commands issued, <<command, pid>>

ASSUME DaemonAssumption ==
  /\ NoPid \notin Pids
  /\ Parent \in [Pids -> Pids \cup {NoPid}]
  /\ GamePids \subseteq Pids
  /\ MaxDaemons \in Nat
  /\ GovernorSwitch \in BOOLEAN
  /\ Commands \subseteq {"boost", "throttle", "restore"} \X Pids

VARIABLES
  \* the machine
  alive,      \* the live processes
  inc,        \* inc[p]: start time of the latest process with pid p
  ppid,       \* ppid[p]: its parent, NoPid once the parent has exited
  os,         \* os[p]: the attributes the kernel keeps for p
  gov,        \* the scaling governor of the foreground cores
  focus,      \* the process whose window has the focus
  \* the daemon's memory
  run,        \* up; stopping or failed (cleanupAndExit over); down
  daemons,    \* daemon processes started so far
  fg,         \* State.currentForegroundPid
  stress,     \* scheduler.stressLevel
  throttled,  \* the keys of scheduler.autoRestore
  tasks,      \* tasks[i]: a handleForegroundChange in flight
  slow,       \* the slow tick in flight
  oomLogged,  \* pids with an oom_score_adj entry in the modification log
  govOriginal, \* governorMgr._originalGovernors
  mem,        \* rollbackMgr._state
  \* the state file
  disk,
  \* history: live processes whose last change by a daemon was a slow
  \* tick's throttle; those among them throttled since the state file was
  \* last written; and those a daemon boosted or throttled, ever
  auto,
  unsaved,
  touched

machine == <<alive, inc, ppid, focus>>
kernel  == <<os, gov, auto, unsaved, touched>>
life    == <<run, daemons, govOriginal>>
books   == <<oomLogged, mem, disk>>
vars == <<alive, inc, ppid, os, gov, focus, run, daemons, fg, stress,
          throttled, tasks, slow, oomLogged, govOriginal, mem, disk, auto,
          unsaved, touched>>

Governors == {"original", "boost"}
Listing   == [pid : Pids, ppid : Pids \cup {NoPid}]
State     == [entries : [Pids -> Entries], gov : Governors \cup {"none"}]

EmptyState(g) == [entries |-> [p \in Pids |-> NoEntry], gov |-> g]
NoFile   == [present |-> FALSE, state |-> EmptyState("none")]
Idle     == [stage |-> "idle", pid |-> NoPid]
SlowIdle == [stage |-> "idle", pid |-> NoPid, snap |-> {}]

\* The variables of daemon.js, scheduler.js and rollback.js have their types: a
\* record recovered from the state file never yields a value that is not one.
TypeOK ==
  /\ alive \subseteq Pids
  /\ inc \in [Pids -> 0..MaxStart]
  /\ ppid \in [Pids -> Pids \cup {NoPid}]
  /\ os \in [Pids -> Attributes]
  /\ gov \in Governors
  /\ focus \in Pids \cup {NoPid}
  /\ run \in {"up", "stopping", "failed", "down"}
  /\ daemons \in Nat
  /\ fg \in Pids \cup {NoPid}
  /\ stress \in {"NORMAL", "STRESSED"}
  /\ throttled \subseteq Pids
  /\ tasks \in [Handlers -> [stage : {"idle", "read", "boost"},
                             pid   : Pids \cup {NoPid}]]
  /\ slow \in [stage : {"idle", "read", "boost", "scan", "classify"},
               pid   : Pids \cup {NoPid},
               snap  : SUBSET Listing]
  /\ oomLogged \subseteq Pids
  /\ govOriginal \in Governors
  /\ mem \in State
  /\ disk \in [present : BOOLEAN, state : State]
  /\ auto \subseteq Pids
  /\ unsaved \subseteq auto
  /\ touched \subseteq Pids

(* ---------------------------- the machine ----------------------------- *)

\* A child inherits its parent's cgroup, niceness, I/O class and OOM score.
Spawn(p) ==
  /\ p \notin alive
  /\ inc[p] < MaxStart
  /\ alive' = alive \cup {p}
  /\ inc' = [inc EXCEPT ![p] = @ + 1]
  /\ LET forked == Parent[p] \in alive IN
       /\ ppid' = [ppid EXCEPT ![p] = IF forked THEN Parent[p] ELSE NoPid]
       /\ os' = [os EXCEPT ![p] = IF forked THEN os[Parent[p]] ELSE Neutral]
  /\ UNCHANGED <<life, gov, focus, fg, stress, throttled, tasks, slow, auto,
                 unsaved, touched, books>>

Exit(p) ==
  /\ p \in alive
  /\ alive' = alive \ {p}
  /\ ppid' = [q \in Pids |-> IF p \in {q, ppid[q]} THEN NoPid ELSE ppid[q]]
  /\ os' = [os EXCEPT ![p] = Neutral]
  /\ focus' = IF focus = p THEN NoPid ELSE focus
  /\ auto' = auto \ {p}
  /\ unsaved' = unsaved \ {p}
  /\ touched' = touched \ {p}
  /\ UNCHANGED <<life, inc, gov, fg, stress, throttled, tasks, slow, books>>

FocusMoves(p) ==
  /\ p \in alive \cup {NoPid}
  /\ focus' = p
  /\ UNCHANGED <<kernel, life, alive, inc, ppid, fg, stress, throttled, tasks,
                 slow, books>>

(* -------------------- what the handlers are made of ------------------- *)

\* getPidStartTime
StartTime(p) == IF p \in alive THEN inc[p] ELSE NoStart

\* actuator.restoreProcess on each of ps: no effect on the dead.
RestoreAll(ps) ==
  /\ os' = [p \in Pids |-> IF p \in ps \cap alive
                           THEN Restored(os[p], p \in oomLogged) ELSE os[p]]
  /\ auto' = auto \ ps
  /\ unsaved' = unsaved \ ps

\* A boost sets the governor unless it is GameMode's or the CPU is too hot.
SetsGovernor(gameMode, paused) == GovernorSwitch /\ ~gameMode /\ ~paused

\* _syncGovernorRollbackState: a boost that sets the governor copies the original
\* governor to the rollback record, and not, as it does for niceness, the new
\* (the variant).
RecordNewGovernor(gameMode, paused) ==
  IF SetsGovernor(gameMode, paused) THEN "boost" ELSE mem.gov
GovernorRecord(gameMode, paused) ==
  IF SetsGovernor(gameMode, paused) THEN govOriginal ELSE mem.gov

\* _executeBoost.  The writes to a dead process fail; the entry is made all the
\* same.
ExecuteBoost(p, gameMode, paused) ==
  /\ os' = IF p \in alive THEN [os EXCEPT ![p] = Boosted(@, gameMode)] ELSE os
  /\ auto' = auto \ {p}
  /\ unsaved' = unsaved \ {p}
  /\ touched' = touched \cup ({p} \cap alive)
  /\ oomLogged' = IF OomProtection /\ p \in alive THEN oomLogged \cup {p}
                  ELSE oomLogged
  /\ mem' = [entries |-> [mem.entries EXCEPT ![p] =
                            TrackBoost(@, StartTime(p), gameMode)],
              gov     |-> GovernorRecord(gameMode, paused)]
  /\ gov' = IF SetsGovernor(gameMode, paused) THEN "boost" ELSE gov

\* _executeThrottle on each of ps (and a variant that forgets the tracker)
ThrottleUntracked(ps) ==
  /\ os' = [p \in Pids |-> IF p \in ps \cap alive THEN Throttled(os[p])
                           ELSE os[p]]
  /\ mem' = mem
  /\ touched' = touched \cup (ps \cap alive)
ExecuteThrottle(ps) ==
  /\ os' = [p \in Pids |-> IF p \in ps \cap alive THEN Throttled(os[p])
                           ELSE os[p]]
  /\ mem' = [mem EXCEPT !.entries =
               [p \in Pids |->
                  IF p \in ps THEN TrackThrottle(@[p], StartTime(p)) ELSE @[p]]]
  /\ touched' = touched \cup (ps \cap alive)

\* isGameModeActive
MayBeGame(p) == IF p \in GamePids THEN BOOLEAN ELSE {FALSE}

(* ---------------------- handleForegroundChange ------------------------ *)

\* The part before the first await: adopt the new foreground and restore the
\* previous one.  (Two variants: one keeps the old one's boost, one forgets to
\* adopt.)
SwitchKeepingOld(p) == fg' = p /\ UNCHANGED <<os, auto, unsaved>>
SwitchForgetting(p) == fg' = fg /\ RestoreAll({fg} \ {NoPid})
SwitchForeground(p) == fg' = p /\ RestoreAll({fg} \ {NoPid})

IsChange(p) == p \notin {NoPid, fg}

\* Where the handler goes from there: a new foreground that is already gone
\* ends it, otherwise it awaits the process list and GameMode.
AfterSwitch(p) == IF p \in alive THEN "boost" ELSE "idle"

\* watchFocusChanges: a focus signal starts a query, whose answer starts a
\* handler.  Nothing keeps the answers in order.  The watcher outlives a
\* cleanup that failed.
FocusSignal(i) ==
  /\ run \in {"up", "failed"}
  /\ tasks[i].stage = "idle"
  /\ focus # NoPid
  /\ tasks' = [tasks EXCEPT ![i] = [stage |-> "read", pid |-> focus]]
  /\ UNCHANGED <<machine, kernel, life, fg, stress, throttled, slow, books>>

DeliverFocus(i) ==
  LET p == tasks[i].pid IN
  /\ run # "down"
  /\ tasks[i].stage = "read"
  /\ IF IsChange(p) THEN SwitchForeground(p)
     ELSE UNCHANGED <<fg, os, auto, unsaved>>
  /\ tasks' = [tasks EXCEPT ![i] =
       IF IsChange(p) /\ AfterSwitch(p) = "boost"
       THEN [@ EXCEPT !.stage = "boost"] ELSE Idle]
  /\ UNCHANGED <<machine, life, gov, touched, stress, throttled, slow, books>>

\* The part after the awaits: it boosts the pid it started with.
ResumeBoost(i, gameMode, paused) ==
  LET p == tasks[i].pid IN
  /\ run # "down"
  /\ tasks[i].stage = "boost"
  /\ gameMode \in MayBeGame(p)
  /\ ExecuteBoost(p, gameMode, paused)
  /\ tasks' = [tasks EXCEPT ![i] = Idle]
  /\ UNCHANGED <<machine, life, fg, stress, throttled, slow, disk>>

(* ------------------------------ slowTick ------------------------------ *)

\* getForegroundPID samples the focus, or fails (SlowBlind).
SlowPoll ==
  /\ run = "up"
  /\ slow.stage = "idle"
  /\ slow' = [SlowIdle EXCEPT !.stage = "read", !.pid = focus]
  /\ UNCHANGED <<machine, kernel, life, fg, stress, throttled, tasks, books>>

SlowBlind ==
  /\ run = "up"
  /\ slow.stage = "idle"
  /\ slow' = [SlowIdle EXCEPT !.stage = "read"]
  /\ UNCHANGED <<machine, kernel, life, fg, stress, throttled, tasks, books>>

\* The tick ends here under NORMAL.
SlowAfterFocus ==
  IF stress = "NORMAL" THEN SlowIdle ELSE [SlowIdle EXCEPT !.stage = "scan"]

SlowDeliver ==
  LET p == slow.pid IN
  /\ run # "down"
  /\ slow.stage = "read"
  /\ IF IsChange(p) THEN SwitchForeground(p)
     ELSE UNCHANGED <<fg, os, auto, unsaved>>
  /\ slow' = IF IsChange(p) /\ AfterSwitch(p) = "boost"
             THEN [slow EXCEPT !.stage = "boost"] ELSE SlowAfterFocus
  /\ UNCHANGED <<machine, life, gov, touched, stress, throttled, tasks, books>>

SlowBoost(gameMode, paused) ==
  LET p == slow.pid IN
  /\ run # "down"
  /\ slow.stage = "boost"
  /\ gameMode \in MayBeGame(p)
  /\ ExecuteBoost(p, gameMode, paused)
  /\ slow' = SlowAfterFocus
  /\ UNCHANGED <<machine, life, fg, stress, throttled, tasks, disk>>

\* listProcesses
SlowScan ==
  /\ run # "down"
  /\ slow.stage = "scan"
  /\ slow' = [stage |-> "classify", pid |-> NoPid,
              snap  |-> {[pid |-> p, ppid |-> ppid[p]] : p \in alive}]
  /\ UNCHANGED <<machine, kernel, life, fg, stress, throttled, tasks, books>>

SlowScanFails ==
  /\ run # "down"
  /\ slow.stage = "scan"
  /\ slow' = SlowIdle
  /\ UNCHANGED <<machine, kernel, life, fg, stress, throttled, tasks, books>>

Listed(snap) == {r.pid : r \in snap}

\* _buildDescendantSet: the least set with the root that is closed under the
\* listed children.
Descendants(snap, root) ==
  {p \in Pids : \A S \in SUBSET Pids :
     (root \in S /\ \A r \in snap : r.ppid \in S => r.pid \in S) => p \in S}

\* Who classifyProcesses may throttle, after two variants: without the test for
\* the foreground's descendants, without the early return under NORMAL.
CandidatesIgnoringFocus(snap) ==
  IF stress = "NORMAL" THEN {} ELSE Listed(snap) \ throttled
CandidatesAtAnyStress(snap) ==
  Listed(snap) \ (Descendants(snap, fg) \cup throttled)
Candidates(snap) ==
  IF stress = "NORMAL" THEN {}
  ELSE Listed(snap) \ (Descendants(snap, fg) \cup throttled)

\* pruneDead, which the early return under NORMAL skips.  (Variant: forget all.)
PruneAll(snap) == {}
Pruned(snap) ==
  IF stress = "NORMAL" THEN throttled ELSE throttled \cap Listed(snap)

\* rollbackMgr.persist at the end of the tick (variant: the state before it)
PersistedBefore(tracked, state) ==
  IF throttled = {} THEN disk ELSE [present |-> TRUE, state |-> mem]
Persisted(tracked, state) ==
  IF tracked = {} THEN disk ELSE [present |-> TRUE, state |-> state]

\* Everything after the media detection: classify, throttle, track, persist.
\* persist swallows the error of a write that fails.
SlowClassify ==
  /\ run # "down"
  /\ slow.stage = "classify"
  /\ \E heavy \in SUBSET Candidates(slow.snap), written \in BOOLEAN :
       /\ ExecuteThrottle(heavy)
       /\ throttled' = Pruned(slow.snap) \cup heavy
       /\ auto' = auto \cup (heavy \cap alive)
       /\ unsaved' = IF written THEN {} ELSE unsaved \cup (heavy \cap alive)
       /\ disk' = IF written THEN Persisted(throttled', mem') ELSE disk
  /\ slow' = SlowIdle
  /\ UNCHANGED <<machine, life, gov, fg, stress, tasks, oomLogged>>

(* ------------------------------ fastTick ------------------------------ *)

\* scheduler.tick settles on a level; at NORMAL it restores and forgets
\* everything in the tracker.
ToRestore(level) == IF level = "NORMAL" THEN throttled ELSE {}

FastTick(level) ==
  /\ run = "up"
  /\ stress' = level
  /\ RestoreAll(ToRestore(level))
  /\ throttled' = IF level = "NORMAL" THEN {} ELSE throttled
  /\ UNCHANGED <<machine, life, gov, touched, fg, tasks, slow, books>>

(* -------------------------- manual commands --------------------------- *)

\* The IPC server is stopped by a cleanup that succeeds, and by no other.
Command(c, p) ==
  run \in {"up", "failed"} /\ <<c, p>> \in Commands /\ p \in alive

ManualBoost(p, paused) ==
  /\ Command("boost", p)
  /\ ExecuteBoost(p, FALSE, paused)
  /\ UNCHANGED <<machine, life, fg, stress, throttled, tasks, slow, disk>>

ManualThrottle(p) ==
  /\ Command("throttle", p)
  /\ ExecuteThrottle({p})
  /\ throttled' = throttled \cup {p}
  /\ auto' = auto \ {p}
  /\ unsaved' = unsaved \ {p}
  /\ UNCHANGED <<machine, life, gov, fg, stress, tasks, slow, oomLogged,
                 disk>>

ManualRestore(p) ==
  /\ Command("restore", p)
  /\ RestoreAll({p})
  /\ throttled' = throttled \ {p}
  /\ UNCHANGED <<machine, life, gov, touched, fg, stress, tasks, slow, books>>

(* ------------------- shutdown, crash and recovery --------------------- *)

\* cleanupAndExit.  getThrottledPids() is a Set of numbers and the loop
\* destructures its elements as pairs, so with anything in the tracker it
\* throws after the foreground is restored and the rest is skipped.
Cleanup ==
  /\ run = "up"
  /\ RestoreAll({fg} \ {NoPid})
  /\ IF throttled # {}
     THEN run' = "failed" /\ UNCHANGED <<gov, mem, disk>>
     ELSE /\ run' = "stopping"
          /\ gov' = IF GovernorSwitch THEN govOriginal ELSE gov
          /\ mem' = EmptyState("none")
          /\ disk' = NoFile
  /\ UNCHANGED <<machine, touched, daemons, fg, stress, throttled, tasks, slow,
                 oomLogged, govOriginal>>

\* The memory of a daemon that is gone.
Forgotten ==
  /\ fg' = NoPid
  /\ stress' = "NORMAL"
  /\ throttled' = {}
  /\ tasks' = [i \in Handlers |-> Idle]
  /\ slow' = SlowIdle
  /\ oomLogged' = {}
  /\ govOriginal' = "original"
  /\ mem' = EmptyState("none")

\* process.exit, at once or when the log file is flushed (two seconds at
\* most); the loop turns until then.
ProcessExit ==
  /\ run \in {"stopping", "failed"}
  /\ run' = "down"
  /\ Forgotten
  /\ UNCHANGED <<machine, kernel, daemons, disk>>

\* SIGKILL, or an error no handler catches.
Crash ==
  /\ run = "up"
  /\ run' = "down"
  /\ Forgotten
  /\ UNCHANGED <<machine, kernel, daemons, disk>>

\* SIGKILL between the throttles and the end of persist.  Some are made, the
\* last perhaps in part, and the file is the old one: persist writes another
\* and renames it.
KilledThrottling ==
  /\ run # "down"
  /\ slow.stage = "classify"
  /\ \E heavy \in SUBSET Candidates(slow.snap) : \E last \in heavy :
       /\ \E half \in ThrottledUpTo(os[last]) :
            os' = [p \in Pids |->
                     IF p \in heavy \cap alive
                     THEN IF p = last THEN half ELSE Throttled(os[p])
                     ELSE os[p]]
       /\ auto' = auto \cup (heavy \cap alive)
       /\ unsaved' = unsaved \cup (heavy \cap alive)
       /\ touched' = touched \cup (heavy \cap alive)
  /\ run' = "down"
  /\ Forgotten
  /\ UNCHANGED <<machine, gov, daemons, disk>>

\* The processes recoverFromCrash restores, after a variant without the identity
\* test.
RecoverAll(saved) == {p \in alive : saved.entries[p].tracked}
Recoverable(saved) ==
  {p \in alive : /\ saved.entries[p].tracked
                /\ SameProcess(saved.entries[p], inc[p])}

\* bootstrap: recovery, which ends by removing the state file, and then the
\* capture of the governor as it finds it.
Start ==
  /\ run = "down"
  /\ daemons < MaxDaemons
  /\ run' = "up"
  /\ daemons' = daemons + 1
  /\ os' = IF disk.present
           THEN [p \in Pids |-> IF p \in Recoverable(disk.state)
                                THEN Recovered(os[p], disk.state.entries[p])
                                ELSE os[p]]
           ELSE os
  /\ gov' = IF disk.present /\ disk.state.gov # "none" THEN disk.state.gov
            ELSE gov
  /\ govOriginal' = IF GovernorSwitch THEN gov' ELSE "original"
  /\ mem' = EmptyState(IF GovernorSwitch THEN gov' ELSE "none")
  /\ disk' = NoFile
  /\ auto' = {}
  /\ unsaved' = {}
  /\ UNCHANGED <<machine, touched, fg, stress, throttled, tasks, slow,
                 oomLogged>>

(* --------------------------- specification ---------------------------- *)

Init ==
  /\ alive = {p \in Pids : Parent[p] = NoPid}
  /\ inc = [p \in Pids |-> IF Parent[p] = NoPid THEN 1 ELSE 0]
  /\ ppid = [p \in Pids |-> NoPid]
  /\ os = [p \in Pids |-> Neutral]
  /\ gov = "original"
  /\ focus = NoPid
  /\ run = "down"
  /\ daemons = 0
  /\ fg = NoPid
  /\ stress = "NORMAL"
  /\ throttled = {}
  /\ tasks = [i \in Handlers |-> Idle]
  /\ slow = SlowIdle
  /\ oomLogged = {}
  /\ govOriginal = "original"
  /\ mem = EmptyState("none")
  /\ disk = NoFile
  /\ auto = {}
  /\ unsaved = {}
  /\ touched = {}

Environment ==
  \/ \E p \in Pids : Spawn(p) \/ Exit(p)
  \/ \E p \in Pids \cup {NoPid} : FocusMoves(p)

Handler(i) ==
  \/ DeliverFocus(i)
  \/ \E gameMode, paused \in BOOLEAN : ResumeBoost(i, gameMode, paused)

SlowStep ==
  \/ SlowDeliver
  \/ \E gameMode, paused \in BOOLEAN : SlowBoost(gameMode, paused)
  \/ SlowScan
  \/ SlowScanFails
  \/ SlowClassify

Manual ==
  \E p \in Pids :
    \/ \E paused \in BOOLEAN : ManualBoost(p, paused)
    \/ ManualThrottle(p)
    \/ ManualRestore(p)

Next ==
  \/ Environment
  \/ \E i \in Handlers : FocusSignal(i) \/ Handler(i)
  \/ SlowPoll \/ SlowBlind \/ SlowStep
  \/ \E level \in {"NORMAL", "STRESSED"} : FastTick(level)
  \/ Manual
  \/ Cleanup \/ ProcessExit \/ Crash \/ KilledThrottling \/ Start

Spec == Init /\ [][Next]_vars

\* The event loop resumes every handler whose await is over, each await has a
\* timeout, the interval timer starts the slow tick again and again, and its
\* poll does not fail for ever.  Nothing makes the daemon start, or the focus
\* move, or a focus signal arrive.
Fairness ==
  /\ \A i \in Handlers : WF_vars(Handler(i))
  /\ WF_vars(SlowStep)
  /\ SF_vars(SlowPoll)

FairSpec == Spec /\ Fairness

(* ----------------------------- properties ----------------------------- *)

\* Every process the slow tick throttled is in the tracker, whatever happened
\* to it, to its pid or to the snapshot between the scan and the throttle:
\* scheduler.autoRestore is the daemon's only memory of what to restore.
ThrottledIsTracked == run # "down" => auto \subseteq throttled

\* Under NORMAL nothing the slow tick throttled is still throttled: a slow
\* tick that was waiting for its snapshot when the stress ended does not
\* throttle after fastTick has restored.
NormalLeavesNothingThrottled ==
  run = "up" /\ stress = "NORMAL" => auto = {}

\* Some handler is between the switch to p and its boost.
BoostPending(p) ==
  \/ \E i \in Handlers : tasks[i].stage = "boost" /\ tasks[i].pid = p
  \/ slow.stage = "boost" /\ slow.pid = p

\* The foreground is not left throttled: a process throttled before it got the
\* focus is boosted or about to be, and the slow tick spares a process that
\* became the foreground after its snapshot was taken.
ForegroundNotThrottled ==
  run = "up" /\ ~BoostPending(fg) => fg \notin auto

\* The state file has every throttle of the slow tick that was made before it
\* was last written, however many writes failed before: what a crash does not
\* find there was throttled since, by ticks whose write failed or by the one the
\* crash cut short.
ThrottleIsPersisted ==
  \A p \in auto \ unsaved : disk.present /\ disk.state.entries[p].tracked

\* Whoever a crashed daemon left throttled leaves the background when the next
\* one starts, if the throttle was made before the state file was last written
\* and the file has the start time of the process.
RecoveryFreesThrottled ==
  [][Start => \A p \in auto \ unsaved :
       SameProcess(disk.state.entries[p], inc[p]) => os'[p].place = "base"]_vars

\* Recovery changes no process that no daemon has changed: one that took over a
\* pid, before or after the crash, is recognised by its start time.  (An entry
\* made for a dead pid has none, and the code lets such an entry pass.)
RecoverySparesStrangers ==
  [][Start => \A p \in alive :
       os'[p] # os[p] =>
         p \in touched \/ disk.state.entries[p].start = NoStart]_vars

\* Where the focus is only polled, a state file left by the first daemon gives
\* the foreground cores the governor they had before it, whenever it crashed.
\* (A crash before the first persist leaves no file, and the next daemon takes
\* what it finds for the original.)
RecoveryRestoresGovernor ==
  [][Start /\ daemons = 1 /\ disk.present => gov' = "original"]_vars

\* With nothing in flight, what a boost gives to a process (placement, OOM
\* protection) is the foreground's alone: every other process the daemon
\* boosted has been restored, whatever died and was born under the same pid
\* meanwhile.  (A later daemon may find boosts of one that crashed.)
OnlyForegroundBoosted ==
  run = "up" /\ daemons = 1 => \A p \in alive :
    os[p].place = "fg" \/ os[p].oom = "protected" =>
      p = fg \/ \E q \in Pids : BoostPending(q)

\* If the focus stays on a process, the daemon settles on that process,
\* whatever late answers of the focus watcher are still to come.
FocusConverges ==
  \A p \in Pids : <>[](run = "up" /\ focus = p) => <>[](fg = p)

\* Architecture.md, "Shutdown cleanup": every throttled process is restored
\* before the daemon exits.
CleanupRestoresThrottled ==
  [][Cleanup => \A p \in throttled \cap alive : os'[p] = Neutral]_vars

\* rollback.js: recovery restores all modified processes to their original
\* state.
RecoveryRestoresOriginal ==
  [][Start => \A p \in Recoverable(disk.state) : os'[p] = Neutral]_vars

\* README.md: the foreground app has boosted priority and dedicated cores.
ForegroundIsBoosted ==
  run = "up" /\ fg \in alive /\ ~BoostPending(fg) => os[fg].place = "fg"
=============================================================================
