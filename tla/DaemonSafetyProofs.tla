------------------------- MODULE DaemonSafetyProofs -------------------------
(***************************************************************************)
(* What the slow tick throttled is tracked, persisted, restored when the   *)
(* stress ends, never the foreground, and freed by recovery; what is       *)
(* boosted is the foreground, where nothing else could boost; and recovery *)
(* touches no stranger, and gives the governor back.                       *)
(*                                                                         *)
(* The safety invariants are not inductive.  What is missing is that the   *)
(* snapshot a slow tick is about to classify lists every process already   *)
(* throttled (so that pruning keeps it), that the rollback record in       *)
(* memory knows it (so that the next persist keeps it), and that the dead  *)
(* are forgotten (so that a reborn pid starts afresh).                     *)
(*                                                                         *)
(* An entry of the rollback record, in memory or on disk, that carries the *)
(* start time of a live process is about a process some daemon changed:    *)
(* start times of a pid only grow, and an entry gets one only while the    *)
(* process it names is being changed.                                      *)
(*                                                                         *)
(* As long as the first daemon is the only one there was, the record names *)
(* the governor before it or none; where the focus is only polled, a state *)
(* file that names none is only written after a cleanup has set the        *)
(* governor back, and then no boost is left to come.                       *)
(***************************************************************************)
EXTENDS DaemonProofs

AutoIsAlive == auto \subseteq alive

SnapshotHasThrottled ==
  run # "down" /\ slow.stage = "classify" => auto \subseteq Listed(slow.snap)

NothingThrottledAtNormal == run # "down" /\ stress = "NORMAL" => auto = {}

ThrottledIsRecorded == run # "down" => \A p \in auto : mem.entries[p].tracked

ForegroundSpared == run # "down" /\ fg \in auto => BoostPending(fg)

ThrottleInv ==
  /\ AutoIsAlive
  /\ ThrottledIsTracked
  /\ SnapshotHasThrottled
  /\ NothingThrottledAtNormal
  /\ ThrottledIsRecorded
  /\ ThrottleIsPersisted
  /\ ForegroundSpared

\* Nothing is throttled at first.
LEMMA InitThrottleInv == Init => ThrottleInv
BY DEF Init, ThrottleInv, AutoIsAlive, ThrottledIsTracked, SnapshotHasThrottled,
       NothingThrottledAtNormal, ThrottledIsRecorded, ThrottleIsPersisted,
       ForegroundSpared

\* The root is among its own descendants, listed or not.
LEMMA RootIsDescendant ==
  ASSUME NEW snap, NEW root \in Pids
  PROVE  root \in Descendants(snap, root)
BY DEF Descendants

\* A boost removes no entry from the rollback record.
LEMMA TrackedStays ==
  ASSUME TypeOK, NEW p \in Pids, NEW gameMode \in BOOLEAN, NEW paused \in BOOLEAN,
         ExecuteBoost(p, gameMode, paused)
  PROVE  \A q \in Pids : mem.entries[q].tracked => mem'.entries[q].tracked
<1>1. mem.entries \in [Pids -> Entries] /\ StartTime(p) \in 0..MaxStart
  BY StartTimeType DEF TypeOK, State
<1>2. TrackBoost(mem.entries[p], StartTime(p), gameMode).tracked
  BY <1>1, EntriesType
<1>3. mem'.entries = [mem.entries EXCEPT ![p] =
                        TrackBoost(mem.entries[p], StartTime(p), gameMode)]
  BY DEF ExecuteBoost
<1> QED
  BY <1>1, <1>2, <1>3

\* A throttle removes none either and adds the throttled.
LEMMA ThrottledAreTracked ==
  ASSUME TypeOK, NEW ps \in SUBSET Pids, ExecuteThrottle(ps)
  PROVE  \A q \in Pids : q \in ps \/ mem.entries[q].tracked
                           => mem'.entries[q].tracked
<1>1. mem \in State /\ mem.entries \in [Pids -> Entries]
  BY DEF TypeOK, State
<1>2. ASSUME NEW q \in Pids
      PROVE  TrackThrottle(mem.entries[q], StartTime(q)).tracked
  BY <1>1, StartTimeType, EntriesType
<1>3. mem'.entries = [q \in Pids |->
                        IF q \in ps
                        THEN TrackThrottle(mem.entries[q], StartTime(q))
                        ELSE mem.entries[q]]
  BY <1>1 DEF ExecuteThrottle, State
<1> QED
  BY <1>2, <1>3

\* A step that throttles nobody, forgets nobody it should not, and takes no
\* snapshot keeps all but the last part of the invariant.
LEMMA QuietStep ==
  ASSUME TypeOK, ThrottleInv,
         auto' \subseteq auto, auto' \subseteq alive',
         auto' \ unsaved' \subseteq auto \ unsaved,
         run' # "down" => run # "down",
         run' # "down" /\ auto \subseteq throttled => auto' \subseteq throttled',
         slow' = slow \/ slow'.stage # "classify",
         stress' = stress,
         \A p \in auto : mem.entries[p].tracked => mem'.entries[p].tracked,
         disk' = disk
  PROVE  /\ AutoIsAlive'
         /\ ThrottledIsTracked'
         /\ SnapshotHasThrottled'
         /\ NothingThrottledAtNormal'
         /\ ThrottledIsRecorded'
         /\ ThrottleIsPersisted'
<1>1. AutoIsAlive'
  BY DEF AutoIsAlive
<1>2. ThrottledIsTracked'
  BY DEF ThrottleInv, ThrottledIsTracked
<1>3. SnapshotHasThrottled'
  BY DEF ThrottleInv, SnapshotHasThrottled, Listed
<1>4. NothingThrottledAtNormal'
  BY DEF ThrottleInv, NothingThrottledAtNormal
<1>5. ThrottledIsRecorded'
  BY DEF ThrottleInv, ThrottledIsRecorded
<1>6. ThrottleIsPersisted'
  BY DEF ThrottleInv, ThrottleIsPersisted
<1> QED
  BY <1>1, <1>2, <1>3, <1>4, <1>5, <1>6

\* A slow tick throttles no foreground: it is among its own descendants.
LEMMA CandidatesSpareForeground ==
  ASSUME TypeOK, NEW snap, fg \in Pids
  PROVE  fg \notin Candidates(snap)
BY RootIsDescendant DEF Candidates

\* The end of a slow tick prunes no throttled process, since the snapshot lists
\* them all, and tracks what it throttles; a write that succeeds has all of them.
LEMMA ClassifyKeepsInv ==
  ASSUME TypeOK, ThrottleInv, SlowClassify
  PROVE  ThrottleInv'
<1>1. PICK heavy \in SUBSET Candidates(slow.snap), written \in BOOLEAN :
        /\ ExecuteThrottle(heavy)
        /\ throttled' = Pruned(slow.snap) \cup heavy
        /\ auto' = auto \cup (heavy \cap alive)
        /\ unsaved' = IF written THEN {} ELSE unsaved \cup (heavy \cap alive)
        /\ disk' = IF written THEN Persisted(throttled', mem') ELSE disk
  BY DEF SlowClassify
<1>2. /\ run # "down" /\ run' = run
      /\ stress' = stress /\ alive' = alive /\ fg' = fg /\ tasks' = tasks
      /\ slow' = SlowIdle
  BY DEF SlowClassify, machine, life
<1>3. auto \subseteq Listed(slow.snap) /\ auto \subseteq throttled
  BY DEF SlowClassify, ThrottleInv, SnapshotHasThrottled, ThrottledIsTracked
<1>4. heavy \subseteq Pids
  BY DEF Candidates, Listed, Listing, TypeOK
<1>5. stress = "NORMAL" => heavy = {}
  BY DEF Candidates
<1>6. AutoIsAlive'
  BY <1>1, <1>2 DEF ThrottleInv, AutoIsAlive
<1>7. ThrottledIsTracked'
  BY <1>1, <1>3 DEF ThrottledIsTracked, Pruned
<1>8. SnapshotHasThrottled'
  BY <1>2 DEF SnapshotHasThrottled, SlowIdle
<1>9. NothingThrottledAtNormal'
  BY <1>1, <1>2, <1>5 DEF ThrottleInv, NothingThrottledAtNormal
<1>10. \A p \in auto' : mem'.entries[p].tracked
  <2>1. \A p \in auto : mem.entries[p].tracked
    BY <1>2 DEF ThrottleInv, ThrottledIsRecorded
  <2> QED
    BY <1>1, <1>4, <2>1, ThrottledAreTracked DEF TypeOK
<1>11. ThrottledIsRecorded'
  BY <1>10 DEF ThrottledIsRecorded
<1>12. ThrottleIsPersisted'
  <2>1. CASE written
    <3>1. auto' # {} => throttled' # {}
      BY <1>2, <1>7 DEF ThrottledIsTracked
    <3> QED
      BY <1>1, <1>10, <2>1, <3>1 DEF ThrottleIsPersisted, Persisted
  <2>2. CASE ~written
    <3>1. auto' \ unsaved' \subseteq auto \ unsaved /\ disk' = disk
      BY <1>1, <2>2
    <3> QED
      BY <3>1 DEF ThrottleInv, ThrottleIsPersisted
  <2> QED
    BY <2>1, <2>2
<1>13. ForegroundSpared'
  <2>1. SUFFICES ASSUME fg \in auto' PROVE BoostPending(fg)'
    BY <1>2 DEF ForegroundSpared
  <2>2. fg \in auto
    BY <1>1, <1>4, <2>1, CandidatesSpareForeground
  <2>3. slow.stage = "classify" /\ BoostPending(fg)
    BY <1>2, <2>2 DEF SlowClassify, ThrottleInv, ForegroundSpared
  <2> QED
    BY <1>2, <2>3 DEF BoostPending
<1> QED
  BY <1>6, <1>7, <1>8, <1>9, <1>11, <1>12, <1>13 DEF ThrottleInv

\* The first half of a focus handler leaves the new foreground either dead, and
\* so not throttled, or with a boost pending.
LEMMA SwitchSparesForeground ==
  ASSUME TypeOK, ThrottleInv, run # "down", alive' = alive,
         NEW p \in Pids, SwitchForeground(p), p \in alive => BoostPending(p)'
  PROVE  ForegroundSpared'
BY DEF ThrottleInv, AutoIsAlive, SwitchForeground, RestoreAll, ForegroundSpared

\* The second half ends one pending boost, of a process that it boosts.
LEMMA BoostSparesForeground ==
  ASSUME ThrottleInv, run # "down", NEW p, fg' = fg, auto' = auto \ {p},
         fg # p /\ BoostPending(fg) => BoostPending(fg)'
  PROVE  ForegroundSpared'
BY DEF ThrottleInv, ForegroundSpared

\* Every step of the daemon and of its machine keeps the invariant.
LEMMA NextThrottleInv ==
  ASSUME TypeOK, ThrottleInv, [Next]_vars
  PROVE  ThrottleInv'
<1> USE DEF machine, kernel, life, books
<1>1. ASSUME NEW p \in Pids, Spawn(p) PROVE ThrottleInv'
  <2>1. ForegroundSpared'
    BY <1>1 DEF Spawn, ThrottleInv, ForegroundSpared, BoostPending
  <2> QED
    BY <1>1, <2>1, QuietStep DEF Spawn, ThrottleInv, AutoIsAlive
<1>2. ASSUME NEW p \in Pids, Exit(p) PROVE ThrottleInv'
  <2>1. ForegroundSpared'
    BY <1>2 DEF Exit, ThrottleInv, ForegroundSpared, BoostPending
  <2> QED
    BY <1>2, <2>1, QuietStep DEF Exit, ThrottleInv, AutoIsAlive
<1>3. ASSUME NEW p \in Pids \cup {NoPid}, FocusMoves(p) PROVE ThrottleInv'
  <2>1. ForegroundSpared'
    BY <1>3 DEF FocusMoves, ThrottleInv, ForegroundSpared, BoostPending
  <2> QED
    BY <1>3, <2>1, QuietStep DEF FocusMoves, ThrottleInv, AutoIsAlive
<1>4. ASSUME NEW i \in Handlers, FocusSignal(i) PROVE ThrottleInv'
  <2>1. ForegroundSpared'
    BY <1>4 DEF FocusSignal, ThrottleInv, ForegroundSpared, BoostPending, TypeOK
  <2> QED
    BY <1>4, <2>1, QuietStep DEF FocusSignal, ThrottleInv, AutoIsAlive
<1>5. ASSUME NEW i \in Handlers, DeliverFocus(i) PROVE ThrottleInv'
  <2>1. ForegroundSpared'
    <3>1. CASE IsChange(tasks[i].pid)
      <4>1. PICK p \in Pids : p = tasks[i].pid
        BY <3>1 DEF IsChange, TypeOK
      <4>2. p \in alive => BoostPending(p)'
        BY <1>5, <3>1, <4>1 DEF DeliverFocus, AfterSwitch, BoostPending, TypeOK
      <4>3. run # "down" /\ alive' = alive
        BY <1>5 DEF DeliverFocus
      <4>4. SwitchForeground(p)
        BY <1>5, <3>1, <4>1 DEF DeliverFocus
      <4> QED
        BY <4>1, <4>2, <4>3, <4>4, SwitchSparesForeground
    <3>2. CASE ~IsChange(tasks[i].pid)
      <4>1. fg' = fg /\ auto' = auto
        BY <1>5, <3>2 DEF DeliverFocus
      <4>2. /\ run' = run /\ slow' = slow
            /\ \A j \in Handlers : tasks[j].stage = "boost" => tasks'[j] = tasks[j]
        BY <1>5 DEF DeliverFocus, TypeOK
      <4> QED
        BY <4>1, <4>2 DEF ThrottleInv, ForegroundSpared, BoostPending
    <3> QED
      BY <3>1, <3>2
  <2>2. auto' \subseteq auto /\ auto' \ unsaved' \subseteq auto \ unsaved
    BY <1>5 DEF DeliverFocus, SwitchForeground, RestoreAll
  <2> QED
    BY <1>5, <2>1, <2>2, QuietStep DEF DeliverFocus, ThrottleInv, AutoIsAlive
<1>6. ASSUME NEW i \in Handlers, NEW gameMode \in BOOLEAN, NEW paused \in BOOLEAN,
             ResumeBoost(i, gameMode, paused)
      PROVE  ThrottleInv'
  <2>1. auto' = auto \ {tasks[i].pid} /\ unsaved' = unsaved \ {tasks[i].pid}
    BY <1>6 DEF ResumeBoost, ExecuteBoost
  <2>2. ForegroundSpared'
    <3>1. fg # tasks[i].pid /\ BoostPending(fg) => BoostPending(fg)'
      BY <1>6 DEF ResumeBoost, BoostPending, TypeOK
    <3> QED
      BY <1>6, <2>1, <3>1, BoostSparesForeground DEF ResumeBoost
  <2>3. \A p \in auto : mem.entries[p].tracked => mem'.entries[p].tracked
    <3>1. CASE tasks[i].pid \in Pids
      BY <1>6, <3>1, TrackedStays DEF ResumeBoost, TypeOK
    <3>2. CASE tasks[i].pid = NoPid
      BY <1>6, <3>2, DaemonAssumption DEF ResumeBoost, ExecuteBoost, TypeOK, State
    <3> QED
      BY <3>1, <3>2 DEF TypeOK
  <2> QED
    BY <1>6, <2>1, <2>2, <2>3, QuietStep DEF ResumeBoost, ThrottleInv, AutoIsAlive
<1>7. ASSUME SlowPoll \/ SlowBlind \/ SlowScanFails PROVE ThrottleInv'
  <2>1. /\ slow'.stage # "classify"
        /\ slow.stage # "boost"
        /\ UNCHANGED <<machine, kernel, life, fg, stress, throttled, tasks, books>>
    <3>1. CASE SlowPoll
      BY <3>1 DEF SlowPoll, SlowIdle
    <3>2. CASE SlowBlind
      BY <3>2 DEF SlowBlind, SlowIdle
    <3>3. CASE SlowScanFails
      BY <3>3 DEF SlowScanFails, SlowIdle
    <3> QED
      BY <1>7, <3>1, <3>2, <3>3
  <2>2. ForegroundSpared'
    BY <2>1 DEF ThrottleInv, ForegroundSpared, BoostPending
  <2> QED
    BY <2>1, <2>2, QuietStep DEF ThrottleInv, AutoIsAlive
<1>8. ASSUME SlowDeliver PROVE ThrottleInv'
  <2>1. ForegroundSpared'
    <3>1. CASE IsChange(slow.pid)
      <4>1. PICK p \in Pids : p = slow.pid
        BY <3>1 DEF IsChange, TypeOK
      <4>2. p \in alive => BoostPending(p)'
        BY <1>8, <3>1, <4>1 DEF SlowDeliver, AfterSwitch, BoostPending, TypeOK
      <4>3. run # "down" /\ alive' = alive
        BY <1>8 DEF SlowDeliver
      <4>4. SwitchForeground(p)
        BY <1>8, <3>1, <4>1 DEF SlowDeliver
      <4> QED
        BY <4>1, <4>2, <4>3, <4>4, SwitchSparesForeground
    <3>2. CASE ~IsChange(slow.pid)
      <4>1. fg' = fg /\ auto' = auto
        BY <1>8, <3>2 DEF SlowDeliver
      <4>2. run' = run /\ slow.stage # "boost" /\ tasks' = tasks
        BY <1>8 DEF SlowDeliver
      <4> QED
        BY <4>1, <4>2 DEF ThrottleInv, ForegroundSpared, BoostPending
    <3> QED
      BY <3>1, <3>2
  <2>2. auto' \subseteq auto /\ auto' \ unsaved' \subseteq auto \ unsaved
    BY <1>8 DEF SlowDeliver, SwitchForeground, RestoreAll
  <2>3. slow'.stage # "classify"
    BY <1>8 DEF SlowDeliver, SlowAfterFocus, SlowIdle, TypeOK
  <2> QED
    BY <1>8, <2>1, <2>2, <2>3, QuietStep DEF SlowDeliver, ThrottleInv, AutoIsAlive
<1>9. ASSUME NEW gameMode \in BOOLEAN, NEW paused \in BOOLEAN,
             SlowBoost(gameMode, paused)
      PROVE  ThrottleInv'
  <2>1. auto' = auto \ {slow.pid} /\ unsaved' = unsaved \ {slow.pid}
    BY <1>9 DEF SlowBoost, ExecuteBoost
  <2>2. ForegroundSpared'
    <3>1. fg # slow.pid /\ BoostPending(fg) => BoostPending(fg)'
      BY <1>9 DEF SlowBoost, BoostPending
    <3> QED
      BY <1>9, <2>1, <3>1, BoostSparesForeground DEF SlowBoost
  <2>3. \A p \in auto : mem.entries[p].tracked => mem'.entries[p].tracked
    <3>1. CASE slow.pid \in Pids
      BY <1>9, <3>1, TrackedStays DEF SlowBoost, TypeOK
    <3>2. CASE slow.pid = NoPid
      BY <1>9, <3>2, DaemonAssumption DEF SlowBoost, ExecuteBoost, TypeOK, State
    <3> QED
      BY <3>1, <3>2 DEF TypeOK
  <2>4. slow'.stage # "classify"
    BY <1>9 DEF SlowBoost, SlowAfterFocus, SlowIdle
  <2> QED
    BY <1>9, <2>1, <2>2, <2>3, <2>4, QuietStep
       DEF SlowBoost, ThrottleInv, AutoIsAlive
<1>10. ASSUME SlowScan PROVE ThrottleInv'
  <2>1. alive \subseteq Listed(slow'.snap)
    <3>1. slow'.snap = {[pid |-> p, ppid |-> ppid[p]] : p \in alive}
      BY <1>10 DEF SlowScan
    <3>2. SUFFICES ASSUME NEW p \in alive
                   PROVE  \E r \in slow'.snap : r.pid = p
      BY DEF Listed
    <3>3. [pid |-> p, ppid |-> ppid[p]] \in slow'.snap
      BY <3>1
    <3> QED
      BY <3>3
  <2>2. SnapshotHasThrottled'
    BY <1>10, <2>1 DEF SlowScan, ThrottleInv, AutoIsAlive, SnapshotHasThrottled, Listed
  <2>3. ForegroundSpared'
    BY <1>10 DEF SlowScan, ThrottleInv, ForegroundSpared, BoostPending
  <2> QED
    BY <1>10, <2>2, <2>3
       DEF SlowScan, ThrottleInv, AutoIsAlive, ThrottledIsTracked,
           NothingThrottledAtNormal, ThrottledIsRecorded, ThrottleIsPersisted
<1>11. ASSUME SlowClassify PROVE ThrottleInv'
  BY <1>11, ClassifyKeepsInv
<1>12. ASSUME NEW lvl \in {"NORMAL", "STRESSED"}, FastTick(lvl) PROVE ThrottleInv'
  <2>1. CASE lvl = "NORMAL"
    <3>1. auto' = {}
      BY <1>12, <2>1
         DEF FastTick, ToRestore, RestoreAll, ThrottleInv, ThrottledIsTracked
    <3> QED
      BY <3>1 DEF ThrottleInv, AutoIsAlive, ThrottledIsTracked,
                  SnapshotHasThrottled, NothingThrottledAtNormal,
                  ThrottledIsRecorded, ThrottleIsPersisted, ForegroundSpared
  <2>2. CASE lvl = "STRESSED"
    <3>1. /\ auto' = auto /\ unsaved' = unsaved
          /\ throttled' = throttled /\ stress' = "STRESSED"
      BY <1>12, <2>2 DEF FastTick, ToRestore, RestoreAll
    <3> QED
      BY <1>12, <3>1
         DEF FastTick, ThrottleInv, AutoIsAlive, ThrottledIsTracked,
             SnapshotHasThrottled, NothingThrottledAtNormal, Listed,
             ThrottledIsRecorded, ThrottleIsPersisted, ForegroundSpared,
             BoostPending
  <2> QED
    BY <2>1, <2>2
<1>13. ASSUME NEW p \in Pids, NEW paused \in BOOLEAN, ManualBoost(p, paused)
       PROVE  ThrottleInv'
  <2>1. auto' = auto \ {p} /\ unsaved' = unsaved \ {p}
    BY <1>13 DEF ManualBoost, ExecuteBoost
  <2>2. ForegroundSpared'
    BY <1>13, <2>1 DEF ManualBoost, ThrottleInv, ForegroundSpared, BoostPending
  <2>3. \A q \in auto : mem.entries[q].tracked => mem'.entries[q].tracked
    BY <1>13, TrackedStays DEF ManualBoost, TypeOK
  <2> QED
    BY <1>13, <2>1, <2>2, <2>3, QuietStep DEF ManualBoost, ThrottleInv, AutoIsAlive
<1>14. ASSUME NEW p \in Pids, ManualThrottle(p) PROVE ThrottleInv'
  <2>1. ForegroundSpared'
    BY <1>14 DEF ManualThrottle, ThrottleInv, ForegroundSpared, BoostPending
  <2>2. \A q \in auto : mem.entries[q].tracked => mem'.entries[q].tracked
    BY <1>14, ThrottledAreTracked DEF ManualThrottle, TypeOK
  <2> QED
    BY <1>14, <2>1, <2>2, QuietStep DEF ManualThrottle, ThrottleInv, AutoIsAlive
<1>15. ASSUME NEW p \in Pids, ManualRestore(p) PROVE ThrottleInv'
  <2>1. auto' = auto \ {p} /\ unsaved' = unsaved \ {p}
    BY <1>15 DEF ManualRestore, RestoreAll
  <2>2. ForegroundSpared'
    BY <1>15, <2>1 DEF ManualRestore, ThrottleInv, ForegroundSpared, BoostPending
  <2> QED
    BY <1>15, <2>1, <2>2, QuietStep DEF ManualRestore, ThrottleInv, AutoIsAlive
<1>16. ASSUME Cleanup PROVE ThrottleInv'
  <2>1. auto' \subseteq auto /\ auto' \ unsaved' \subseteq auto \ unsaved
    BY <1>16 DEF Cleanup, RestoreAll
  <2>2. ForegroundSpared'
    BY <1>16, <2>1 DEF Cleanup, ThrottleInv, ForegroundSpared, BoostPending
  <2>3. CASE throttled # {}
    BY <1>16, <2>1, <2>2, <2>3, QuietStep DEF Cleanup, ThrottleInv, AutoIsAlive
  <2>4. CASE throttled = {}
    <3>1. auto' = {}
      BY <1>16, <2>1, <2>4 DEF Cleanup, ThrottleInv, ThrottledIsTracked
    <3> QED
      BY <3>1 DEF ThrottleInv, AutoIsAlive, ThrottledIsTracked,
                  SnapshotHasThrottled, NothingThrottledAtNormal,
                  ThrottledIsRecorded, ThrottleIsPersisted, ForegroundSpared
  <2> QED
    BY <2>3, <2>4
<1>17. ASSUME ProcessExit \/ Crash PROVE ThrottleInv'
  <2>1. run' = "down" /\ UNCHANGED <<alive, auto, unsaved, disk>>
    BY <1>17 DEF ProcessExit, Crash
  <2> QED
    BY <2>1 DEF ThrottleInv, AutoIsAlive, ThrottledIsTracked,
                SnapshotHasThrottled, NothingThrottledAtNormal,
                ThrottledIsRecorded, ThrottleIsPersisted, ForegroundSpared
<1>18. ASSUME KilledThrottling PROVE ThrottleInv'
  <2>1. /\ run' = "down" /\ UNCHANGED <<alive, disk>>
        /\ auto' \subseteq auto \cup alive
        /\ auto' \ unsaved' \subseteq auto \ unsaved
    BY <1>18 DEF KilledThrottling
  <2> QED
    BY <2>1 DEF ThrottleInv, AutoIsAlive, ThrottledIsTracked,
                SnapshotHasThrottled, NothingThrottledAtNormal,
                ThrottledIsRecorded, ThrottleIsPersisted, ForegroundSpared
<1>19. ASSUME Start PROVE ThrottleInv'
  <2>1. auto' = {}
    BY <1>19 DEF Start
  <2> QED
    BY <2>1 DEF ThrottleInv, AutoIsAlive, ThrottledIsTracked,
                SnapshotHasThrottled, NothingThrottledAtNormal,
                ThrottledIsRecorded, ThrottleIsPersisted, ForegroundSpared
<1>20. CASE UNCHANGED vars
  BY <1>20 DEF vars, ThrottleInv, AutoIsAlive, ThrottledIsTracked,
               SnapshotHasThrottled, NothingThrottledAtNormal, Listed,
               ThrottledIsRecorded, ThrottleIsPersisted, ForegroundSpared,
               BoostPending
<1> QED
  BY <1>1, <1>2, <1>3, <1>4, <1>5, <1>6, <1>7, <1>8, <1>9, <1>10, <1>11, <1>12,
     <1>13, <1>14, <1>15, <1>16, <1>17, <1>18, <1>19, <1>20
     DEF Next, Environment, Handler, SlowStep, Manual

(* ------------------------------ theorems ------------------------------ *)

\* The inductive invariant holds of every daemon, whatever the interleaving of
\* its handlers, ticks and commands with births, deaths and crashes.
THEOREM ThrottleInvariant == Spec => [](TypeOK /\ ThrottleInv)
<1>1. Init => TypeOK /\ ThrottleInv
  BY InitType, InitThrottleInv
<1>2. TypeOK /\ ThrottleInv /\ [Next]_vars => (TypeOK /\ ThrottleInv)'
  BY NextType, NextThrottleInv
<1> QED
  BY <1>1, <1>2, PTL DEF Spec

\* What the slow tick throttled is in scheduler.autoRestore as long as the
\* daemon lives.
THEOREM ThrottledTracked == Spec => []ThrottledIsTracked
<1>1. ThrottleInv => ThrottledIsTracked
  BY DEF ThrottleInv
<1> QED
  BY <1>1, ThrottleInvariant, PTL

\* The end of the stress ends every throttle of the slow tick.
THEOREM NormalRestored == Spec => []NormalLeavesNothingThrottled
<1>1. ThrottleInv => NormalLeavesNothingThrottled
  BY DEF ThrottleInv, NothingThrottledAtNormal, NormalLeavesNothingThrottled
<1> QED
  BY <1>1, ThrottleInvariant, PTL

\* The slow tick leaves no foreground throttled.
THEOREM ForegroundSafe == Spec => []ForegroundNotThrottled
<1>1. ThrottleInv => ForegroundNotThrottled
  BY DEF ThrottleInv, ForegroundSpared, ForegroundNotThrottled
<1> QED
  BY <1>1, ThrottleInvariant, PTL

\* A crash finds in the state file every throttle of the slow tick that was made
\* before the last write that succeeded.
THEOREM ThrottlePersisted == Spec => []ThrottleIsPersisted
<1>1. ThrottleInv => ThrottleIsPersisted
  BY DEF ThrottleInv
<1> QED
  BY <1>1, ThrottleInvariant, PTL

\* The next daemon frees what a crashed one throttled before it last wrote the
\* file: the process is alive, the file names it, and its start time agrees.
THEOREM RecoveryComplete == Spec => RecoveryFreesThrottled
<1>1. TypeOK /\ ThrottleInv /\ [Next]_vars =>
        [Start => \A p \in auto \ unsaved :
           SameProcess(disk.state.entries[p], inc[p]) => os'[p].place = "base"]_vars
  <2> SUFFICES ASSUME TypeOK, ThrottleInv, Start, NEW p \in auto \ unsaved,
                      SameProcess(disk.state.entries[p], inc[p])
               PROVE  os'[p].place = "base"
    OBVIOUS
  <2>1. p \in Pids /\ p \in alive
    BY DEF TypeOK, ThrottleInv, AutoIsAlive
  <2>2. disk.present /\ disk.state.entries[p].tracked
    BY DEF ThrottleInv, ThrottleIsPersisted
  <2>3. p \in Recoverable(disk.state)
    BY <2>1, <2>2 DEF Recoverable
  <2>4. os'[p] = Recovered(os[p], disk.state.entries[p])
    BY <2>1, <2>2, <2>3 DEF Start
  <2> QED
    BY <2>4 DEF Recovered
<1> QED
  BY <1>1, ThrottleInvariant, PTL DEF Spec, RecoveryFreesThrottled

(* ------------------------------- boosts ------------------------------- *)

\* The focus is only polled, no process of those in play forks another, and no
\* one boosts by hand.  (A handler in flight boosts the process it started with,
\* a child inherits its parent's attributes, a command boosts what it is told.)
OnlyTicksBoost ==
  /\ Handlers = {}
  /\ \A p \in Pids : Parent[p] = NoPid /\ <<"boost", p>> \notin Commands

\* A slow tick that awaits boosts the process it has made the foreground.
TickBoostsForeground == slow.stage = "boost" => slow.pid = fg

\* A process with the placement of a boost is the foreground, and one with its OOM
\* protection is the foreground and has an entry in the modification log, so that
\* restoring it ends the protection.
BoostedIsForeground ==
  \A p \in Pids :
    /\ os[p].place = "fg" => p = fg
    /\ os[p].oom = "protected" => p = fg /\ p \in oomLogged

BoostInv ==
  /\ daemons = 0 => run = "down" /\ \A p \in Pids : os[p] = Neutral
  /\ run = "down" => slow.stage # "boost"
  /\ run = "up" /\ daemons = 1 => TickBoostsForeground /\ BoostedIsForeground

LEMMA InitBoostInv == Init => BoostInv
BY DEF Init, BoostInv, SlowIdle

\* restoreProcess on the foreground, and maybe others, ends every boost.
LEMMA RestoreEndsBoost ==
  ASSUME TypeOK, BoostedIsForeground, NEW ps, RestoreAll(ps), NEW p \in Pids
  PROVE  /\ os'[p].place = "fg" => p = fg
         /\ os'[p].oom = "protected" => p = fg /\ p \in oomLogged
         /\ p \in ps \cap alive => os'[p].place # "fg" /\ os'[p].oom # "protected"
<1>1. os'[p] = IF p \in ps \cap alive THEN Restored(os[p], p \in oomLogged) ELSE os[p]
  BY DEF RestoreAll
<1>2. CASE p \in ps \cap alive
  <2>1. /\ os'[p].place = "base"
        /\ os'[p].oom = IF p \in oomLogged THEN "zero" ELSE os[p].oom
    BY <1>1, <1>2 DEF Restored, Neutral
  <2> QED
    BY <1>2, <2>1 DEF BoostedIsForeground
<1>3. CASE p \notin ps \cap alive
  BY <1>1, <1>3 DEF BoostedIsForeground
<1> QED
  BY <1>2, <1>3

\* The dead keep no attributes.
DeadAreNeutral == \A p \in Pids \ alive : os[p] = Neutral

LEMMA NextDeadAreNeutral ==
  ASSUME TypeOK, DeadAreNeutral, [Next]_vars
  PROVE  DeadAreNeutral'
<1> USE DEF machine, kernel, life, books
<1>1. ASSUME NEW p \in Pids, Spawn(p) PROVE DeadAreNeutral'
  BY <1>1 DEF Spawn, DeadAreNeutral, TypeOK
<1>2. ASSUME NEW p \in Pids, Exit(p) PROVE DeadAreNeutral'
  BY <1>2 DEF Exit, DeadAreNeutral, TypeOK
<1>3. ASSUME alive' = alive, \A p \in Pids \ alive : os'[p] = os[p]
      PROVE  DeadAreNeutral'
  BY <1>3 DEF DeadAreNeutral
<1>4. ASSUME NEW ps, RestoreAll(ps), alive' = alive PROVE DeadAreNeutral'
  BY <1>3, <1>4 DEF RestoreAll
<1>5. ASSUME NEW ps, ExecuteThrottle(ps), alive' = alive PROVE DeadAreNeutral'
  BY <1>3, <1>5 DEF ExecuteThrottle
<1>6. ASSUME NEW p, NEW gameMode, NEW paused, ExecuteBoost(p, gameMode, paused),
             alive' = alive
      PROVE  DeadAreNeutral'
  BY <1>3, <1>6 DEF ExecuteBoost, TypeOK
<1>7. ASSUME NEW i \in Handlers, FocusSignal(i) \/ Handler(i) PROVE DeadAreNeutral'
  BY <1>3, <1>4, <1>6, <1>7
     DEF FocusSignal, Handler, DeliverFocus, SwitchForeground, ResumeBoost
<1>8. ASSUME SlowPoll \/ SlowBlind \/ SlowScan \/ SlowScanFails PROVE DeadAreNeutral'
  BY <1>3, <1>8 DEF SlowPoll, SlowBlind, SlowScan, SlowScanFails
<1>9. ASSUME SlowDeliver PROVE DeadAreNeutral'
  BY <1>3, <1>4, <1>9 DEF SlowDeliver, SwitchForeground
<1>10. ASSUME NEW gameMode, NEW paused, SlowBoost(gameMode, paused)
       PROVE  DeadAreNeutral'
  BY <1>6, <1>10 DEF SlowBoost
<1>11. ASSUME SlowClassify PROVE DeadAreNeutral'
  BY <1>5, <1>11 DEF SlowClassify
<1>12. ASSUME NEW lvl, FastTick(lvl) PROVE DeadAreNeutral'
  BY <1>4, <1>12 DEF FastTick
<1>13. ASSUME Manual PROVE DeadAreNeutral'
  BY <1>4, <1>5, <1>6, <1>13 DEF Manual, ManualBoost, ManualThrottle, ManualRestore
<1>14. ASSUME Cleanup PROVE DeadAreNeutral'
  BY <1>4, <1>14 DEF Cleanup
<1>15. ASSUME ProcessExit \/ Crash PROVE DeadAreNeutral'
  BY <1>3, <1>15 DEF ProcessExit, Crash
<1>16. ASSUME KilledThrottling PROVE DeadAreNeutral'
  BY <1>3, <1>16 DEF KilledThrottling
<1>17. ASSUME Start PROVE DeadAreNeutral'
  BY <1>3, <1>17 DEF Start, Recoverable
<1>18. CASE UNCHANGED vars
  BY <1>3, <1>18 DEF vars
<1>19. ASSUME NEW p, FocusMoves(p) PROVE DeadAreNeutral'
  BY <1>3, <1>19 DEF FocusMoves
<1> QED
  BY <1>1, <1>2, <1>7, <1>8, <1>9, <1>10, <1>11, <1>12, <1>13, <1>14, <1>15, <1>16, <1>17,
     <1>18, <1>19
     DEF Next, Environment, SlowStep

\* A step that boosts nobody, keeps the foreground and starts no boost.
LEMMA NobodyBoosted ==
  ASSUME BoostInv, run' = "up" => run = "up", run = "down" => run' = "down",
         run' = "down" => run = "down",
         daemons' = daemons, fg' = fg, oomLogged' = oomLogged,
         slow' = slow \/ slow'.stage # "boost",
         daemons = 0 => \A p \in Pids : os'[p] = os[p],
         \A p \in Pids : /\ os'[p].place # os[p].place => os'[p].place # "fg"
                         /\ os'[p].oom # os[p].oom => os'[p].oom # "protected"
  PROVE  BoostInv'
<1>1. daemons' = 0 => run' = "down" /\ \A p \in Pids : os'[p] = Neutral
  BY DEF BoostInv
<1>2. SUFFICES ASSUME run' = "up", daemons' = 1
               PROVE  TickBoostsForeground' /\ BoostedIsForeground'
  BY <1>1 DEF BoostInv
<1>3. TickBoostsForeground /\ BoostedIsForeground
  BY <1>2 DEF BoostInv
<1> QED
  BY <1>3 DEF TickBoostsForeground, BoostedIsForeground

\* Every step keeps the invariant: a boost finds its process the foreground, and
\* a process is restored when it ceases to be that.
LEMMA NextBoostInv ==
  ASSUME OnlyTicksBoost, TypeOK, DeadAreNeutral, BoostInv, [Next]_vars
  PROVE  BoostInv'
<1> USE DEF machine, kernel, life, books
<1>1. ASSUME NEW p \in Pids, Spawn(p) PROVE BoostInv'
  <2>1. Parent[p] \notin alive
    BY DaemonAssumption DEF OnlyTicksBoost, TypeOK
  <2>2. os' = [os EXCEPT ![p] = Neutral] /\ os[p] = Neutral
    BY <1>1, <2>1 DEF Spawn, DeadAreNeutral
  <2>3. os' = os
    BY <2>2 DEF TypeOK
  <2> QED
    BY <1>1, <2>3, NobodyBoosted DEF Spawn
<1>2. ASSUME NEW p \in Pids, Exit(p) PROVE BoostInv'
  <2>1. \A q \in Pids : os'[q] = IF q = p THEN Neutral ELSE os[q]
    BY <1>2 DEF Exit, TypeOK
  <2>2. daemons = 0 => \A q \in Pids : os'[q] = os[q]
    BY <2>1 DEF BoostInv
  <2>3. Neutral.place # "fg" /\ Neutral.oom # "protected"
    BY DEF Neutral
  <2> QED
    BY <1>2, <2>1, <2>2, <2>3, NobodyBoosted DEF Exit
<1>3. ASSUME NEW p, FocusMoves(p) PROVE BoostInv'
  BY <1>3, NobodyBoosted DEF FocusMoves
<1>4. ASSUME SlowPoll \/ SlowBlind \/ SlowScan \/ SlowScanFails PROVE BoostInv'
  <2>1. slow'.stage # "boost"
    <3>1. SlowPoll \/ SlowBlind => slow'.stage = "read"
      BY DEF SlowPoll, SlowBlind, SlowIdle
    <3>2. SlowScan => slow'.stage = "classify"
      BY DEF SlowScan
    <3>3. SlowScanFails => slow'.stage = "idle"
      BY DEF SlowScanFails, SlowIdle
    <3> QED
      BY <1>4, <3>1, <3>2, <3>3
  <2> QED
    BY <1>4, <2>1, NobodyBoosted DEF SlowPoll, SlowBlind, SlowScan, SlowScanFails
<1>5. ASSUME NEW ps, RestoreAll(ps), run # "down", run' = "up" => run = "up",
             run' # "down",
             daemons' = daemons, fg' = fg, oomLogged' = oomLogged, slow' = slow
      PROVE  BoostInv'
  <2>1. \A p \in Pids : /\ os'[p].place # os[p].place => os'[p].place # "fg"
                        /\ os'[p].oom # os[p].oom => os'[p].oom # "protected"
    BY <1>5 DEF RestoreAll, Restored, Neutral
  <2> QED
    BY <1>5, <2>1, NobodyBoosted DEF BoostInv
<1>6. ASSUME NEW ps, ExecuteThrottle(ps), run # "down", run' = run,
             daemons' = daemons, fg' = fg, oomLogged' = oomLogged,
             slow' = slow \/ slow'.stage # "boost"
      PROVE  BoostInv'
  <2>1. \A p \in Pids : /\ os'[p].place # os[p].place => os'[p].place # "fg"
                        /\ os'[p].oom # os[p].oom => os'[p].oom # "protected"
    <3>1. \A p \in Pids : Throttled(os[p]).place = "bg" /\ Throttled(os[p]).oom = os[p].oom
      BY DEF TypeOK, Throttled, Attributes
    <3> QED
      BY <1>6, <3>1 DEF ExecuteThrottle
  <2> QED
    BY <1>6, <2>1, NobodyBoosted DEF BoostInv
<1>7. ASSUME SlowDeliver PROVE BoostInv'
  <2>1. run # "down" /\ run' = run /\ daemons' = daemons /\ oomLogged' = oomLogged
    BY <1>7 DEF SlowDeliver
  <2>2. SUFFICES ASSUME run' = "up", daemons' = 1
                 PROVE  TickBoostsForeground' /\ BoostedIsForeground'
    BY <2>1 DEF BoostInv
  <2>3. TickBoostsForeground /\ BoostedIsForeground
    BY <2>1, <2>2 DEF BoostInv
  <2>4. SlowAfterFocus.stage # "boost"
    BY DEF SlowAfterFocus, SlowIdle
  <2>5. CASE IsChange(slow.pid)
    <3>1. /\ fg' = slow.pid /\ RestoreAll({fg} \ {NoPid})
          /\ slow' = [slow EXCEPT !.stage = "boost"] \/ slow' = SlowAfterFocus
      BY <1>7, <2>5 DEF SlowDeliver, SwitchForeground
    <3>2. TickBoostsForeground'
      BY <2>4, <3>1 DEF TickBoostsForeground, TypeOK
    <3>3. ASSUME NEW p \in Pids
          PROVE  os'[p].place # "fg" /\ os'[p].oom # "protected"
      <4>1. CASE p \in ({fg} \ {NoPid}) \cap alive
        BY <2>3, <3>1, <4>1, RestoreEndsBoost
      <4>2. CASE p \notin ({fg} \ {NoPid}) \cap alive
        <5>1. os'[p] = os[p]
          BY <3>1, <4>2 DEF RestoreAll
        <5>2. p # fg \/ os[p] = Neutral
          BY <4>2, DaemonAssumption DEF DeadAreNeutral
        <5> QED
          BY <2>3, <5>1, <5>2 DEF BoostedIsForeground, Neutral
      <4> QED
        BY <4>1, <4>2
    <3> QED
      BY <3>2, <3>3 DEF BoostedIsForeground
  <2>6. CASE ~IsChange(slow.pid)
    <3>1. fg' = fg /\ os' = os /\ slow' = SlowAfterFocus
      BY <1>7, <2>6 DEF SlowDeliver
    <3> QED
      BY <2>1, <2>3, <2>4, <3>1 DEF TickBoostsForeground, BoostedIsForeground
  <2> QED
    BY <2>5, <2>6
<1>8. ASSUME NEW gameMode \in BOOLEAN, NEW paused \in BOOLEAN,
             SlowBoost(gameMode, paused)
      PROVE  BoostInv'
  <2>1. /\ run # "down" /\ run' = run /\ daemons' = daemons /\ fg' = fg
        /\ slow.stage = "boost" /\ slow' = SlowAfterFocus
        /\ ExecuteBoost(slow.pid, gameMode, paused)
    BY <1>8 DEF SlowBoost
  <2>2. SUFFICES ASSUME run' = "up", daemons' = 1
                 PROVE  TickBoostsForeground' /\ BoostedIsForeground'
    BY <2>1 DEF BoostInv
  <2>3. BoostedIsForeground /\ slow.pid = fg
    BY <2>1, <2>2 DEF BoostInv, TickBoostsForeground
  <2>4. TickBoostsForeground'
    BY <2>1 DEF TickBoostsForeground, SlowAfterFocus, SlowIdle
  <2>5. ASSUME NEW p \in Pids
        PROVE  /\ os'[p].place = "fg" => p = fg
               /\ os'[p].oom = "protected" => p = fg /\ p \in oomLogged'
    <3>1. CASE p = fg /\ fg \in alive
      <4>1. os'[p] = Boosted(os[p], gameMode)
        BY <2>1, <2>3, <3>1 DEF ExecuteBoost, TypeOK
      <4>2. OomProtection => p \in oomLogged'
        BY <2>1, <2>3, <3>1 DEF ExecuteBoost
      <4>3. ~OomProtection => os'[p].oom = os[p].oom /\ oomLogged' = oomLogged
        BY <2>1, <4>1 DEF ExecuteBoost, Boosted
      <4> QED
        BY <2>3, <3>1, <4>2, <4>3, OomAssumption DEF BoostedIsForeground
    <3>2. CASE ~(p = fg /\ fg \in alive)
      <4>1. os'[p] = os[p]
        BY <2>1, <2>3, <3>2 DEF ExecuteBoost, TypeOK
      <4>2. oomLogged \subseteq oomLogged'
        BY <2>1 DEF ExecuteBoost
      <4> QED
        BY <2>3, <4>1, <4>2 DEF BoostedIsForeground
    <3> QED
      BY <3>1, <3>2
  <2> QED
    BY <2>1, <2>4, <2>5 DEF BoostedIsForeground
<1>9. ASSUME SlowClassify PROVE BoostInv'
  <2>1. PICK heavy \in SUBSET Candidates(slow.snap) : ExecuteThrottle(heavy)
    BY <1>9 DEF SlowClassify
  <2>2. slow'.stage # "boost"
    BY <1>9 DEF SlowClassify, SlowIdle
  <2> QED
    BY <1>6, <1>9, <2>1, <2>2 DEF SlowClassify
<1>10. ASSUME NEW lvl, FastTick(lvl) PROVE BoostInv'
  BY <1>5, <1>10 DEF FastTick
<1>11. ASSUME NEW p \in Pids, NEW paused, ManualBoost(p, paused) PROVE BoostInv'
  BY <1>11 DEF ManualBoost, Command, OnlyTicksBoost
<1>12. ASSUME NEW p \in Pids, ManualThrottle(p) PROVE BoostInv'
  BY <1>6, <1>12 DEF ManualThrottle, Command
<1>13. ASSUME NEW p \in Pids, ManualRestore(p) PROVE BoostInv'
  BY <1>5, <1>13 DEF ManualRestore, Command
<1>14. ASSUME Cleanup PROVE BoostInv'
  <2>1. run' \in {"failed", "stopping"}
    BY <1>14 DEF Cleanup
  <2> QED
    BY <1>5, <1>14, <2>1 DEF Cleanup
<1>15. ASSUME ProcessExit \/ Crash PROVE BoostInv'
  BY <1>15 DEF ProcessExit, Crash, Forgotten, SlowIdle, BoostInv
<1>16. ASSUME KilledThrottling PROVE BoostInv'
  BY <1>16 DEF KilledThrottling, Forgotten, SlowIdle, BoostInv
<1>17. ASSUME Start PROVE BoostInv'
  <2>1. run = "down" /\ run' = "up" /\ daemons' = daemons + 1 /\ daemons \in Nat
    BY <1>17 DEF Start, TypeOK
  <2>2. SUFFICES ASSUME daemons' = 1
                 PROVE  TickBoostsForeground' /\ BoostedIsForeground'
    BY <2>1 DEF BoostInv
  <2>3. slow' = slow /\ slow.stage # "boost" /\ \A p \in Pids : os[p] = Neutral
    BY <1>17, <2>1, <2>2 DEF Start, BoostInv
  <2>4. ASSUME NEW p \in Pids
        PROVE  os'[p].place # "fg" /\ os'[p].oom # "protected"
    <3>1. os'[p] \in {os[p], Recovered(os[p], disk.state.entries[p])}
      BY <1>17, <2>3 DEF Start, TypeOK
    <3> QED
      BY <2>3, <3>1 DEF Recovered, Neutral
  <2> QED
    BY <2>3, <2>4 DEF TickBoostsForeground, BoostedIsForeground
<1>18. CASE UNCHANGED vars
  BY <1>18, NobodyBoosted DEF vars
<1> QED
  BY <1>1, <1>2, <1>3, <1>4, <1>7, <1>8, <1>9, <1>10, <1>11, <1>12, <1>13, <1>14,
     <1>15, <1>16, <1>17, <1>18
     DEF Next, Environment, SlowStep, Manual, OnlyTicksBoost

\* Where only ticks boost, what a boost gives to a process, its placement and its
\* OOM protection, is the foreground's alone, whatever died and was born under the
\* same pid, and whatever was throttled or restored by hand.
THEOREM BoostsStayWithForeground ==
  ASSUME OnlyTicksBoost
  PROVE  Spec => []OnlyForegroundBoosted
<1> DEFINE BInv == TypeOK /\ DeadAreNeutral /\ BoostInv
<1>1. Init => BInv
  <2>1. Init => DeadAreNeutral
    BY DEF Init, DeadAreNeutral
  <2> QED
    BY <2>1, InitType, InitBoostInv
<1>2. BInv /\ [Next]_vars => BInv'
  BY NextType, NextDeadAreNeutral, NextBoostInv
<1>3. BInv => OnlyForegroundBoosted
  BY DEF BoostInv, BoostedIsForeground, OnlyForegroundBoosted, TypeOK
<1> QED
  BY <1>1, <1>2, <1>3, PTL DEF Spec

(* ---------------------------- strangers ------------------------------- *)

Known(entry, p) ==
  /\ entry.start <= inc[p]
  /\ p \in alive /\ entry.start = inc[p] /\ entry.start # NoStart => p \in touched

StrangersInv ==
  \A p \in Pids : Known(mem.entries[p], p) /\ Known(disk.state.entries[p], p)

\* A record without entries knows nobody.
LEMMA EmptyIsKnown ==
  ASSUME TypeOK, NEW g, NEW p \in Pids
  PROVE  Known(EmptyState(g).entries[p], p)
BY DEF TypeOK, Known, EmptyState, NoEntry, NoStart

\* Where the record and the file stay as they are, so does the invariant.
LEMMA SameBooks ==
  ASSUME TypeOK, StrangersInv,
         mem' = mem \/ \E g : mem' = EmptyState(g),
         disk' = disk \/ disk' = NoFile,
         inc' = inc, alive' = alive, touched \subseteq touched'
  PROVE  StrangersInv'
<1> SUFFICES ASSUME NEW p \in Pids
             PROVE  Known(mem.entries[p], p)' /\ Known(disk.state.entries[p], p)'
  BY DEF StrangersInv
<1>1. Known(mem'.entries[p], p)
  BY EmptyIsKnown DEF StrangersInv
<1>2. Known(disk'.state.entries[p], p)
  <2>1. CASE disk' = disk
    BY <2>1 DEF StrangersInv
  <2>2. CASE disk' = NoFile
    <3>1. disk'.state = EmptyState("none")
      BY <2>2 DEF NoFile
    <3> QED
      BY <3>1, EmptyIsKnown
  <2> QED
    BY <2>1, <2>2
<1> QED
  BY <1>1, <1>2 DEF Known

\* An entry made or kept by a boost or a throttle of p is known once p is marked
\* as changed.
LEMMA TrackedIsKnown ==
  ASSUME TypeOK, NEW p \in Pids, NEW entry \in Entries, Known(entry, p),
         NEW gameMode \in BOOLEAN
  PROVE  LET b == TrackBoost(entry, StartTime(p), gameMode)
             t == TrackThrottle(entry, StartTime(p))
         IN  /\ b.start \in {entry.start, StartTime(p)} /\ b.start <= inc[p]
             /\ t.start \in {entry.start, StartTime(p)} /\ t.start <= inc[p]
<1>1. inc[p] \in Nat /\ StartTime(p) \in {NoStart, inc[p]}
  BY MaxStartAssumption DEF TypeOK, StartTime
<1>2. entry.start <= inc[p] /\ NoStart <= inc[p]
  BY <1>1 DEF Known, NoStart
<1>3. Track(entry, StartTime(p)).start \in {entry.start, StartTime(p)}
  BY DEF Track, Entries
<1>4. Track(entry, StartTime(p)) \in Entries
  BY StartTimeType DEF Track, Entries
<1>5. TrackThrottle(entry, StartTime(p)).start = Track(entry, StartTime(p)).start
  BY <1>4 DEF TrackThrottle, Entries
<1>6. TrackBoost(entry, StartTime(p), gameMode).start
        = Track(entry, StartTime(p)).start
  BY <1>4 DEF TrackBoost, Entries
<1> QED
  BY <1>1, <1>2, <1>3, <1>5, <1>6

\* A boost, of a live process or a dead one.
LEMMA BoostKeepsKnown ==
  ASSUME TypeOK, StrangersInv, inc' = inc, alive' = alive, disk' = disk,
         NEW p \in Pids \cup {NoPid}, NEW gameMode \in BOOLEAN,
         NEW paused \in BOOLEAN, ExecuteBoost(p, gameMode, paused)
  PROVE  StrangersInv'
<1>1. mem.entries \in [Pids -> Entries]
  BY DEF TypeOK, State
<1>2. touched' = touched \cup ({p} \cap alive)
  BY DEF ExecuteBoost
<1> SUFFICES ASSUME NEW q \in Pids
             PROVE  Known(mem.entries[q], q)' /\ Known(disk.state.entries[q], q)'
  BY DEF StrangersInv
<1>3. Known(disk.state.entries[q], q)'
  BY <1>2 DEF StrangersInv, Known
<1>4. CASE q # p
  <2>1. mem'.entries[q] = mem.entries[q]
    BY <1>1, <1>4 DEF ExecuteBoost
  <2> QED
    BY <1>2, <1>3, <2>1 DEF StrangersInv, Known
<1>5. CASE q = p
  <2> DEFINE e == TrackBoost(mem.entries[q], StartTime(q), gameMode)
  <2>1. mem'.entries[q] = e
    BY <1>1, <1>5 DEF ExecuteBoost
  <2>2. e.start <= inc[q]
    BY <1>1, TrackedIsKnown DEF StrangersInv
  <2>3. q \in alive => q \in touched'
    BY <1>2, <1>5
  <2> HIDE DEF e
  <2>4. Known(mem.entries[q], q)'
    BY <2>1, <2>2, <2>3 DEF Known
  <2> QED
    BY <1>3, <2>4
<1> QED
  BY <1>4, <1>5

\* Throttles, of live processes or dead ones; the record may be persisted.
LEMMA ThrottleKeepsKnown ==
  ASSUME TypeOK, StrangersInv, inc' = inc, alive' = alive,
         disk' = disk \/ disk' = [present |-> TRUE, state |-> mem'],
         NEW ps \in SUBSET Pids, ExecuteThrottle(ps)
  PROVE  StrangersInv'
<1>1. mem \in State /\ mem.entries \in [Pids -> Entries]
  BY DEF TypeOK, State
<1>2. touched' = touched \cup (ps \cap alive)
  BY DEF ExecuteThrottle
<1>3. mem'.entries = [q \in Pids |->
                        IF q \in ps
                        THEN TrackThrottle(mem.entries[q], StartTime(q))
                        ELSE mem.entries[q]]
  BY <1>1 DEF ExecuteThrottle, State
<1> SUFFICES ASSUME NEW q \in Pids
             PROVE  Known(mem.entries[q], q)' /\ Known(disk.state.entries[q], q)'
  BY DEF StrangersInv
<1>4. Known(mem.entries[q], q)'
  <2>1. CASE q \notin ps
    <3>1. mem'.entries[q] = mem.entries[q]
      BY <1>3, <2>1
    <3> QED
      BY <1>2, <3>1 DEF StrangersInv, Known
  <2>2. CASE q \in ps
    <3> DEFINE e == TrackThrottle(mem.entries[q], StartTime(q))
    <3>1. mem'.entries[q] = e
      BY <1>3, <2>2
    <3>2. e.start <= inc[q]
      BY <1>1, TrackedIsKnown DEF StrangersInv
    <3>3. q \in alive => q \in touched'
      BY <1>2, <2>2
    <3> HIDE DEF e
    <3> QED
      BY <3>1, <3>2, <3>3 DEF Known
  <2> QED
    BY <2>1, <2>2
<1>5. Known(disk.state.entries[q], q)'
  <2>1. CASE disk' = disk
    BY <1>2, <2>1 DEF StrangersInv, Known
  <2>2. CASE disk' = [present |-> TRUE, state |-> mem']
    BY <1>4, <2>2 DEF Known
  <2> QED
    BY <2>1, <2>2
<1> QED
  BY <1>4, <1>5

\* No daemon has written anything at first.
LEMMA InitStrangersInv == Init => StrangersInv
<1> SUFFICES ASSUME Init, NEW p \in Pids
             PROVE  Known(EmptyState("none").entries[p], p)
  BY DEF Init, NoFile, StrangersInv
<1>1. TypeOK
  BY InitType
<1> QED
  BY <1>1, EmptyIsKnown

\* Every step keeps the records known; only births, deaths, boosts and throttles
\* have something to show.
LEMMA NextStrangersInv ==
  ASSUME TypeOK, StrangersInv, [Next]_vars
  PROVE  StrangersInv'
<1> USE DEF machine, kernel, life, books
<1>1. ASSUME NEW p \in Pids, Spawn(p) PROVE StrangersInv'
  <2> SUFFICES ASSUME NEW q \in Pids
               PROVE  Known(mem.entries[q], q)' /\ Known(disk.state.entries[q], q)'
    BY DEF StrangersInv
  <2>1. mem' = mem /\ disk' = disk /\ touched' = touched
    BY <1>1 DEF Spawn
  <2>2. mem.entries[q].start \in Nat /\ disk.state.entries[q].start \in Nat
        /\ inc[q] \in Nat
    BY MaxStartAssumption DEF TypeOK, State, Entries
  <2>3. CASE q = p
    <3>1. inc'[q] = inc[q] + 1
      BY <1>1, <2>3 DEF Spawn, TypeOK
    <3> QED
      BY <2>1, <2>2, <3>1 DEF StrangersInv, Known
  <2>4. CASE q # p
    <3>1. inc'[q] = inc[q] /\ (q \in alive' => q \in alive)
      BY <1>1, <2>4 DEF Spawn, TypeOK
    <3> QED
      BY <2>1, <3>1 DEF StrangersInv, Known
  <2> QED
    BY <2>3, <2>4
<1>2. ASSUME NEW p \in Pids, Exit(p) PROVE StrangersInv'
  BY <1>2 DEF Exit, StrangersInv, Known
<1>3. ASSUME NEW p \in Pids \cup {NoPid}, FocusMoves(p) PROVE StrangersInv'
  BY <1>3, SameBooks DEF FocusMoves
<1>4. ASSUME NEW i \in Handlers, FocusSignal(i) PROVE StrangersInv'
  BY <1>4, SameBooks DEF FocusSignal
<1>5. ASSUME NEW i \in Handlers, DeliverFocus(i) PROVE StrangersInv'
  BY <1>5, SameBooks DEF DeliverFocus
<1>6. ASSUME NEW i \in Handlers, NEW gameMode \in BOOLEAN, NEW paused \in BOOLEAN,
             ResumeBoost(i, gameMode, paused)
      PROVE  StrangersInv'
  <2>1. PICK p \in Pids \cup {NoPid} : p = tasks[i].pid
    BY DEF TypeOK
  <2> QED
    BY <1>6, <2>1, BoostKeepsKnown DEF ResumeBoost
<1>7. ASSUME \/ SlowPoll \/ SlowBlind \/ SlowDeliver \/ SlowScan \/ SlowScanFails
      PROVE  StrangersInv'
  <2>1. UNCHANGED <<inc, alive, touched, mem, disk>>
    BY <1>7 DEF SlowPoll, SlowBlind, SlowDeliver, SlowScan, SlowScanFails
  <2> QED
    BY <2>1, SameBooks
<1>8. ASSUME NEW gameMode \in BOOLEAN, NEW paused \in BOOLEAN,
             SlowBoost(gameMode, paused)
      PROVE  StrangersInv'
  <2>1. PICK p \in Pids \cup {NoPid} : p = slow.pid
    BY DEF TypeOK
  <2> QED
    BY <1>8, <2>1, BoostKeepsKnown DEF SlowBoost
<1>9. ASSUME SlowClassify PROVE StrangersInv'
  <2>1. PICK heavy \in SUBSET Candidates(slow.snap) :
          ExecuteThrottle(heavy) /\ disk' \in {Persisted(throttled', mem'), disk}
    BY <1>9 DEF SlowClassify
  <2>2. heavy \subseteq Pids
    BY DEF Candidates, Listed, Listing, TypeOK
  <2>3. inc' = inc /\ alive' = alive
    BY <1>9 DEF SlowClassify
  <2> QED
    BY <2>1, <2>2, <2>3, ThrottleKeepsKnown DEF Persisted
<1>10. ASSUME NEW lvl \in {"NORMAL", "STRESSED"}, FastTick(lvl) PROVE StrangersInv'
  BY <1>10, SameBooks DEF FastTick
<1>11. ASSUME NEW p \in Pids, NEW paused \in BOOLEAN, ManualBoost(p, paused)
       PROVE  StrangersInv'
  BY <1>11, BoostKeepsKnown DEF ManualBoost
<1>12. ASSUME NEW p \in Pids, ManualThrottle(p) PROVE StrangersInv'
  BY <1>12, ThrottleKeepsKnown DEF ManualThrottle
<1>13. ASSUME NEW p \in Pids, ManualRestore(p) PROVE StrangersInv'
  BY <1>13, SameBooks DEF ManualRestore
<1>14. ASSUME Cleanup PROVE StrangersInv'
  <2>1. /\ mem' = mem \/ mem' = EmptyState("none")
        /\ disk' = disk \/ disk' = NoFile
    <3>1. CASE throttled # {}
      BY <1>14, <3>1 DEF Cleanup
    <3>2. CASE throttled = {}
      BY <1>14, <3>2 DEF Cleanup
    <3> QED
      BY <3>1, <3>2
  <2>2. inc' = inc /\ alive' = alive /\ touched' = touched
    BY <1>14 DEF Cleanup
  <2> QED
    BY <2>1, <2>2, SameBooks
<1>15. ASSUME ProcessExit \/ Crash PROVE StrangersInv'
  <2>1. /\ mem' = EmptyState("none") /\ disk' = disk
        /\ inc' = inc /\ alive' = alive /\ touched' = touched
    BY <1>15 DEF ProcessExit, Crash, Forgotten
  <2> QED
    BY <2>1, SameBooks
<1>16. ASSUME KilledThrottling PROVE StrangersInv'
  <2>1. /\ mem' = EmptyState("none") /\ disk' = disk
        /\ inc' = inc /\ alive' = alive /\ touched \subseteq touched'
    BY <1>16 DEF KilledThrottling, Forgotten
  <2> QED
    BY <2>1, SameBooks
<1>17. ASSUME Start PROVE StrangersInv'
  <2>1. /\ mem' = EmptyState(IF GovernorSwitch THEN gov' ELSE "none")
        /\ disk' = NoFile
        /\ inc' = inc /\ alive' = alive /\ touched' = touched
    BY <1>17 DEF Start
  <2> QED
    BY <2>1, SameBooks
<1>18. CASE UNCHANGED vars
  BY <1>18, SameBooks DEF vars
<1> QED
  BY <1>1, <1>2, <1>3, <1>4, <1>5, <1>6, <1>7, <1>8, <1>9, <1>10, <1>11, <1>12,
     <1>13, <1>14, <1>15, <1>16, <1>17, <1>18
     DEF Next, Environment, Handler, SlowStep, Manual

\* Recovery changes only processes that a daemon changed, or whose entry has no
\* start time to tell.
THEOREM StrangersSpared == Spec => RecoverySparesStrangers
<1>1. Init => TypeOK /\ StrangersInv
  BY InitType, InitStrangersInv
<1>2. TypeOK /\ StrangersInv /\ [Next]_vars => (TypeOK /\ StrangersInv)'
  BY NextType, NextStrangersInv
<1>3. TypeOK /\ StrangersInv /\ [Next]_vars =>
        [Start => \A p \in alive :
           os'[p] # os[p] =>
             p \in touched \/ disk.state.entries[p].start = NoStart]_vars
  <2> SUFFICES ASSUME TypeOK, StrangersInv, Start, NEW p \in alive, os'[p] # os[p],
                      disk.state.entries[p].start # NoStart
               PROVE  p \in touched
    OBVIOUS
  <2>1. p \in Pids /\ os \in [Pids -> Attributes]
    BY DEF TypeOK
  <2>2. p \in Recoverable(disk.state)
    BY <2>1 DEF Start
  <2>3. disk.state.entries[p].start = inc[p]
    BY <2>2 DEF Recoverable, SameProcess
  <2> QED
    BY <2>1, <2>3 DEF StrangersInv, Known
<1> QED
  BY <1>1, <1>2, <1>3, PTL DEF Spec, RecoverySparesStrangers

(* ----------------------------- the governor --------------------------- *)

\* What a first daemon knows of the governor, and what its file says.
FirstGovernorKnown ==
  /\ govOriginal = "original"
  /\ mem.gov \in {"none", "original"}
  /\ disk.state.gov \in {"none", "original"}
  /\ ~GovernorSwitch => gov = "original"
  /\ daemons = 0 => gov = "original" /\ run = "down" /\ ~disk.present

\* Whoever may still raise the governor has recorded the one before; after a
\* cleanup it is set back, or raised and recorded again.
RaisedIsRecorded ==
  /\ GovernorSwitch /\ run \in {"up", "failed"} => mem.gov = "original"
  /\ run = "stopping" /\ mem.gov = "none" => gov = "original"

\* A file that names no governor is of a daemon that will raise none any more.
NamelessFileIsLast ==
  disk.present /\ disk.state.gov = "none" =>
    /\ gov = "original"
    /\ GovernorSwitch => slow.stage = "idle" /\ run \in {"stopping", "down"}

GovernorInv ==
  daemons <= 1 => FirstGovernorKnown /\ RaisedIsRecorded /\ NamelessFileIsLast

LEMMA InitGovernorInv == Init => GovernorInv
BY DEF Init, NoFile, EmptyState, GovernorInv, FirstGovernorKnown, RaisedIsRecorded,
       NamelessFileIsLast

\* A step that leaves the governor, what is known of it and the file as they are.
\* Outside a running daemon it starts no slow tick.
LEMMA SameGovernor ==
  ASSUME GovernorInv, gov' = gov, govOriginal' = govOriginal, mem'.gov = mem.gov,
         disk' = disk, run' = run, daemons' = daemons,
         run # "up" /\ slow.stage = "idle" => slow'.stage = "idle"
  PROVE  GovernorInv'
BY DEF GovernorInv, FirstGovernorKnown, RaisedIsRecorded, NamelessFileIsLast

\* A boost records the governor it raises, in a daemon whose file names one.
LEMMA BoostKeepsGovernor ==
  ASSUME GovernorInv, NEW p, NEW gameMode \in BOOLEAN, NEW paused \in BOOLEAN,
         ExecuteBoost(p, gameMode, paused), run # "down",
         run \in {"up", "failed"} \/ slow.stage # "idle",
         govOriginal' = govOriginal, disk' = disk, run' = run, daemons' = daemons,
         run # "up" /\ slow.stage = "idle" => slow'.stage = "idle"
  PROVE  GovernorInv'
<1>1. CASE ~SetsGovernor(gameMode, paused)
  <2>1. gov' = gov /\ mem'.gov = mem.gov
    BY <1>1 DEF ExecuteBoost, GovernorRecord
  <2> QED
    BY <2>1, SameGovernor
<1>2. CASE SetsGovernor(gameMode, paused)
  <2>1. GovernorSwitch /\ mem'.gov = govOriginal
    BY <1>2 DEF ExecuteBoost, GovernorRecord, SetsGovernor
  <2> QED
    BY <2>1 DEF GovernorInv, FirstGovernorKnown, RaisedIsRecorded, NamelessFileIsLast
<1> QED
  BY <1>1, <1>2

\* A persist writes the name the record has.
LEMMA ClassifyKeepsGovernor ==
  ASSUME TypeOK, GovernorInv, SlowClassify
  PROVE  GovernorInv'
<1>1. PICK heavy \in SUBSET Candidates(slow.snap) :
        /\ ExecuteThrottle(heavy)
        /\ disk' \in {Persisted(throttled', mem'), disk}
  BY DEF SlowClassify
<1>2. mem'.gov = mem.gov
  BY <1>1 DEF ExecuteThrottle, TypeOK, State
<1>3. /\ run # "down" /\ run' = run /\ daemons' = daemons
      /\ govOriginal' = govOriginal /\ gov' = gov /\ slow' = SlowIdle
  BY DEF SlowClassify, life
<1>4. run \in {"up", "failed", "stopping"}
  BY <1>3 DEF TypeOK
<1>5. CASE disk' = disk
  BY <1>2, <1>3, <1>5, SameGovernor DEF SlowIdle
<1>6. CASE disk' = [present |-> TRUE, state |-> mem']
  <2>1. disk'.state.gov = mem.gov
    BY <1>2, <1>6
  <2> QED
    BY <1>2, <1>3, <1>4, <2>1
       DEF GovernorInv, FirstGovernorKnown, RaisedIsRecorded, NamelessFileIsLast, SlowIdle
<1> QED
  BY <1>1, <1>5, <1>6 DEF Persisted

\* Every step of a daemon that polls the focus keeps the invariant.
LEMMA NextGovernorInv ==
  ASSUME Handlers = {}, TypeOK, GovernorInv, [Next]_vars
  PROVE  GovernorInv'
<1> USE DEF machine, kernel, life, books
<1>1. ASSUME Environment \/ \E lvl \in {"NORMAL", "STRESSED"} : FastTick(lvl)
      PROVE  GovernorInv'
  BY <1>1, SameGovernor DEF Environment, Spawn, Exit, FocusMoves, FastTick
<1>2. ASSUME SlowPoll \/ SlowBlind PROVE GovernorInv'
  BY <1>2, SameGovernor DEF SlowPoll, SlowBlind
<1>3. ASSUME SlowScan \/ SlowScanFails \/ SlowDeliver PROVE GovernorInv'
  BY <1>3, SameGovernor DEF SlowScan, SlowScanFails, SlowDeliver
<1>4. ASSUME NEW gameMode \in BOOLEAN, NEW paused \in BOOLEAN,
             SlowBoost(gameMode, paused)
      PROVE  GovernorInv'
  BY <1>4, BoostKeepsGovernor DEF SlowBoost
<1>5. ASSUME SlowClassify PROVE GovernorInv'
  BY <1>5, ClassifyKeepsGovernor
<1>6. ASSUME NEW p \in Pids, NEW paused \in BOOLEAN, ManualBoost(p, paused)
      PROVE  GovernorInv'
  BY <1>6, BoostKeepsGovernor DEF ManualBoost, Command
<1>7. ASSUME NEW p \in Pids, ManualThrottle(p) PROVE GovernorInv'
  <2>1. mem'.gov = mem.gov
    BY <1>7 DEF ManualThrottle, ExecuteThrottle, TypeOK, State
  <2> QED
    BY <1>7, <2>1, SameGovernor DEF ManualThrottle
<1>8. ASSUME NEW p \in Pids, ManualRestore(p) PROVE GovernorInv'
  BY <1>8, SameGovernor DEF ManualRestore
<1>9. ASSUME Cleanup PROVE GovernorInv'
  <2>1. CASE throttled # {}
    BY <1>9, <2>1
       DEF Cleanup, GovernorInv, FirstGovernorKnown, RaisedIsRecorded, NamelessFileIsLast
  <2>2. CASE throttled = {}
    <3>1. /\ run' = "stopping" /\ daemons' = daemons /\ run = "up"
          /\ gov' = IF GovernorSwitch THEN govOriginal ELSE gov
          /\ govOriginal' = govOriginal
          /\ mem' = EmptyState("none")
          /\ disk' = NoFile
      BY <1>9, <2>2 DEF Cleanup
    <3>2. ~disk'.present /\ disk'.state.gov = "none" /\ mem'.gov = "none"
      BY <3>1 DEF EmptyState, NoFile
    <3> QED
      BY <3>1, <3>2
         DEF GovernorInv, FirstGovernorKnown, RaisedIsRecorded, NamelessFileIsLast
  <2> QED
    BY <2>1, <2>2
<1>10. ASSUME ProcessExit \/ Crash \/ KilledThrottling PROVE GovernorInv'
  <2>1. /\ run' = "down" /\ run # "down" /\ daemons' = daemons /\ gov' = gov /\ disk' = disk
        /\ govOriginal' = "original" /\ mem' = EmptyState("none") /\ slow' = SlowIdle
    BY <1>10 DEF ProcessExit, Crash, KilledThrottling, Forgotten
  <2>2. mem'.gov = "none" /\ slow'.stage = "idle"
    BY <2>1 DEF EmptyState, SlowIdle
  <2> QED
    BY <2>1, <2>2
       DEF GovernorInv, FirstGovernorKnown, RaisedIsRecorded, NamelessFileIsLast
<1>11. ASSUME Start PROVE GovernorInv'
  <2>1. SUFFICES ASSUME daemons' <= 1 PROVE GovernorInv'
    BY DEF GovernorInv
  <2>2. daemons = 0 /\ daemons' = 1
    BY <1>11, <2>1 DEF Start, TypeOK
  <2>3. ~disk.present /\ gov = "original"
    BY <2>2 DEF GovernorInv, FirstGovernorKnown
  <2>4. /\ gov' = gov /\ run' = "up" /\ disk' = NoFile
        /\ govOriginal' = IF GovernorSwitch THEN gov' ELSE "original"
        /\ mem' = EmptyState(IF GovernorSwitch THEN gov' ELSE "none")
    BY <1>11, <2>3 DEF Start
  <2>5. /\ ~disk'.present /\ disk'.state.gov = "none"
        /\ mem'.gov = IF GovernorSwitch THEN "original" ELSE "none"
    BY <2>3, <2>4 DEF EmptyState, NoFile
  <2> QED
    BY <2>2, <2>3, <2>4, <2>5
       DEF GovernorInv, FirstGovernorKnown, RaisedIsRecorded, NamelessFileIsLast
<1>12. CASE UNCHANGED vars
  BY <1>12, SameGovernor DEF vars
<1> QED
  BY <1>1, <1>2, <1>3, <1>4, <1>5, <1>6, <1>7, <1>8, <1>9, <1>10, <1>11, <1>12
     DEF Next, SlowStep, Manual

\* Where the focus is only polled, a state file left by the first daemon gives
\* the foreground cores the governor they had before it, whenever it crashed,
\* whatever was boosted, by the tick or by hand.
THEOREM GovernorRecovered ==
  ASSUME Handlers = {}
  PROVE  Spec => RecoveryRestoresGovernor
<1>1. Init => TypeOK /\ GovernorInv
  BY InitType, InitGovernorInv
<1>2. TypeOK /\ GovernorInv /\ [Next]_vars => (TypeOK /\ GovernorInv)'
  BY NextType, NextGovernorInv
<1>3. TypeOK /\ GovernorInv /\ [Next]_vars =>
        [Start /\ daemons = 1 /\ disk.present => gov' = "original"]_vars
  <2> SUFFICES ASSUME GovernorInv, Start, daemons = 1, disk.present
               PROVE  gov' = "original"
    OBVIOUS
  <2>1. gov' = IF disk.state.gov # "none" THEN disk.state.gov ELSE gov
    BY DEF Start
  <2> QED
    BY <2>1 DEF GovernorInv, FirstGovernorKnown, NamelessFileIsLast
<1> QED
  BY <1>1, <1>2, <1>3, PTL DEF Spec, RecoveryRestoresGovernor
=============================================================================
