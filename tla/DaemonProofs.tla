---------------------------- MODULE DaemonProofs ----------------------------
(* Proofs about Daemon, for any pids, handlers, commands and bounds. *)
EXTENDS Daemon, TLAPS

(* ------------------------ attributes and entries ---------------------- *)

\* The four things the daemon does to a process keep its attributes in the
\* kernel's range.
LEMMA AttributesType ==
  ASSUME NEW attr \in Attributes, NEW gameMode \in BOOLEAN,
         NEW logged \in BOOLEAN, NEW entry \in Entries
  PROVE  /\ Boosted(attr, gameMode) \in Attributes
         /\ Throttled(attr) \in Attributes
         /\ Restored(attr, logged) \in Attributes
         /\ Recovered(attr, entry) \in Attributes
         /\ Neutral \in Attributes
BY OomAssumption
   DEF Attributes, Boosted, Throttled, Restored, Recovered, Neutral, Entries

\* trackProcess yields a rollback entry, and a tracked one.
LEMMA EntriesType ==
  ASSUME NEW entry \in Entries, NEW start \in 0..MaxStart,
         NEW gameMode \in BOOLEAN
  PROVE  /\ TrackBoost(entry, start, gameMode) \in Entries
         /\ TrackBoost(entry, start, gameMode).tracked
         /\ TrackThrottle(entry, start) \in Entries
         /\ TrackThrottle(entry, start).tracked
<1>1. /\ Track(entry, start) \in Entries
      /\ Track(entry, start).tracked
  BY DEF Track, Entries
<1>2. /\ TrackThrottle(entry, start) \in Entries
      /\ TrackThrottle(entry, start).tracked
  BY <1>1 DEF TrackThrottle, Entries
<1>3. /\ TrackBoost(entry, start, gameMode) \in Entries
      /\ TrackBoost(entry, start, gameMode).tracked
  BY <1>1, OomAssumption DEF TrackBoost, Entries
<1> QED
  BY <1>2, <1>3

\* The entry of an untouched pid is an entry.
LEMMA NoEntryType == NoEntry \in Entries
BY MaxStartAssumption DEF NoEntry, Entries, NoStart

\* A rollback record without entries, as bootstrap and clear make it.
LEMMA EmptyStateType ==
  ASSUME NEW g \in Governors \cup {"none"}
  PROVE  EmptyState(g) \in State
BY NoEntryType DEF EmptyState, State

\* getPidStartTime reads a start time or none.
LEMMA StartTimeType ==
  ASSUME TypeOK, NEW p \in Pids
  PROVE  StartTime(p) \in 0..MaxStart
BY MaxStartAssumption DEF TypeOK, StartTime, NoStart

(* --------------------------- type correctness ------------------------- *)

\* restoreProcess, on any processes.
LEMMA RestoreAllType ==
  ASSUME TypeOK, NEW ps, RestoreAll(ps)
  PROVE  os' \in [Pids -> Attributes] /\ auto' \subseteq Pids /\ unsaved' \subseteq auto'
<1>1. ASSUME NEW p \in Pids
      PROVE  Restored(os[p], p \in oomLogged) \in Attributes
  BY DEF TypeOK, Restored, Neutral, Attributes
<1> QED
  BY <1>1 DEF RestoreAll, TypeOK

\* _executeBoost, on any process, dead or alive.
LEMMA ExecuteBoostType ==
  ASSUME TypeOK, NEW p \in Pids, NEW gameMode \in BOOLEAN, NEW paused \in BOOLEAN,
         ExecuteBoost(p, gameMode, paused)
  PROVE  /\ os' \in [Pids -> Attributes]
         /\ auto' \subseteq Pids /\ unsaved' \subseteq auto'
         /\ oomLogged' \subseteq Pids
         /\ mem' \in State
         /\ gov' \in Governors
         /\ touched' \subseteq Pids
<1>1. /\ Boosted(os[p], gameMode) \in Attributes
      /\ TrackBoost(mem.entries[p], StartTime(p), gameMode) \in Entries
  <2>1. os[p] \in Attributes /\ mem.entries[p] \in Entries
    BY DEF TypeOK, State
  <2>2. StartTime(p) \in 0..MaxStart
    BY StartTimeType
  <2>3. Boosted(os[p], gameMode) \in Attributes
    BY <2>1, OomAssumption DEF Boosted, Attributes
  <2> QED
    BY <2>1, <2>2, <2>3, EntriesType
<1>2. /\ os' \in [Pids -> Attributes] /\ auto' \subseteq Pids /\ unsaved' \subseteq auto' /\ oomLogged' \subseteq Pids
      /\ touched' \subseteq Pids
  BY <1>1 DEF ExecuteBoost, TypeOK
<1>3. mem' \in State
  BY <1>1 DEF ExecuteBoost, GovernorRecord, TypeOK, State
<1>4. gov' \in Governors
  BY DEF ExecuteBoost, TypeOK, Governors
<1> QED
  BY <1>2, <1>3, <1>4

\* _executeThrottle, on any processes.
LEMMA ExecuteThrottleType ==
  ASSUME TypeOK, NEW ps \in SUBSET Pids, ExecuteThrottle(ps)
  PROVE  os' \in [Pids -> Attributes] /\ mem' \in State /\ touched' \subseteq Pids
<1>1. ASSUME NEW p \in Pids
      PROVE  /\ Throttled(os[p]) \in Attributes
             /\ TrackThrottle(mem.entries[p], StartTime(p)) \in Entries
  <2>1. os[p] \in Attributes /\ mem.entries[p] \in Entries
    BY DEF TypeOK, State
  <2>2. StartTime(p) \in 0..MaxStart
    BY StartTimeType
  <2>3. Throttled(os[p]) \in Attributes
    BY <2>1 DEF Throttled, Attributes
  <2> QED
    BY <2>1, <2>2, <2>3, EntriesType
<1>2. os' \in [Pids -> Attributes] /\ touched' \subseteq Pids
  BY <1>1 DEF ExecuteThrottle, TypeOK
<1>3. mem' \in State
  BY <1>1 DEF ExecuteThrottle, TypeOK, State
<1> QED
  BY <1>2, <1>3

\* recoverFromCrash writes attributes the kernel knows.
LEMMA RecoveredType ==
  ASSUME TypeOK, NEW p \in Pids
  PROVE  Recovered(os[p], disk.state.entries[p]) \in Attributes
<1>1. os[p] \in Attributes /\ disk.state.entries[p] \in Entries
  BY DEF TypeOK, State
<1> QED
  BY <1>1 DEF Recovered, Attributes, Entries

\* A machine no daemon has touched.
LEMMA InitType == Init => TypeOK
<1> SUFFICES ASSUME Init PROVE TypeOK
  OBVIOUS
<1>1. EmptyState("none") \in State
  BY EmptyStateType
<1>2. Neutral \in Attributes
  BY DEF Neutral, Attributes
<1>3. inc \in [Pids -> 0..MaxStart]
  BY MaxStartAssumption DEF Init
<1> QED
  BY <1>1, <1>2, <1>3 DEF Init, TypeOK, Idle, SlowIdle, NoFile, Governors

\* Every step of the machine, of a handler, of a tick, of a command and of the
\* daemon's life keeps every variable in its type.
LEMMA NextType == TypeOK /\ [Next]_vars => TypeOK'
<1> SUFFICES ASSUME TypeOK, [Next]_vars PROVE TypeOK'
  OBVIOUS
<1> USE DEF machine, kernel, life, books
<1>1. ASSUME NEW p \in Pids, Spawn(p) PROVE TypeOK'
  <2>1. Neutral \in Attributes
    BY DEF Neutral, Attributes
  <2>2. /\ os' \in [Pids -> Attributes]
        /\ ppid' \in [Pids -> Pids \cup {NoPid}]
        /\ alive' \subseteq Pids
    BY <1>1, <2>1, DaemonAssumption DEF Spawn, TypeOK
  <2>3. inc' \in [Pids -> 0..MaxStart]
    BY <1>1, MaxStartAssumption DEF Spawn, TypeOK
  <2> QED
    BY <1>1, <2>2, <2>3 DEF Spawn, TypeOK
<1>2. ASSUME NEW p \in Pids, Exit(p) PROVE TypeOK'
  <2>1. Neutral \in Attributes
    BY DEF Neutral, Attributes
  <2> QED
    BY <1>2, <2>1 DEF Exit, TypeOK
<1>3. ASSUME NEW p \in Pids \cup {NoPid}, FocusMoves(p) PROVE TypeOK'
  BY <1>3 DEF FocusMoves, TypeOK
<1>4. ASSUME NEW i \in Handlers, FocusSignal(i) PROVE TypeOK'
  BY <1>4 DEF FocusSignal, TypeOK
<1>5. ASSUME NEW i \in Handlers, DeliverFocus(i) PROVE TypeOK'
  <2>1. tasks[i].pid \in Pids \cup {NoPid}
    BY DEF TypeOK
  <2>2. /\ os' \in [Pids -> Attributes]
        /\ auto' \subseteq Pids /\ unsaved' \subseteq auto'
        /\ fg' \in Pids \cup {NoPid}
    BY <1>5, <2>1, RestoreAllType DEF DeliverFocus, SwitchForeground, TypeOK
  <2>3. tasks' \in [Handlers -> [stage : {"idle", "read", "boost"},
                                 pid : Pids \cup {NoPid}]]
    BY <1>5 DEF DeliverFocus, Idle, TypeOK
  <2> QED
    BY <1>5, <2>2, <2>3 DEF DeliverFocus, TypeOK
<1>6. ASSUME NEW i \in Handlers, NEW gameMode \in BOOLEAN, NEW paused \in BOOLEAN,
             ResumeBoost(i, gameMode, paused)
      PROVE  TypeOK'
  <2>1. CASE tasks[i].pid \in Pids
    <3>1. /\ os' \in [Pids -> Attributes]
          /\ auto' \subseteq Pids /\ unsaved' \subseteq auto'
          /\ oomLogged' \subseteq Pids
          /\ mem' \in State
          /\ gov' \in Governors
          /\ touched' \subseteq Pids
      BY <1>6, <2>1, ExecuteBoostType DEF ResumeBoost
    <3> QED
      BY <1>6, <3>1 DEF ResumeBoost, TypeOK, Idle
  <2>2. CASE tasks[i].pid = NoPid
    <3>1. NoPid \notin alive
      BY DaemonAssumption DEF TypeOK
    <3>2. mem' \in State
      BY <1>6, <2>2, DaemonAssumption
         DEF ResumeBoost, ExecuteBoost, GovernorRecord, TypeOK, State
    <3> QED
      BY <1>6, <2>2, <3>1, <3>2
         DEF ResumeBoost, ExecuteBoost, TypeOK, Idle, Governors
  <2> QED
    BY <2>1, <2>2 DEF TypeOK
<1>7. ASSUME SlowPoll \/ SlowBlind \/ SlowScanFails PROVE TypeOK'
  <2>1. slow' \in [stage : {"idle", "read", "boost", "scan", "classify"},
                  pid : Pids \cup {NoPid}, snap : SUBSET Listing]
    <3>1. SlowIdle \in [stage : {"idle", "read", "boost", "scan", "classify"},
                        pid : Pids \cup {NoPid}, snap : SUBSET Listing]
      BY DEF SlowIdle
    <3>2. CASE SlowPoll
      BY <3>1, <3>2 DEF SlowPoll, TypeOK
    <3>3. CASE SlowBlind
      BY <3>1, <3>3 DEF SlowBlind, TypeOK
    <3>4. CASE SlowScanFails
      BY <3>1, <3>4 DEF SlowScanFails
    <3> QED
      BY <1>7, <3>2, <3>3, <3>4
  <2> QED
    BY <1>7, <2>1 DEF SlowPoll, SlowBlind, SlowScanFails, TypeOK
<1>8. ASSUME SlowDeliver PROVE TypeOK'
  <2>1. slow.pid \in Pids \cup {NoPid}
    BY DEF TypeOK
  <2>2. /\ os' \in [Pids -> Attributes]
        /\ auto' \subseteq Pids /\ unsaved' \subseteq auto'
        /\ fg' \in Pids \cup {NoPid}
    BY <1>8, <2>1, RestoreAllType DEF SlowDeliver, SwitchForeground, TypeOK
  <2> QED
    BY <1>8, <2>2 DEF SlowDeliver, SlowAfterFocus, SlowIdle, TypeOK
<1>9. ASSUME NEW gameMode \in BOOLEAN, NEW paused \in BOOLEAN,
             SlowBoost(gameMode, paused)
      PROVE  TypeOK'
  <2>1. CASE slow.pid \in Pids
    <3>1. /\ os' \in [Pids -> Attributes]
          /\ auto' \subseteq Pids /\ unsaved' \subseteq auto'
          /\ oomLogged' \subseteq Pids
          /\ mem' \in State
          /\ gov' \in Governors
          /\ touched' \subseteq Pids
      BY <1>9, <2>1, ExecuteBoostType DEF SlowBoost
    <3> QED
      BY <1>9, <3>1 DEF SlowBoost, SlowAfterFocus, SlowIdle, TypeOK
  <2>2. CASE slow.pid = NoPid
    <3>1. NoPid \notin alive
      BY DaemonAssumption DEF TypeOK
    <3>2. mem' \in State
      BY <1>9, <2>2, DaemonAssumption
         DEF SlowBoost, ExecuteBoost, GovernorRecord, TypeOK, State
    <3> QED
      BY <1>9, <2>2, <3>1, <3>2
         DEF SlowBoost, ExecuteBoost, SlowAfterFocus, SlowIdle, TypeOK, Governors
  <2> QED
    BY <2>1, <2>2 DEF TypeOK
<1>10. ASSUME SlowScan PROVE TypeOK'
  <2>1. {[pid |-> p, ppid |-> ppid[p]] : p \in alive} \in SUBSET Listing
    BY DEF TypeOK, Listing
  <2> QED
    BY <1>10, <2>1 DEF SlowScan, TypeOK
<1>11. ASSUME SlowClassify PROVE TypeOK'
  <2>1. PICK heavy \in SUBSET Candidates(slow.snap), written \in BOOLEAN :
          /\ ExecuteThrottle(heavy)
          /\ throttled' = Pruned(slow.snap) \cup heavy
          /\ auto' = auto \cup (heavy \cap alive)
          /\ unsaved' = IF written THEN {} ELSE unsaved \cup (heavy \cap alive)
          /\ disk' = IF written THEN Persisted(throttled', mem') ELSE disk
    BY <1>11 DEF SlowClassify
  <2>2. heavy \subseteq Pids
    BY DEF Candidates, Listed, Listing, TypeOK
  <2>3. os' \in [Pids -> Attributes] /\ mem' \in State /\ touched' \subseteq Pids
    BY <2>1, <2>2, ExecuteThrottleType
  <2>4. throttled' \subseteq Pids /\ auto' \subseteq Pids /\ unsaved' \subseteq auto'
    BY <2>1, <2>2 DEF Pruned, TypeOK
  <2>5. disk' \in [present : BOOLEAN, state : State]
    BY <2>1, <2>3 DEF Persisted, TypeOK
  <2> QED
    BY <1>11, <2>3, <2>4, <2>5 DEF SlowClassify, SlowIdle, TypeOK
<1>12. ASSUME NEW lvl \in {"NORMAL", "STRESSED"}, FastTick(lvl) PROVE TypeOK'
  <2>1. os' \in [Pids -> Attributes] /\ auto' \subseteq Pids /\ unsaved' \subseteq auto'
    BY <1>12, RestoreAllType DEF FastTick
  <2> QED
    BY <1>12, <2>1 DEF FastTick, TypeOK
<1>13. ASSUME NEW p \in Pids, NEW paused \in BOOLEAN, ManualBoost(p, paused)
       PROVE  TypeOK'
  <2>1. /\ os' \in [Pids -> Attributes]
        /\ auto' \subseteq Pids /\ unsaved' \subseteq auto'
        /\ oomLogged' \subseteq Pids
        /\ mem' \in State
        /\ gov' \in Governors
        /\ touched' \subseteq Pids
    BY <1>13, ExecuteBoostType DEF ManualBoost
  <2> QED
    BY <1>13, <2>1 DEF ManualBoost, TypeOK
<1>14. ASSUME NEW p \in Pids, ManualThrottle(p) PROVE TypeOK'
  <2>1. os' \in [Pids -> Attributes] /\ mem' \in State /\ touched' \subseteq Pids
    BY <1>14, ExecuteThrottleType DEF ManualThrottle
  <2> QED
    BY <1>14, <2>1 DEF ManualThrottle, TypeOK
<1>15. ASSUME NEW p \in Pids, ManualRestore(p) PROVE TypeOK'
  <2>1. os' \in [Pids -> Attributes] /\ auto' \subseteq Pids /\ unsaved' \subseteq auto'
    BY <1>15, RestoreAllType DEF ManualRestore
  <2> QED
    BY <1>15, <2>1 DEF ManualRestore, TypeOK
<1>16. ASSUME Cleanup PROVE TypeOK'
  <2>1. os' \in [Pids -> Attributes] /\ auto' \subseteq Pids /\ unsaved' \subseteq auto'
    BY <1>16, RestoreAllType DEF Cleanup
  <2>2. EmptyState("none") \in State
    BY EmptyStateType
  <2>3. /\ run' \in {"stopping", "failed"}
        /\ gov' \in Governors
        /\ mem' \in State
        /\ disk' \in [present : BOOLEAN, state : State]
    <3>1. CASE throttled # {}
      BY <1>16, <3>1 DEF Cleanup, TypeOK
    <3>2. CASE throttled = {}
      <4>1. NoFile \in [present : BOOLEAN, state : State]
        BY <2>2 DEF NoFile
      <4>2. /\ run' = "stopping"
            /\ gov' \in {gov, govOriginal}
            /\ mem' = EmptyState("none")
            /\ disk' = NoFile
        BY <1>16, <3>2 DEF Cleanup
      <4> QED
        BY <2>2, <4>1, <4>2 DEF TypeOK
    <3> QED
      BY <3>1, <3>2
  <2> QED
    BY <1>16, <2>1, <2>3 DEF Cleanup, TypeOK
<1>17. ASSUME ProcessExit \/ Crash PROVE TypeOK'
  <2>1. EmptyState("none") \in State
    BY EmptyStateType
  <2> QED
    BY <1>17, <2>1
       DEF ProcessExit, Crash, Forgotten, Idle, SlowIdle, Governors, TypeOK
<1>18. ASSUME KilledThrottling PROVE TypeOK'
  <2>1. EmptyState("none") \in State
    BY EmptyStateType
  <2>2. PICK heavy \in SUBSET Candidates(slow.snap) : \E last \in heavy :
          /\ \E half \in ThrottledUpTo(os[last]) :
               os' = [p \in Pids |->
                        IF p \in heavy \cap alive
                        THEN IF p = last THEN half ELSE Throttled(os[p])
                        ELSE os[p]]
          /\ auto' = auto \cup (heavy \cap alive)
          /\ unsaved' = unsaved \cup (heavy \cap alive)
          /\ touched' = touched \cup (heavy \cap alive)
    BY <1>18 DEF KilledThrottling
  <2>3. heavy \subseteq Pids
    BY DEF Candidates, Listed, Listing, TypeOK
  <2>4. ASSUME NEW p \in Pids
        PROVE  /\ Throttled(os[p]) \in Attributes
               /\ ThrottledUpTo(os[p]) \subseteq Attributes
    <3>1. os[p] \in Attributes
      BY DEF TypeOK
    <3> QED
      BY <3>1 DEF Throttled, ThrottledUpTo, Attributes
  <2>5. os' \in [Pids -> Attributes]
    BY <2>2, <2>3, <2>4 DEF TypeOK
  <2>6. auto' \subseteq Pids /\ unsaved' \subseteq auto' /\ touched' \subseteq Pids
    BY <2>2, <2>3 DEF TypeOK
  <2> QED
    BY <1>18, <2>1, <2>5, <2>6
       DEF KilledThrottling, Forgotten, Idle, SlowIdle, Governors, TypeOK
<1>19. ASSUME Start PROVE TypeOK'
  <2>1. gov' \in Governors
    BY <1>19 DEF Start, TypeOK, State
  <2>2. EmptyState("none") \in State /\ EmptyState(gov') \in State
    BY <2>1, EmptyStateType
  <2>3. os' \in [Pids -> Attributes]
    BY <1>19, RecoveredType DEF Start, TypeOK
  <2> QED
    BY <1>19, <2>1, <2>2, <2>3 DEF Start, NoFile, Governors, TypeOK
<1>20. CASE UNCHANGED vars
  BY <1>20 DEF vars, TypeOK
<1> QED
  BY <1>1, <1>2, <1>3, <1>4, <1>5, <1>6, <1>7, <1>8, <1>9, <1>10, <1>11, <1>12,
     <1>13, <1>14, <1>15, <1>16, <1>17, <1>18, <1>19, <1>20
     DEF Next, Environment, Handler, SlowStep, Manual

\* The variables of daemon.js, scheduler.js and rollback.js stay in their
\* types, whatever the interleaving.
THEOREM TypeCorrect == Spec => []TypeOK
<1>1. Init => TypeOK
  BY InitType
<1>2. TypeOK /\ [Next]_vars => TypeOK'
  BY NextType
<1> QED
  BY <1>1, <1>2, PTL DEF Spec
=============================================================================
