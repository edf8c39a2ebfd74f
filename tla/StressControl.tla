---------------------------- MODULE StressControl ----------------------------
(***************************************************************************)
(* The two pieces of daemon state that depend on the clock:                *)
(*                                                                         *)
(*   the stress level, which HysteresisState (scheduler.js) lets follow    *)
(*   the pressure only when the pressure has lasted                        *)
(*                                                                         *)
(*   the thermal pause (daemon.js), during which no boost sets the         *)
(*   governor                                                              *)
(*                                                                         *)
(* Both are read and written by fastTick, at whatever time it runs: the    *)
(* interval, its idle backoff and the watchdog are any sequence of times   *)
(* here.  The clock may jump over several ticks (a suspended machine) but  *)
(* is not set back.  Pressures and scores are abstracted to the level they *)
(* call for, temperatures to the side of the two thresholds they are on.   *)
(***************************************************************************)
EXTENDS Naturals

CONSTANTS NormalToWarn,      \* HYSTERESIS_NORMAL_TO_WARN_MS
          WarnToCritical,    \* HYSTERESIS_WARN_TO_CRITICAL_MS
          CriticalToNormal,  \* HYSTERESIS_CRITICAL_TO_NORMAL_MS
          PauseDuration,     \* THERMAL_PAUSE_DURATION_MS
          Jumps,             \* the amounts by which the clock advances
          MaxTime            \* bound: the clock stops here

ASSUME TimeAssumption ==
  /\ NormalToWarn \in Nat
  /\ WarnToCritical \in Nat
  /\ CriticalToNormal \in Nat
  /\ PauseDuration \in Nat \ {0}
  /\ Jumps \subseteq Nat \ {0}
  /\ MaxTime \in Nat

VARIABLES
  now,
  level,         \* HysteresisState._currentLevel, scheduler.stressLevel
  pending,       \* HysteresisState._pendingLevel
  pendingSince,  \* HysteresisState._pendingSince
  hysteresis,    \* ENABLE_HYSTERESIS, which a hot reload may change
  lastTick,      \* the time of the last fastTick
  lastTemp,      \* State.thermalLastTemp
  pausedUntil,   \* State.thermalPausedUntil
  \* history
  wanted,        \* the level the last tick called for
  wantedSince,   \* the tick since which every tick has called for it
  steady,        \* hysteresis has been on at every tick
  lastHot,       \* the last tick that read a temperature above the threshold
  pauseStart,    \* the last such tick outside a pause
  raisedAt       \* the last time a boost set the governor

stressVars  == <<level, pending, pendingSince>>
thermalVars == <<lastTemp, pausedUntil>>
history     == <<wanted, wantedSince, steady, lastHot, pauseStart, raisedAt>>
vars == <<now, stressVars, hysteresis, lastTick, thermalVars, history>>

Levels == {"NORMAL", "WARN", "CRITICAL"}
None   == "none"

\* readThermalTemp: under THERMAL_RESUME_THRESHOLD, between the thresholds, at
\* or over THERMAL_PAUSE_THRESHOLD, unreadable
Temps  == {"cool", "warm", "hot", None}

TypeOK ==
  /\ now \in Nat
  /\ level \in Levels
  /\ pending \in Levels \cup {None}
  /\ pendingSince \in Nat
  /\ hysteresis \in BOOLEAN
  /\ lastTick \in Nat
  /\ lastTemp \in Temps
  /\ pausedUntil \in Nat
  /\ wanted \in Levels \cup {None}
  /\ wantedSince \in Nat
  /\ steady \in BOOLEAN
  /\ lastHot \in Nat
  /\ pauseStart \in Nat
  /\ raisedAt \in Nat

(* --------------------------- HysteresisState -------------------------- *)

\* _getRequiredDwellTime
Required(from, to) ==
  CASE {from, to} = {"NORMAL", "WARN"}        -> NormalToWarn
    [] {from, to} = {"WARN", "CRITICAL"}      -> WarnToCritical
    [] from = "CRITICAL" /\ to = "NORMAL"     -> CriticalToNormal
    [] from = "NORMAL" /\ to = "CRITICAL"     -> NormalToWarn + WarnToCritical
    [] OTHER                                  -> 0

\* How long the desired level has been pending at this evaluation, which
\* starts the count if another level was pending, or none.  (Variant: every
\* evaluation starts it.)
PendingRestart(desired) == now
PendingStart(desired) == IF pending = desired THEN pendingSince ELSE now

Settled(desired) ==
  ~hysteresis \/ now - PendingStart(desired) >= Required(level, desired)

\* A tick that calls for the current level cancels the pending one, but not
\* with hysteresis off.  (Variants: it never does; it adopts the pending one.)
CancelNever == UNCHANGED stressVars
CancelAdopting == level' = pending /\ pending' = None /\ pendingSince' = 0
Cancel ==
  /\ level' = level
  /\ IF hysteresis THEN pending' = None /\ pendingSince' = 0
     ELSE UNCHANGED <<pending, pendingSince>>

Evaluate(desired) ==
  \/ desired = level /\ Cancel
  \/ /\ desired # level /\ Settled(desired)
     /\ level' = desired
     /\ pending' = None
     /\ pendingSince' = 0
  \/ /\ desired # level /\ ~Settled(desired)
     /\ pending' = desired
     /\ pendingSince' = PendingStart(desired)
     /\ UNCHANGED level

\* scheduler.tick: a high adaptive score makes a warning of normal pressure.
Desired(pressure, highScore) ==
  IF pressure = "NORMAL" /\ highScore THEN "WARN" ELSE pressure

(* ---------------------------- thermal pause --------------------------- *)

Paused == now < pausedUntil

\* updateThermalPause: a reading during the pause changes nothing.  (Variant: it
\* extends the pause.)
UpdateExtending(temp) ==
  /\ lastTemp' = temp
  /\ pausedUntil' = IF temp = "hot" \/ (temp = "warm" /\ Paused)
                    THEN now + PauseDuration ELSE pausedUntil
UpdateThermalPause(temp) ==
  /\ lastTemp' = temp
  /\ pausedUntil' = IF temp = "hot" /\ ~Paused THEN now + PauseDuration
                    ELSE pausedUntil

(* ------------------------------- actions ------------------------------ *)

StartsPause == pauseStart = 0 \/ now >= pauseStart + PauseDuration

RecordTick(desired, temp) ==
  /\ wanted' = desired
  /\ wantedSince' = IF wanted = desired THEN wantedSince ELSE now
  /\ steady' = (steady /\ hysteresis)
  /\ lastHot' = IF temp = "hot" THEN now ELSE lastHot
  /\ pauseStart' = IF temp = "hot" /\ StartsPause THEN now ELSE pauseStart
  /\ UNCHANGED raisedAt

FastTick(pressure, highScore, temp) ==
  /\ lastTick' = now
  /\ Evaluate(Desired(pressure, highScore))
  /\ UpdateThermalPause(temp)
  /\ RecordTick(Desired(pressure, highScore), temp)
  /\ UNCHANGED <<now, hysteresis>>

\* The governor part of _executeBoost, from a focus handler or a command.
\* (Variant: the last reading decides, and not the pause.)
RaiseUnlessHot == lastTemp # "hot"
MayRaise == ~Paused
Boost ==
  /\ MayRaise
  /\ raisedAt' = now
  /\ UNCHANGED <<now, stressVars, hysteresis, lastTick, thermalVars, wanted,
                 wantedSince, steady, lastHot, pauseStart>>

\* setupHotReload
Reload ==
  /\ hysteresis' = ~hysteresis
  /\ UNCHANGED <<now, stressVars, lastTick, thermalVars, history>>

Advance(d) ==
  /\ now + d <= MaxTime
  /\ now' = now + d
  /\ UNCHANGED <<stressVars, hysteresis, lastTick, thermalVars, history>>

Init ==
  /\ now = 1
  /\ level = "NORMAL"
  /\ pending = None
  /\ pendingSince = 0
  /\ hysteresis = TRUE
  /\ lastTick = 0
  /\ lastTemp = None
  /\ pausedUntil = 0
  /\ wanted = None
  /\ wantedSince = 0
  /\ steady = TRUE
  /\ lastHot = 0
  /\ pauseStart = 0
  /\ raisedAt = 0

Next ==
  \/ \E pressure \in Levels, highScore \in BOOLEAN, temp \in Temps :
       FastTick(pressure, highScore, temp)
  \/ Boost
  \/ Reload
  \/ \E d \in Jumps : Advance(d)

Spec == Init /\ [][Next]_vars

(* ----------------------------- properties ----------------------------- *)

\* The stress level changes only to a level that every tick has called for
\* during the dwell time of the transition (while no reload has turned
\* hysteresis off: a level left pending by such a reload counts from the time
\* before it).
DwellRespected ==
  [][level' # level /\ steady' =>
       wanted' = level' /\ now - wantedSince' >= Required(level, level')]_vars

\* And it does change: no tick leaves it behind a level that has been called
\* for during the dwell time.
PressureFollowed ==
  steady /\ wanted # None /\ wanted # level =>
    lastTick - wantedSince < Required(level, wanted)

\* A tick that reads a hot CPU leaves the pause on, started then or earlier;
\* and the pause never outlasts the last hot reading by more than its duration.
PauseFollowsHeat ==
  /\ lastTemp = "hot" /\ lastTick = now => Paused
  /\ pausedUntil <= lastHot + PauseDuration

\* No boost raises the governor for the whole duration of a pause, even if the
\* CPU has cooled down meanwhile.
NoRaiseInPause ==
  pauseStart > 0 =>
    raisedAt \notin pauseStart + 1 .. pauseStart + PauseDuration - 1

\* updateThermalPause, its comment: the first tick after the pause re-triggers
\* it if the CPU is still above the resume threshold.
ResumeBelowThreshold ==
  [][\A pressure \in Levels, highScore \in BOOLEAN, temp \in {"warm", "hot"} :
       FastTick(pressure, highScore, temp)
         /\ lastTick < pausedUntil /\ pausedUntil <= now
       => now < pausedUntil']_vars
==============================================================================
