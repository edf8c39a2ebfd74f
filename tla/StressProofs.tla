---------------------------- MODULE StressProofs ----------------------------
(***************************************************************************)
(* Proofs about StressControl, for any dwell times, any pause, any clock.  *)
(*                                                                         *)
(* The history of what the ticks called for says nothing by itself about   *)
(* the code's own count: the missing link is that, as long as hysteresis   *)
(* has been on, the pending level is the wanted one and is counted from    *)
(* the same tick; and, for the pause, that its end is where its start says *)
(* it is.                                                                  *)
(***************************************************************************)
EXTENDS StressControl, TLAPS

Clock ==
  /\ now >= 1
  /\ lastTick <= now
  /\ lastHot <= now
  /\ raisedAt <= now

CountAgrees ==
  steady =>
    IF wanted \in {None, level}
    THEN pending = None
    ELSE /\ pending = wanted
         /\ pendingSince = wantedSince
         /\ lastTick - wantedSince < Required(level, wanted)

PauseAgrees ==
  pausedUntil = IF pauseStart = 0 THEN 0 ELSE pauseStart + PauseDuration

StressInv ==
  /\ TypeOK
  /\ Clock
  /\ CountAgrees
  /\ PauseAgrees
  /\ PauseFollowsHeat
  /\ NoRaiseInPause

\* Every dwell time is a number of milliseconds.
LEMMA RequiredType ==
  ASSUME NEW from \in Levels, NEW to \in Levels
  PROVE  Required(from, to) \in Nat
BY TimeAssumption DEF Required, Levels

\* The score makes a level of a level.
LEMMA DesiredType ==
  ASSUME NEW pressure \in Levels, NEW highScore \in BOOLEAN
  PROVE  Desired(pressure, highScore) \in Levels
BY DEF Desired, Levels

\* "No level" is not a level.
LEMMA NoneIsNoLevel == None \notin Levels
BY DEF None, Levels

\* The daemon starts cool, at NORMAL, with nothing pending.
LEMMA InitStressInv == Init => StressInv
BY TimeAssumption
   DEF Init, StressInv, TypeOK, Clock, CountAgrees, PauseAgrees,
       PauseFollowsHeat, NoRaiseInPause, Levels, Temps, None, Paused

\* A tick with hysteresis on counts from the tick that history counts from.
LEMMA CountStart ==
  ASSUME StressInv, steady, NEW desired \in Levels, desired # level
  PROVE  PendingStart(desired) = IF wanted = desired THEN wantedSince ELSE now
<1>1. desired # None
  BY NoneIsNoLevel
<1> QED
  BY <1>1 DEF StressInv, CountAgrees, PendingStart

\* A tick keeps every variable in its type.
LEMMA TickType ==
  ASSUME TypeOK, NEW pressure \in Levels, NEW highScore \in BOOLEAN,
         NEW temp \in Temps, FastTick(pressure, highScore, temp)
  PROVE  TypeOK'
<1> DEFINE desired == Desired(pressure, highScore)
<1>1. desired \in Levels
  BY DesiredType
<1>2. level' \in Levels /\ pending' \in Levels \cup {None} /\ pendingSince' \in Nat
  <2>1. Evaluate(desired)
    BY DEF FastTick
  <2>2. PendingStart(desired) \in Nat
    BY DEF PendingStart, TypeOK
  <2> HIDE DEF desired
  <2>3. CASE desired = level /\ Cancel
    BY <2>3 DEF Cancel, TypeOK
  <2>4. CASE desired # level
    BY <1>1, <2>1, <2>2, <2>4 DEF Evaluate, TypeOK
  <2> QED
    BY <2>1, <2>3, <2>4 DEF Evaluate
<1>3. lastTemp' \in Temps /\ pausedUntil' \in Nat
  BY TimeAssumption DEF FastTick, UpdateThermalPause, TypeOK
<1>4. /\ wanted' \in Levels \cup {None}
      /\ wantedSince' \in Nat
      /\ steady' \in BOOLEAN
      /\ lastHot' \in Nat
      /\ pauseStart' \in Nat
      /\ raisedAt' \in Nat
  BY <1>1 DEF FastTick, RecordTick, TypeOK
<1>5. now' \in Nat /\ hysteresis' \in BOOLEAN /\ lastTick' \in Nat
  BY DEF FastTick, TypeOK
<1> QED
  BY <1>2, <1>3, <1>4, <1>5 DEF TypeOK

\* A tick keeps the code's count in step with history.
LEMMA TickCount ==
  ASSUME StressInv, NEW pressure \in Levels, NEW highScore \in BOOLEAN,
         NEW temp \in Temps, FastTick(pressure, highScore, temp)
  PROVE  CountAgrees'
<1> DEFINE desired == Desired(pressure, highScore)
<1>1. desired \in Levels
  BY DesiredType
<1>2. /\ Evaluate(desired)
      /\ wanted' = desired
      /\ wantedSince' = IF wanted = desired THEN wantedSince ELSE now
      /\ steady' = (steady /\ hysteresis)
      /\ lastTick' = now
  BY DEF FastTick, RecordTick
<1> HIDE DEF desired
<1>3. SUFFICES ASSUME steady, hysteresis PROVE CountAgrees'
  BY <1>2 DEF CountAgrees
<1>4. desired # None
  BY <1>1, NoneIsNoLevel
<1>5. CASE desired = level
  BY <1>2, <1>3, <1>5 DEF Evaluate, Cancel, CountAgrees
<1>6. CASE desired # level /\ Settled(desired)
  BY <1>2, <1>6 DEF Evaluate, CountAgrees
<1>7. CASE desired # level /\ ~Settled(desired)
  <2>1. /\ level' = level
        /\ pending' = desired
        /\ pendingSince' = PendingStart(desired)
    BY <1>2, <1>7 DEF Evaluate
  <2>2. pendingSince' = wantedSince'
    BY <1>1, <1>2, <1>3, <1>7, <2>1, CountStart
  <2>3. now - PendingStart(desired) < Required(level, desired)
    <3>1. level \in Levels /\ now \in Nat /\ PendingStart(desired) \in Nat
      BY DEF StressInv, TypeOK, PendingStart
    <3>2. Required(level, desired) \in Nat
      BY <1>1, <3>1, RequiredType
    <3>3. ~(now - PendingStart(desired) >= Required(level, desired))
      BY <1>7 DEF Settled
    <3> QED
      BY <3>1, <3>2, <3>3
  <2>4. Required(level, wanted)' = Required(level, desired)
    BY <1>2, <2>1 DEF Required
  <2> QED
    BY <1>2, <1>4, <1>7, <2>1, <2>2, <2>3, <2>4 DEF CountAgrees
<1> QED
  BY <1>5, <1>6, <1>7

\* A tick starts a pause only when the last one is over, and then history's
\* pause starts too.
LEMMA TickPause ==
  ASSUME StressInv, NEW pressure \in Levels, NEW highScore \in BOOLEAN,
         NEW temp \in Temps, FastTick(pressure, highScore, temp)
  PROVE  PauseAgrees' /\ PauseFollowsHeat' /\ NoRaiseInPause'
<1> USE TimeAssumption DEF StressInv, TypeOK, Clock, PauseAgrees
<1>1. /\ now' = now /\ lastTick' = now /\ raisedAt' = raisedAt
      /\ lastTemp' = temp
      /\ pausedUntil' = IF temp = "hot" /\ ~Paused THEN now + PauseDuration
                        ELSE pausedUntil
      /\ lastHot' = IF temp = "hot" THEN now ELSE lastHot
      /\ pauseStart' = IF temp = "hot" /\ StartsPause THEN now ELSE pauseStart
  BY DEF FastTick, UpdateThermalPause, RecordTick
<1>2. StartsPause <=> ~Paused
  BY DEF StartsPause, Paused
<1>3. PauseAgrees'
  BY <1>1, <1>2
<1>4. PauseFollowsHeat'
  BY <1>1 DEF PauseFollowsHeat, Paused
<1>5. NoRaiseInPause'
  BY <1>1 DEF NoRaiseInPause
<1> QED
  BY <1>3, <1>4, <1>5

\* Every tick, boost, reload and advance of the clock keeps the invariant.
LEMMA NextStressInv ==
  ASSUME StressInv, [Next]_vars
  PROVE  StressInv'
<1> USE DEF stressVars, thermalVars, history
<1>1. ASSUME NEW pressure \in Levels, NEW highScore \in BOOLEAN, NEW temp \in Temps,
             FastTick(pressure, highScore, temp)
      PROVE  StressInv'
  <2>1. TypeOK'
    BY <1>1, TickType DEF StressInv
  <2>2. Clock'
    BY <1>1 DEF FastTick, RecordTick, StressInv, TypeOK, Clock
  <2>3. CountAgrees'
    BY <1>1, TickCount
  <2>4. PauseAgrees' /\ PauseFollowsHeat' /\ NoRaiseInPause'
    BY <1>1, TickPause
  <2> QED
    BY <2>1, <2>2, <2>3, <2>4 DEF StressInv
<1>2. ASSUME Boost PROVE StressInv'
  <2>1. TypeOK' /\ Clock'
    BY <1>2 DEF Boost, StressInv, TypeOK, Clock
  <2>2. CountAgrees' /\ PauseAgrees'
    BY <1>2 DEF Boost, StressInv, CountAgrees, PauseAgrees, Required
  <2>3. PauseFollowsHeat'
    BY <1>2 DEF Boost, StressInv, PauseFollowsHeat, Paused
  <2>4. NoRaiseInPause'
    BY <1>2, TimeAssumption
       DEF Boost, MayRaise, StressInv, TypeOK, PauseAgrees, NoRaiseInPause, Paused
  <2> QED
    BY <2>1, <2>2, <2>3, <2>4 DEF StressInv
<1>3. ASSUME Reload PROVE StressInv'
  BY <1>3 DEF Reload, StressInv, TypeOK, Clock, CountAgrees, PauseAgrees,
              PauseFollowsHeat, NoRaiseInPause, Paused, Required
<1>4. ASSUME NEW d \in Jumps, Advance(d) PROVE StressInv'
  <2>1. d \in Nat /\ d > 0 /\ now' = now + d
    BY <1>4, TimeAssumption DEF Advance
  <2>2. TypeOK' /\ Clock'
    BY <1>4, <2>1 DEF Advance, StressInv, TypeOK, Clock
  <2>3. CountAgrees' /\ PauseAgrees' /\ NoRaiseInPause'
    BY <1>4 DEF Advance, StressInv, CountAgrees, PauseAgrees, NoRaiseInPause,
                Required
  <2>4. PauseFollowsHeat'
    BY <1>4, <2>1
       DEF Advance, StressInv, TypeOK, Clock, PauseFollowsHeat, Paused
  <2> QED
    BY <2>2, <2>3, <2>4 DEF StressInv
<1>5. CASE UNCHANGED vars
  BY <1>5 DEF vars, StressInv, TypeOK, Clock, CountAgrees, PauseAgrees,
              PauseFollowsHeat, NoRaiseInPause, Paused, Required
<1> QED
  BY <1>1, <1>2, <1>3, <1>4, <1>5 DEF Next

\* The invariant holds at every time.
THEOREM StressInvariant == Spec => []StressInv
BY InitStressInv, NextStressInv, PTL DEF Spec

\* The level, its pending successor and the times stay what they are.
THEOREM TypeCorrect == Spec => []TypeOK
<1>1. StressInv => TypeOK
  BY DEF StressInv
<1> QED
  BY <1>1, StressInvariant, PTL

\* A tick leaves the level behind the pressure only within the dwell time.
THEOREM PressureIsFollowed == Spec => []PressureFollowed
<1>1. StressInv => PressureFollowed
  BY DEF StressInv, CountAgrees, PressureFollowed
<1> QED
  BY <1>1, StressInvariant, PTL

\* A pause covers the hot readings and ends when it should.
THEOREM PauseIsBounded == Spec => []PauseFollowsHeat
<1>1. StressInv => PauseFollowsHeat
  BY DEF StressInv
<1> QED
  BY <1>1, StressInvariant, PTL

\* No boost of a focus handler or a command raises the governor in a pause.
THEOREM PauseIsRespected == Spec => []NoRaiseInPause
<1>1. StressInv => NoRaiseInPause
  BY DEF StressInv
<1> QED
  BY <1>1, StressInvariant, PTL

\* The level changes only after the dwell time of the transition.
THEOREM DwellIsRespected == Spec => DwellRespected
<1>1. StressInv /\ [Next]_vars =>
        [level' # level /\ steady' =>
           wanted' = level' /\ now - wantedSince' >= Required(level, level')]_vars
  <2> SUFFICES ASSUME StressInv, Next, level' # level, steady'
               PROVE  wanted' = level' /\ now - wantedSince' >= Required(level, level')
    OBVIOUS
  <2>1. PICK pressure \in Levels, highScore \in BOOLEAN, temp \in Temps :
          FastTick(pressure, highScore, temp)
    BY DEF Next, Boost, Reload, Advance, stressVars
  <2> DEFINE desired == Desired(pressure, highScore)
  <2>2. desired \in Levels
    BY DesiredType
  <2>3. /\ Evaluate(desired)
        /\ wanted' = desired
        /\ wantedSince' = IF wanted = desired THEN wantedSince ELSE now
        /\ steady /\ hysteresis
    BY <2>1 DEF FastTick, RecordTick
  <2> HIDE DEF desired
  <2>4. desired # level /\ Settled(desired) /\ level' = desired
    BY <2>3 DEF Evaluate, Cancel
  <2>5. PendingStart(desired) = wantedSince'
    BY <2>2, <2>3, <2>4, CountStart
  <2>6. now - PendingStart(desired) >= Required(level, desired)
    BY <2>3, <2>4 DEF Settled
  <2> QED
    BY <2>3, <2>4, <2>5, <2>6
<1> QED
  BY <1>1, StressInvariant, PTL DEF Spec, DwellRespected
=============================================================================
