---------------------------- MODULE EventSources ----------------------------
(***************************************************************************)
(* How readings of the daemon become fields of the state store and events  *)
(* of the bus (policy-engine/event-sources.js, state-store.js).  Every     *)
(* update returns the store and the previous values it leaves, the events  *)
(* it emits, in order, and the fields it stores after them; whoever calls  *)
(* it dispatches the events.                                               *)
(***************************************************************************)
EXTENDS Matcher, Sequences, SequencesExt, TLC

CONSTANTS BatteryLow,   \* BATTERY_LOW_THRESHOLD
          ThermalHigh   \* _thermalHighThreshold

VARIABLES store,  \* StateStore, a function on the fields that are set
          prev    \* the previous values of EventSources

NoFields == [f \in {} |-> Undefined]

\* The constructor.
NoPrevious ==
  [battery |-> Undefined, temp |-> Undefined, cpu |-> 0, stress |-> "NORMAL",
   fg |-> Undefined, pids |-> Undefined]

Event(name, payload) == [name |-> name, payload |-> payload]

Update(fields, previous, events) ==
  [store |-> fields @@ store, prev |-> previous, events |-> events, late |-> NoFields]
NoUpdate == Update(NoFields, prev, <<>>)

If(condition, events) == IF condition THEN events ELSE <<>>

UpdateBattery(status) ==
  LET old == prev.battery
      low(b) == b.onBattery /\ b.capacity <= BatteryLow
      level == "capacity" :> status.capacity
  IN IF status = Undefined THEN NoUpdate
     ELSE Update(
       "battery.capacity" :> status.capacity @@ "battery.plugged" :> ~status.onBattery,
       [prev EXCEPT !.battery = status],
       If(old # Undefined /\ old.onBattery # status.onBattery,
          IF status.onBattery
          THEN <<Event("onAcUnplugged", level), Event("onBatteryDischarging", level)>>
          ELSE <<Event("onAcPlugged", level), Event("onBatteryCharging", level)>>)
       \o If(low(status) /\ ~(old # Undefined /\ low(old)),
             <<Event("onBatteryLow", "level" :> status.capacity)>>))

UpdateThermal(temp) ==
  IF temp = Undefined THEN NoUpdate
  ELSE Update("thermal.temp" :> temp,
              [prev EXCEPT !.temp = temp],
              If(temp >= ThermalHigh /\ ~(prev.temp # Undefined /\ prev.temp >= ThermalHigh),
                 <<Event("onThermalHigh", "temp" :> temp)>>))

\* The memory's half is the same with onMemoryPressure and is left out.  The threshold
\* is read anew on every call, so the old pressure is held against the new one.
UpdatePressure(cpu, stress, threshold) ==
  LET was  == prev.cpu >= threshold
      high == cpu >= threshold
      known == cpu # Undefined
  IN Update(
       IF known THEN "cpu.pressure" :> cpu ELSE NoFields,
       [prev EXCEPT !.cpu = IF known THEN cpu ELSE @, !.stress = stress],
       If(known /\ high /\ ~was, <<Event("onCpuHigh", "pressure" :> cpu)>>)
       \o If(known /\ ~high /\ was, <<Event("onCpuNormal", "pressure" :> cpu)>>)
       \o If(stress # prev.stress, <<Event("onStressChanged", "to" :> stress)>>))

UpdateForeground(pid) ==
  IF pid \in {Undefined, prev.fg} THEN NoUpdate
  ELSE Update("foreground.pid" :> pid,
              [prev EXCEPT !.fg = pid],
              <<Event("onForegroundChanged", "pid" :> pid)>>)

\* The first scan only learns the processes.  The count is stored when the events
\* have been dispatched, unlike the fields of the other updates.
UpdateProcesses(pids) ==
  LET known == prev.pids
      about(name, set) ==
        [i \in 1..Cardinality(set) |-> Event(name, "pid" :> SetToSeq(set)[i])]
      events == about("onProcessStarted", pids \ known) \o about("onProcessExited", known \ pids)
  IN [Update(NoFields, [prev EXCEPT !.pids = pids], If(known # Undefined, events))
       EXCEPT !.late = "processes.count" :> Cardinality(pids)]
=============================================================================
