---------------------------- MODULE Recognition ----------------------------
(***************************************************************************)
(* The detectors (detectors/) and the engine that recognises the workload  *)
(* from their events and demands its profile (recognition/).  The daemon   *)
(* runs the detectors on its fast tick, which does not know the name of    *)
(* the foreground process, and on its slow tick, which knows it and        *)
(* nothing of the battery or the network.                                  *)
(***************************************************************************)
EXTENDS Naturals, FiniteSets, LayerConstants

CONSTANTS Class,      \* the workload the classifier gives an application
          IdleTicks   \* DETECTOR_IDLE_THRESHOLD_TICKS

Workloads == {"GAME", "IDE", "COMPILER", "BROWSER", "MULTIMEDIA", "UNKNOWN"}
ASSUME RecognitionAssumption ==
  /\ None \notin Apps /\ Class \in [Apps -> Workloads] /\ IdleTicks \in Nat \ {0}

VARIABLES focus,      \* State.currentForegroundPid
          seen,       \* WorkloadDetector: _lastWorkload, _lastForegroundPid, _lastComm
          power,      \* PowerStateDetector: _lastState
          idle,       \* IdleStateDetector: _state, _idleTicks, _lastForegroundPid
          context,    \* _pendingContext: the class and whether the idle state is IDLE
          debounce,   \* _debounceTimer is set
          ticked,     \* the ticks since it was last possible that it fired
          demanded,   \* _lastDemandedProfile
          running     \* detectors and engine are started
recVars == <<focus, seen, power, idle, context, debounce, ticked, demanded, running>>

RecInit ==
  /\ focus = None
  /\ seen = [workload |-> None, pid |-> None, comm |-> None]
  /\ power = "UNKNOWN"
  /\ idle = [state |-> "ACTIVE", ticks |-> 0, pid |-> None]
  /\ context = None /\ debounce = FALSE /\ ticked = {}
  /\ demanded = None /\ running = TRUE

-----------------------------------------------------------------------------
\* WorkloadDetector.detect: what it has seen and the workload of the event, if
\* there is one.  Without a name it keeps the workload it had for the process.
SeenAs(workload, pid, comm) == [workload |-> workload, pid |-> pid, comm |-> comm]
WorkloadSeen(named) ==
  LET before == IF focus = seen.pid THEN seen.workload ELSE None
  IN CASE focus = None -> SeenAs(None, IF seen.workload = None THEN seen.pid ELSE None, seen.comm)
       [] focus # None /\ named -> SeenAs(Class[focus], focus, focus)
       [] OTHER -> IF before = None THEN SeenAs("UNKNOWN", focus, None)
                                    ELSE SeenAs(before, focus, seen.comm)
WorkloadEvent(named) ==
  LET before == IF focus = seen.pid THEN seen.workload ELSE None
  IN CASE focus = None -> IF seen.workload = None THEN None ELSE "NONE"
       [] focus # None /\ named ->
            IF before = Class[focus] /\ seen.comm = focus THEN None ELSE Class[focus]
       [] OTHER -> IF before = None THEN "UNKNOWN" ELSE None

\* PowerStateDetector.detect: a tick without battery goes back to UNKNOWN,
\* which is a detection without an event; a drift of the capacity by 5 % is an
\* event without a change.
PowerSeen(reading) == IF reading = None THEN "UNKNOWN" ELSE reading
PowerDetected(reading, drift) == PowerSeen(reading) # power \/ (reading # None /\ drift)
PowerEvent(reading, drift) == IF PowerDetected(reading, drift) THEN reading ELSE None

\* IdleStateDetector.detect: quiet says that CPU and network are.
IdleSeen(quiet) ==
  LET calm == quiet /\ (idle.pid = None \/ focus = idle.pid)
      n == IF ~calm THEN 0 ELSE IF idle.ticks < IdleTicks THEN idle.ticks + 1 ELSE idle.ticks
  IN [state |-> IF calm /\ n >= IdleTicks THEN "IDLE" ELSE IF calm THEN idle.state ELSE "ACTIVE",
      ticks |-> n, pid |-> focus]
IdleEvent(quiet) == IF IdleSeen(quiet).state = idle.state THEN None ELSE IdleSeen(quiet).state

-----------------------------------------------------------------------------
\* The handlers of the engine, on the context c that is pending.
HandleWorkload(c, event) ==
  IF event = None THEN c ELSE [class |-> event, idle |-> FALSE]
HandlePowerState(c, event) ==
  IF c # None /\ event = "BATTERY_LOW" THEN [c EXCEPT !.idle = FALSE] ELSE c
OnlyIdle(event) == [class |-> "UNKNOWN", idle |-> event = "IDLE"]
\* A mutant forgets what is pending.
HandleIdleAnew(c, event) == IF event = None THEN c ELSE OnlyIdle(event)
HandleIdleState(c, event) ==
  IF event = None THEN c
  ELSE IF c = None THEN OnlyIdle(event) ELSE [c EXCEPT !.idle = (event = "IDLE")]

\* DetectorManager.tick: the detectors in the order they are registered, and
\* onDetectionTick when one of them detected anything; every event starts the
\* debounce anew.
Detect(named, reading, drift, quiet) ==
  /\ seen' = WorkloadSeen(named)
  /\ power' = PowerSeen(reading)
  /\ idle' = IdleSeen(quiet)
  /\ context' = HandleIdleState(
                  HandlePowerState(HandleWorkload(context, WorkloadEvent(named)),
                                   PowerEvent(reading, drift)),
                  IdleEvent(quiet))
  /\ debounce' = \/ debounce
                 \/ WorkloadEvent(named) # None
                 \/ PowerDetected(reading, drift)
                 \/ IdleEvent(quiet) # None

\* The ticks of the daemon.  Two of one kind are further apart than the
\* debounce lasts with the default times, so it fires between them.
FastTick ==
  /\ running /\ "fast" \notin ticked
  /\ \E reading \in {"AC", "BATTERY", "BATTERY_LOW", None}, drift, quiet \in BOOLEAN :
       Detect(FALSE, reading, drift, quiet)
  /\ ticked' = IF debounce' THEN ticked \cup {"fast"} ELSE {}
  /\ UNCHANGED <<focus, demanded, running>>

\* The process may be gone when the slow tick asks for its name.
SlowTick(named) ==
  /\ running /\ "slow" \notin ticked
  /\ \E quiet \in BOOLEAN : Detect(named, None, FALSE, quiet)
  /\ ticked' = IF debounce' THEN ticked \cup {"slow"} ELSE {}
  /\ UNCHANGED <<focus, demanded, running>>

\* WorkloadRecognizer.recognize: idle is surest (0.90), then the classes that
\* reach the threshold (0.65) with neither a CPU nor a GPU reading in the
\* events; the others stay at 0.50 or below.
Profile(c) ==
  CASE c.idle                                  -> "idle"
    [] ~c.idle /\ c.class = "GAME"              -> "gaming"
    [] ~c.idle /\ c.class \in {"IDE", "COMPILER"} -> "development"
    [] ~c.idle /\ c.class = "BROWSER"           -> "balanced"
    [] OTHER                                   -> None

\* _runRecognition: without a confident detection the demand is withdrawn.
RunRecognition ==
  /\ running /\ debounce /\ debounce' = FALSE /\ ticked' = {}
  /\ demanded' = IF context = None THEN demanded ELSE Profile(context)
  /\ context' = None
  /\ UNCHANGED <<focus, seen, power, idle, running>>

FocusChanges ==
  /\ running /\ \E a \in Apps \cup {None} : a # focus /\ focus' = a
  /\ UNCHANGED <<seen, power, idle, context, debounce, ticked, demanded, running>>

\* The cleanup destroys the detectors and then the engine.
DestroyRecognition ==
  /\ running /\ running' = FALSE
  /\ debounce' = FALSE /\ demanded' = None
  /\ UNCHANGED <<focus, seen, power, idle, context, ticked>>

RecNext == FastTick \/ (\E named \in BOOLEAN : SlowTick(named)) \/ RunRecognition
           \/ FocusChanges \/ DestroyRecognition

-----------------------------------------------------------------------------
RecTypeOK ==
  /\ focus \in Apps \cup {None}
  /\ seen.workload \in Workloads \cup {None} /\ seen.pid \in Apps \cup {None}
  /\ power \in {"UNKNOWN", "AC", "BATTERY", "BATTERY_LOW"}
  /\ idle \in [state : {"ACTIVE", "IDLE"}, ticks : 0..IdleTicks, pid : Apps \cup {None}]
  /\ context = None \/ context \in [class : Workloads \cup {"NONE"}, idle : BOOLEAN]
  /\ debounce \in BOOLEAN /\ ticked \subseteq {"fast", "slow"} /\ running \in BOOLEAN

\* An application whose class is confident has its profile demanded once it
\* came to the foreground and stays there, whatever fast ticks, power events
\* and the end of an idle time do to the events in between, unless the
\* machine is idle with it in front or everything stops.
WorkloadGetsItsProfile ==
  \A a \in Apps :
    (/\ focus = a /\ seen.pid # a
     /\ Profile([class |-> Class[a], idle |-> FALSE]) # None) ~>
      \/ demanded = Profile([class |-> Class[a], idle |-> FALSE])
      \/ focus # a
      \/ idle.state = "IDLE" /\ idle.pid = a
      \/ ~running
=============================================================================
