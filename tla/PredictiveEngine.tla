-------------------------- MODULE PredictiveEngine --------------------------
(***************************************************************************)
(* intelligence/predictive-engine.js with the functions daemon.js hands    *)
(* it: from the changes of the foreground it has counted it predicts the   *)
(* next application, and warms the machine up for it (all cores on the     *)
(* boost governor, GPU on "performance") for as long as a hold lasts.  One *)
(* hour and one battery bucket; the tables never grow so far that entries  *)
(* are evicted.                                                            *)
(***************************************************************************)
EXTENDS Naturals, FiniteSets, FiniteSetsExt, LayerConstants

CONSTANTS MinObservations,  \* MIN_OBSERVATIONS_TO_PREDICT
          Threshold,        \* PREDICTION_CONFIDENCE_THRESHOLD, in percent
          PredictionHold,   \* PREDICTION_HOLD_MS
          PredictionCooldown,  \* PREDICTION_COOLDOWN_MS
          MaxObservations   \* bound: changes from one application are counted up to here

ASSUME PredictiveAssumption ==
  /\ None \notin Apps
  /\ MinObservations \in Nat \ {0} /\ MaxObservations \in Nat /\ Threshold \in 1..100
  /\ PredictionHold \in Nat \ {0} /\ PredictionCooldown \in Nat

VARIABLES transitions,  \* _transitions: how often an application followed another
          foreground,   \* prevForegroundComm of the daemon
          active,       \* _activePrediction, the application
          snapshot,     \* _activeSnapshot: what preAllocateFn changed
          revertIn,     \* _activeRevertTimer: what is left of the hold, None when cleared
          restIn,       \* what is left of the cooldown
          warmth,       \* the governor of the cores and the GPU's profile
          switchOn,     \* ENABLE_GOVERNOR_SWITCH
          predicting    \* the engine exists
predVars == <<transitions, foreground, active, snapshot, revertIn, restIn, warmth,
              switchOn, predicting>>

PredInit ==
  /\ transitions = [a \in Apps |-> [b \in Apps |-> 0]]
  /\ foreground = None /\ active = None /\ snapshot = None /\ revertIn = None /\ restIn = 0
  /\ warmth = [governor |-> "found", gpu |-> "found"]
  /\ switchOn \in BOOLEAN /\ predicting = TRUE

-----------------------------------------------------------------------------
\* _contextTotals of an application, on the counts t.
Total(t, a) == MapThenSumSet(LAMBDA b : t[a][b], Apps)

\* recordTransition's count; a change between windows of one name is none.
Recorded(from, to) ==
  IF from \in Apps /\ from # to /\ Total(transitions, from) < MaxObservations
    THEN [transitions EXCEPT ![from][to] = @ + 1] ELSE transitions

\* predict: an application that followed most often, of enough observations
\* and sure enough.  Of several the one seen first; the model leaves it open.
Predictions(t, a) ==
  {b \in Apps : /\ Total(t, a) >= MinObservations
                /\ t[a][b] > 0 /\ \A c \in Apps : t[a][c] <= t[a][b]
                /\ t[a][b] * 100 >= Threshold * Total(t, a)}

\* preAllocateFn and revertFn of daemon.js.  The GPU may refuse its profile.  The
\* snapshot says what was changed and not what it was before: revertFn writes one
\* governor and one profile, whatever the machine had.
PreAllocated(gpuOk) ==
  [governor |-> IF switchOn THEN "boost" ELSE warmth.governor,
   gpu |-> IF gpuOk THEN "performance" ELSE warmth.gpu]
Reverted(w, gpuThere) ==
  [governor |-> IF snapshot.governor /\ switchOn THEN "powersave" ELSE w.governor,
   gpu |-> IF snapshot.gpu /\ gpuThere THEN "balanced" ELSE w.gpu]

\* What recordTransition makes of the active prediction when an application
\* comes to the foreground: a hit is handed over, timer and snapshot go and
\* nothing is reverted.  A mutant clears the timer of a miss as well.
Hit(from, to) == active # None /\ active = to /\ from # to
TimerClearedAlways(from, to) == active # None /\ from # to
TimerCleared(from, to) == Hit(from, to)

\* The focus handler of the daemon: recordTransition, then tryPreAllocate for
\* what may follow.
ForegroundBecomes(to) ==
  LET from == foreground
      t == Recorded(from, to)
      free == active = None \/ Hit(from, to)
  IN
  /\ predicting
  /\ transitions' = t /\ foreground' = to
  /\ \/ /\ free /\ restIn = 0
        /\ \E next \in Predictions(t, to), gpuOk \in BOOLEAN :
             /\ active' = next
             /\ snapshot' = [governor |-> switchOn, gpu |-> gpuOk]
             /\ warmth' = PreAllocated(gpuOk)
        /\ revertIn' = PredictionHold /\ restIn' = PredictionCooldown
     \/ /\ ~(free /\ restIn = 0 /\ Predictions(t, to) # {})
        /\ active' = IF Hit(from, to) THEN None ELSE active
        /\ snapshot' = IF Hit(from, to) THEN None ELSE snapshot
        /\ revertIn' = IF TimerCleared(from, to) THEN None ELSE revertIn
        /\ UNCHANGED <<restIn, warmth>>
  /\ UNCHANGED <<switchOn, predicting>>

\* _clearActive(false) when the hold is over.
HoldEnds ==
  /\ predicting /\ revertIn = 0
  /\ warmth' = Reverted(warmth, TRUE)
  /\ active' = None /\ snapshot' = None /\ revertIn' = None
  /\ UNCHANGED <<transitions, foreground, restIn, switchOn, predicting>>

\* The daemon's cleanup: the governors go back to what they were, the resource
\* controllers go, and only then forceRevert runs.
ShutDownPredictive ==
  /\ predicting /\ predicting' = FALSE
  /\ LET restored == [warmth EXCEPT !.governor = "found"]
     IN warmth' = IF snapshot = None THEN restored ELSE Reverted(restored, FALSE)
  /\ active' = None /\ snapshot' = None /\ revertIn' = None /\ foreground' = None
  /\ UNCHANGED <<transitions, restIn, switchOn>>

\* A reload, or the power profile, switches ENABLE_GOVERNOR_SWITCH.
SwitchGovernors ==
  /\ predicting /\ switchOn' = ~switchOn
  /\ UNCHANGED <<transitions, foreground, active, snapshot, revertIn, restIn, warmth, predicting>>

Count(n) == IF n = None \/ n = 0 THEN n ELSE n - 1
PredElapse ==
  /\ predicting /\ revertIn # 0
  /\ revertIn' = Count(revertIn) /\ restIn' = Count(restIn)
  /\ UNCHANGED <<transitions, foreground, active, snapshot, warmth, switchOn, predicting>>

PredNext ==
  \/ \E to \in Apps : ForegroundBecomes(to)
  \/ HoldEnds
  \/ ShutDownPredictive
  \/ SwitchGovernors
  \/ PredElapse

-----------------------------------------------------------------------------
PredTypeOK ==
  /\ transitions \in [Apps -> [Apps -> 0..MaxObservations]]
  /\ foreground \in Apps \cup {None} /\ active \in Apps \cup {None}
  /\ snapshot \in [governor : BOOLEAN, gpu : BOOLEAN] \cup {None}
  /\ revertIn \in 0..PredictionHold \cup {None} /\ restIn \in 0..PredictionCooldown
  /\ warmth \in [governor : {"found", "boost", "powersave"}, gpu : {"found", "performance", "balanced"}]
  /\ switchOn \in BOOLEAN /\ predicting \in BOOLEAN

\* Every pre-allocation ends, however often the foreground changes; one that boosted
\* the governors ends with the application it was made for in the foreground or with
\* the governors at "powersave", unless switching governors was switched off meanwhile;
\* and a daemon that has ended leaves no core boosted.  This is what revertFn does
\* (daemon.js:2326-2336), not what is written of it: predictive-engine.js:33-34 says that
\* the previous state comes back and README.md:57 that every change is rolled back at
\* exit, while "powersave" replaces whatever governor there was, and forceRevert
\* (daemon.js:2600) writes it after restoreAll (daemon.js:2487) has put the first
\* governors back.
PreallocationEnds ==
  /\ active # None ~> active = None
  /\ \A a \in Apps :
       (active = a /\ snapshot.governor) ~>
         \/ active = None /\ (foreground = a \/ warmth.governor = "powersave")
         \/ ~switchOn
  /\ [](~predicting => warmth.governor # "boost")
=============================================================================
