--------------------------- MODULE OptionalLayers ---------------------------
(***************************************************************************)
(* The layers of daemon.js that are off by default and that a user         *)
(* switches on with an ENABLE_... of their own, and the configuration they *)
(* all read.  Each has its timers and its state, and none calls another    *)
(* except through what is the environment's in its module.  A behaviour    *)
(* has one of them switched on; timers and events of the others do not     *)
(* exist then.                                                             *)
(***************************************************************************)
EXTENDS VramReclaim, ResourceControllers, PredictiveEngine, PluginSdk,
        Recognition, EnergyAccountant, Configuration, ProfileFile

VARIABLE layer   \* the layer whose ENABLE_... is set
layerVars == <<vramVars, rcVars, predVars, sdkVars, recVars, energyVars,
               configVars, profileVars, layer>>

Init ==
  /\ VramInit /\ RcInit /\ PredInit /\ SdkInit /\ RecInit /\ EnergyInit
  /\ ConfigInit /\ ProfileInit
  /\ layer \in {"vram", "controllers", "predictive", "plugins", "recognition", "energy",
               "config", "profiles"}
  /\ layer # "predictive" => switchOn
  /\ layer # "controllers" => gpu.limit = "found"
  /\ layer # "config" => file = None /\ config = DefaultConfig
  /\ layer # "profiles" => profileFile = None

OnlyVram        == UNCHANGED <<rcVars, predVars, sdkVars, recVars, energyVars, configVars, profileVars, layer>>
OnlyControllers == UNCHANGED <<vramVars, predVars, sdkVars, recVars, energyVars, configVars, profileVars, layer>>
OnlyPredictive  == UNCHANGED <<vramVars, rcVars, sdkVars, recVars, energyVars, configVars, profileVars, layer>>
OnlyPlugins     == UNCHANGED <<vramVars, rcVars, predVars, recVars, energyVars, configVars, profileVars, layer>>
OnlyRecognition == UNCHANGED <<vramVars, rcVars, predVars, sdkVars, energyVars, configVars, profileVars, layer>>
OnlyEnergy      == UNCHANGED <<vramVars, rcVars, predVars, sdkVars, recVars, configVars, profileVars, layer>>
OnlyConfig      == UNCHANGED <<vramVars, rcVars, predVars, sdkVars, recVars, energyVars, profileVars, layer>>
OnlyProfiles    == UNCHANGED <<vramVars, rcVars, predVars, sdkVars, recVars, energyVars, configVars, layer>>

Next ==
  \/ layer = "vram"        /\ VramNext   /\ OnlyVram
  \/ layer = "controllers" /\ RcNext     /\ OnlyControllers
  \/ layer = "predictive"  /\ PredNext   /\ OnlyPredictive
  \/ layer = "plugins"     /\ SdkNext    /\ OnlyPlugins
  \/ layer = "recognition" /\ RecNext    /\ OnlyRecognition
  \/ layer = "energy"      /\ EnergyNext /\ OnlyEnergy
  \/ layer = "config"      /\ ConfigNext /\ OnlyConfig
  \/ layer = "profiles"    /\ ProfileNext /\ OnlyProfiles

-----------------------------------------------------------------------------
\* Node's timers fire: the interval of the reclaim, the hold of a
\* pre-allocation, the debounce of the recognition; and time passes.  Of the
\* slow ticks, those that find the name of the foreground process come again
\* and again, although between two of them it may be gone.
TimersFire ==
  /\ WF_layerVars(layer = "vram" /\ VramTicks /\ OnlyVram)
  /\ WF_layerVars(layer = "vram" /\ Elapse /\ OnlyVram)
  /\ WF_layerVars(layer = "predictive" /\ HoldEnds /\ OnlyPredictive)
  /\ WF_layerVars(layer = "predictive" /\ PredElapse /\ OnlyPredictive)
  /\ WF_layerVars(layer = "recognition" /\ RunRecognition /\ OnlyRecognition)
  /\ SF_layerVars(layer = "recognition" /\ SlowTick(TRUE) /\ OnlyRecognition)

Spec == Init /\ [][Next]_layerVars /\ TimersFire
=============================================================================
