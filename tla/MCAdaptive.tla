----------------------------- MODULE MCAdaptive -----------------------------
(* Finite instances of AdaptiveEngine, with built-in profiles. *)
EXTENDS AdaptiveEngine

BuiltinPriority ==
  [p \in Profiles |->
     CASE p = "gaming"        -> 500
       [] p = "battery-saver" -> 450
       [] p = "balanced"      -> 100
       [] p = "idle"          -> 50]
=============================================================================
