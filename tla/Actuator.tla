------------------------------ MODULE Actuator ------------------------------
(***************************************************************************)
(* The facade of actuator.js over the per-process controllers, as pure     *)
(* operators on the attributes the kernel keeps for one process:           *)
(*                                                                         *)
(*   place  which cgroup holds it, or (the fallback) which cores taskset   *)
(*          pinned it to; exactly one of the two is used in a run, and it  *)
(*          is chosen by cgroupsReady, so one field stands for both        *)
(*   nice   renice        io  ionice        oom  oom_score_adj             *)
(*                                                                         *)
(* The numbers behind "boost" and "bg" come from classifier.js and the     *)
(* configuration and no property depends on them.  A write to a process    *)
(* that has died fails and changes nothing; the caller says whether the    *)
(* process is alive.                                                       *)
(***************************************************************************)

CONSTANT OomProtection    \* ENABLE_OOM_PROTECTION

ASSUME OomAssumption == OomProtection \in BOOLEAN

Attributes == [place : {"base", "fg", "bg"},
               nice  : {"zero", "boost", "bg"},
               io    : {"default", "boost", "bg"},
               oom   : {"zero", "protected"}]

\* What restoreProcess calls the neutral state, and what a process that
\* nobody modified has.
Neutral == [place |-> "base", nice |-> "zero", io |-> "default", oom |-> "zero"]

\* _executeBoost: GameMode keeps its own niceness, and only niceness.
Boosted(attr, gameMode) ==
  [place |-> "fg",
   nice  |-> IF gameMode THEN attr.nice ELSE "boost",
   io    |-> "boost",
   oom   |-> IF OomProtection THEN "protected" ELSE attr.oom]

\* _executeThrottle leaves oom_score_adj alone.
Throttled(attr) == [attr EXCEPT !.place = "bg", !.nice = "bg", !.io = "bg"]

\* What a throttle that is cut short leaves: its commands run in this order.
ThrottledUpTo(attr) ==
  {[attr EXCEPT !.place = "bg"],
   [attr EXCEPT !.place = "bg", !.nice = "bg"],
   Throttled(attr)}

\* restoreProcess resets oom_score_adj only when the modification log holds an
\* oom_score_adj entry for the pid.
Restored(attr, oomLogged) ==
  [Neutral EXCEPT !.oom = IF oomLogged THEN "zero" ELSE attr.oom]
=============================================================================
