--------------------------- MODULE ProfileManager ---------------------------
(***************************************************************************)
(* The profile manager (profiles/profile-manager.js): each source demands  *)
(* at most one profile, the strongest demand decides which is active, and  *)
(* the idle profile is demanded only after a time of idleness.             *)
(*                                                                         *)
(* Profiles are the built-in ones (PROFILE_FILE_PATH is null, its default).*)
(* Their priorities differ.  An override of the user has a priority of its *)
(* own, any from 0 to 1000, and timestamp 0: it wins every tie.  That is   *)
(* all the timestamps of the demands decide, so they are left out.         *)
(***************************************************************************)
EXTENDS Integers

CONSTANTS Profiles,          \* the registered profiles
          None,
          Balanced,          \* the profile without any demand
          Idle,
          WorkloadProfiles,  \* what WORKLOAD_TO_PROFILE yields, null apart
          PowerProfiles,     \* what POWER_TO_PROFILE yields, null apart
          Priority,
          OverridePriority,  \* ADAPTIVE_USER_OVERRIDE_PRIORITY
          IdleTimeout        \* PROFILE_IDLE_TIMEOUT_MS

ASSUME ProfilesAssumption ==
  /\ None \notin Profiles
  /\ {Balanced, Idle} \cup WorkloadProfiles \cup PowerProfiles \subseteq Profiles
  /\ Priority \in [Profiles -> Nat]
  /\ \A p, q \in Profiles : Priority[p] = Priority[q] => p = q
  /\ OverridePriority \in Nat
  /\ IdleTimeout \in Nat

VARIABLES demand,    \* source -> profile, or None
          active,    \* _activeProfileId
          idleDue,   \* when _idleTimer goes off, or NoTimer
          now

managerVars == <<demand, active, idleDue>>

Detectors == {"workload", "power", "idle"}
Sources == Detectors \cup {"user"}
NoTimer == -1

\* What the events of a detector can call for.
Wanted(src) ==
  CASE src = "workload" -> WorkloadProfiles
    [] src = "power"    -> PowerProfiles
    [] src = "idle"     -> {Idle}

Demanding(d) == {src \in Sources : d[src] # None}

\* A demand weighs what its profile does, an override of the user what the
\* configuration says.  (Variant: the override weighs what its profile does.)
ProfileWeight(d, src) == Priority[d[src]]
Weight(d, src) == IF src = "user" THEN OverridePriority ELSE Priority[d[src]]

\* A tie goes to the earliest timestamp, that of the override.
Holds(d, src, other) ==
  \/ Weight(d, src) > Weight(d, other)
  \/ Weight(d, src) = Weight(d, other) /\ (other = "user" => src = "user")

Strongest(d) ==
  CHOOSE src \in Demanding(d) : \A other \in Demanding(d) : Holds(d, src, other)

\* The profile _reevaluate picks.  (Variant: none without a demand.)
WinnerOrNone(d) == IF Demanding(d) = {} THEN None ELSE d[Strongest(d)]
Winner(d) == IF Demanding(d) = {} THEN Balanced ELSE d[Strongest(d)]

\* demand(src, profile), profile being None to withdraw: the demand and the
\* choice that follows.  Errors of the controllers are swallowed in
\* _applySettings, so an activation always counts as done.  (Variant: a
\* withdrawal does not choose again.)
DemandStays(src, profile) ==
  /\ demand' = [demand EXCEPT ![src] = profile]
  /\ active' = IF profile = None THEN active ELSE Winner(demand')
Demand(src, profile) ==
  /\ demand' = [demand EXCEPT ![src] = profile]
  /\ active' = Winner(demand')

\* _handleIdleState: idleness starts the timer anew, activity cancels it and
\* withdraws the demand.  (Variant: activity leaves the timer running.)
IdleKeepsTimer(profile) ==
  \/ profile # None /\ idleDue' = now + IdleTimeout /\ UNCHANGED <<demand, active>>
  \/ profile = None /\ Demand("idle", None) /\ UNCHANGED idleDue
HandleIdleState(profile) ==
  \/ profile # None /\ idleDue' = now + IdleTimeout /\ UNCHANGED <<demand, active>>
  \/ profile = None /\ Demand("idle", None) /\ idleDue' = NoTimer

\* _handleWorkload, _handlePowerState, _handleIdleState
Handle(src, profile) ==
  \/ src = "idle" /\ HandleIdleState(profile)
  \/ src # "idle" /\ Demand(src, profile) /\ UNCHANGED idleDue

\* The idle timer goes off, at its time or later.
IdleTimer ==
  /\ idleDue # NoTimer /\ now >= idleDue
  /\ Demand("idle", Idle)
  /\ idleDue' = NoTimer

\* start() has activated the default profile.
InitManager ==
  /\ demand = [src \in Sources |-> None]
  /\ active = Balanced
  /\ idleDue = NoTimer
=============================================================================
