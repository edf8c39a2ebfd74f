--------------------------- MODULE AdaptiveEngine ---------------------------
(***************************************************************************)
(* The profile manager with or without the adaptive engine in front of it  *)
(* (adaptive/adaptive-engine.js, adaptive/transition-manager.js).          *)
(*                                                                         *)
(* Without it every event of a detector goes to the profile manager.  With *)
(* it, an event that calls for a profile must pass the cooldown and the    *)
(* oscillation check and then waits out the debounce time; an event that   *)
(* withdraws one goes to the profile manager at once.  An event that does  *)
(* not pass is dropped, and one that arrives during the debounce time      *)
(* replaces the one that waits.                                            *)
(*                                                                         *)
(* The engine's rollback is not modelled: it runs when _forwardToPM throws,*)
(* which catches everything itself.                                        *)
(***************************************************************************)
EXTENDS ProfileManager, Sequences, FiniteSets

CONSTANTS Debounce, Cooldown,    \* ADAPTIVE_DEBOUNCE_MS, ADAPTIVE_COOLDOWN_MS
          Window, Threshold,     \* ADAPTIVE_OSCILLATION_*
          OverrideProfiles,      \* what the user may command
          MaxOverrides,          \* bound on how often
          MaxTime                \* bound on the clock

ASSUME AdaptiveAssumption ==
  /\ Debounce \in Nat \ {0} /\ Cooldown \in Nat
  /\ Window \in Nat /\ Threshold \in Nat
  /\ OverrideProfiles \subseteq Profiles
  /\ MaxOverrides \in Nat /\ MaxTime \in Nat

VARIABLES adaptive,     \* ENABLE_ADAPTIVE_SWITCHING
          pending,      \* the transition that waits out the debounce time
          lastAt,       \* _lastTransitionAt
          recent,       \* _recentTransitions
          override,     \* _userOverrideProfileId
          overrides,    \* how often the user has commanded an override
          (* History: *)
          said,         \* detector -> what its last event called for
          idleSince,    \* when idleness began, without the engine
          successes     \* when the engine announced a successful transition

engineVars == <<pending, lastAt, recent>>
userVars == <<override, overrides>>
heard == <<said, idleSince>>
vars == <<managerVars, now, adaptive, engineVars, userVars, heard, successes>>

NoPending == [src |-> None, from |-> None, to |-> None, due |-> NoTimer]

-----------------------------------------------------------------------------
(* ------------------------- TransitionManager -------------------------- *)

\* No transition within the cooldown of the last one.  (Variant: of one instant
\* less.)
CoolingLess == now - lastAt < Cooldown - 1
CoolingDown == now - lastAt < Cooldown

\* _pruneRecentTransitions
Pruned(transitions) ==
  LET kept[n \in 0 .. Len(transitions)] ==
        IF n = 0 THEN <<>>
        ELSE IF transitions[n].at >= now - Window THEN Append(kept[n - 1], transitions[n])
        ELSE kept[n - 1]
  IN kept[Len(transitions)]

Visits(transitions, p) ==
  Cardinality({i \in DOMAIN transitions : transitions[i].profile = p})

\* _detectOscillation: the target was entered too often in the window, or there
\* were too many transitions in it.  (Variant: only the second test, and one more.)
OscillatingLate(to) == Len(Pruned(recent)) > Threshold
Oscillating(to) ==
  \/ Visits(Pruned(recent), to) >= Threshold \div 2
  \/ Len(Pruned(recent)) >= Threshold

\* recordTransition
Record(to) ==
  /\ lastAt' = now
  /\ recent' = Pruned(Append(recent, [profile |-> to, at |-> now]))

-----------------------------------------------------------------------------
(* --------------------------- AdaptiveEngine --------------------------- *)

\* _handleEvent for an event that calls for a profile
Transition(src, to) ==
  \/ /\ to = active \/ CoolingDown
     /\ UNCHANGED <<pending, recent>>
  \/ /\ to # active /\ ~CoolingDown
     /\ recent' = Pruned(recent)
     /\ pending' = IF Oscillating(to) THEN pending
                   ELSE [src |-> src, from |-> active, to |-> to,
                         due |-> now + Debounce]

\* A detector emits an event.  Those of workload and power repeat when the
\* application or the capacity changes, that of the idle detector never.
Event(src, profile) ==
  /\ src = "idle" => profile # said[src]
  /\ said' = [said EXCEPT ![src] = profile]
  /\ idleSince' = IF src = "idle" /\ ~adaptive THEN now ELSE idleSince
  /\ \/ /\ ~adaptive \/ profile = None
        /\ Handle(src, profile)
        /\ UNCHANGED <<pending, recent>>
     \/ /\ adaptive /\ profile # None
        /\ Transition(src, profile)
        /\ UNCHANGED managerVars
  /\ UNCHANGED <<now, adaptive, lastAt, userVars, successes>>

\* _executeTransition, at the end of the debounce time or later.  What became
\* active is compared with what was when the event came.
DebounceTimer ==
  /\ pending # NoPending /\ now >= pending.due
  /\ Handle(pending.src, pending.to)
  /\ pending' = NoPending
  /\ \/ active' = pending.from /\ UNCHANGED <<lastAt, recent, successes>>
     \/ active' # pending.from /\ Record(active') /\ successes' = successes \cup {now}
  /\ UNCHANGED <<now, adaptive, userVars, heard>>

DemandUserOverride(profile) ==
  /\ adaptive /\ overrides < MaxOverrides
  /\ overrides' = overrides + 1
  /\ override' = profile
  /\ Demand("user", profile)
  /\ Record(profile)
  /\ UNCHANGED <<idleDue, now, adaptive, pending, heard, successes>>

ReleaseUserOverride ==
  /\ adaptive /\ override # None
  /\ override' = None
  /\ Demand("user", None)
  /\ UNCHANGED <<idleDue, now, adaptive, engineVars, overrides, heard, successes>>

IdleTimeoutEnds ==
  /\ IdleTimer
  /\ UNCHANGED <<now, adaptive, engineVars, userVars, heard, successes>>

\* Timers go off one instant late at most.
Advance ==
  /\ now < MaxTime
  /\ \A due \in {idleDue, pending.due} : due # NoTimer => now <= due
  /\ now' = now + 1
  /\ UNCHANGED <<managerVars, adaptive, engineVars, userVars, heard, successes>>

\* The clock of the code counts from 1970: at first it is past any cooldown.
Init ==
  /\ InitManager
  /\ now = Cooldown
  /\ adaptive \in BOOLEAN
  /\ pending = NoPending /\ lastAt = 0 /\ recent = <<>>
  /\ override = None /\ overrides = 0
  /\ said = [src \in Detectors |-> None] /\ idleSince = 0
  /\ successes = {}

Next ==
  \/ \E src \in Detectors : \E profile \in Wanted(src) \cup {None} : Event(src, profile)
  \/ DebounceTimer
  \/ \E profile \in OverrideProfiles : DemandUserOverride(profile)
  \/ ReleaseUserOverride
  \/ IdleTimeoutEnds
  \/ Advance

Spec == Init /\ [][Next]_vars

-----------------------------------------------------------------------------
(* ----------------------------- Properties ----------------------------- *)

Times == 0 .. (MaxTime + Cooldown)
Transitions == [profile : Profiles, at : Times]

\* The types of the variables.
TypeOK ==
  /\ demand \in [Sources -> Profiles \cup {None}] /\ active \in Profiles
  /\ idleDue \in Int /\ now \in Times
  /\ adaptive \in BOOLEAN
  /\ pending \in {NoPending} \cup
       [src : Detectors, from : Profiles, to : Profiles, due : Nat]
  /\ lastAt \in Times /\ recent \in Seq(Transitions)
  /\ override \in Profiles \cup {None} /\ overrides \in 0 .. MaxOverrides
  /\ said \in [Detectors -> Profiles \cup {None}] /\ idleSince \in Times
  /\ successes \subseteq Times

\* Without the engine the active profile is the strongest of what the detectors
\* last called for, whatever came before; idleness counts only once it has lasted
\* for the timeout, and must not count after it has ended.
Calls(idle) ==
  [src \in Sources |->
     IF src = "user" \/ (src = "idle" /\ ~idle) THEN None ELSE said[src]]
ProfileFollowsDetectors ==
  ~adaptive =>
    \/ active = Winner(Calls(FALSE))
    \/ now - idleSince >= IdleTimeout /\ active = Winner(Calls(TRUE))

\* The profile the user has commanded is active until it is released, whatever
\* the detectors say and whichever timers go off, unless a detector demands one
\* that is stronger than ADAPTIVE_USER_OVERRIDE_PRIORITY; ties are the user's.
\* (The comments at config.js:408 and adaptive-engine.js:211-214 and
\* Architecture.md:827 say an override wins all conflicts.  That is so at the
\* default of 1000, but the option may be lower than a profile's priority.)
OverrideWins ==
  override # None =>
    \/ active = override
    \/ /\ Priority[active] > OverridePriority
       /\ \E src \in Detectors : demand[src] = active

\* Two successful transitions announced by the engine are a cooldown and a
\* debounce time apart, also when the user or a withdrawal changes the profile
\* between event and transition.
SuccessesSpaced ==
  [][\A t \in successes : successes' # successes => now - t >= Cooldown + Debounce]_vars

\* The engine announces no more successful transitions in a window than the
\* threshold allows.
NoOscillation ==
  \A t \in successes :
    Cardinality({u \in successes : t <= u /\ u <= t + Window}) <= Threshold

\* With the engine and without it, the profile manager implements
\* ProfileSelection: demands of detectors, transitions that waited, timers and
\* overrides, in whatever order, leave the one profile active that the
\* override commands or, if it is stronger than an override, that is strongest.
Wished == {demand[src] : src \in Detectors} \ {None}
Selection == INSTANCE ProfileSelection WITH commanded <- override, wished <- Wished
ImplementsSelection == Selection!Spec

\* ProfileManager.md: an event without foreground (NONE) withdraws the demand of
\* the workload detector.  No event since then has called for another.
WithdrawnStaysWithdrawn ==
  pending = NoPending /\ said["workload"] = None => demand["workload"] = None
=============================================================================
