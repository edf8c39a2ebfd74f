--------------------------- MODULE AdaptiveProofs ---------------------------
(***************************************************************************)
(* Proofs about AdaptiveEngine: an override wins, without the engine the   *)
(* profile follows the detectors, announced successes are spaced and few,  *)
(* the whole implements ProfileSelection, and every variable stays in its  *)
(* type.                                                                   *)
(***************************************************************************)
EXTENDS AdaptiveEngine, ListLemmas, TLAPS

ProfileOrNone == Profiles \cup {None}

\* The types the proofs need.
Types ==
  /\ demand \in [Sources -> ProfileOrNone]
  /\ said \in [Detectors -> ProfileOrNone] /\ said["idle"] \in {None, Idle}
  /\ override \in ProfileOrNone
  /\ adaptive \in BOOLEAN
  /\ now \in Nat /\ lastAt \in Nat /\ idleSince \in Nat /\ idleDue \in Int
  /\ successes \subseteq Nat
  /\ pending = NoPending \/ /\ pending.src \in Detectors
                            /\ pending.to \in Wanted(pending.src)
                            /\ pending.due \in Nat

\* The active profile is that of the strongest demand, and the user's demand is
\* the override.
Chosen == active = Winner(demand) /\ demand["user"] = override

\* Every success is recorded, and what waits came a cooldown after the last.
Spaced ==
  /\ lastAt <= now
  /\ \A t \in successes : t <= lastAt
  /\ pending # NoPending =>
       \A t \in successes : t + Cooldown + Debounce <= pending.due

\* Without the engine nothing waits and the demands are what was said, that of
\* idleness once it has lasted; the timer knows when.
Direct ==
  ~adaptive =>
    /\ pending = NoPending /\ override = None
    /\ demand["workload"] = said["workload"]
    /\ demand["power"] = said["power"]
    /\ demand["idle"] \in {None, said["idle"]}
    /\ demand["idle"] # None => now - idleSince >= IdleTimeout
    /\ idleDue # NoTimer =>
         said["idle"] = Idle /\ idleDue = idleSince + IdleTimeout

Inv == Types /\ Chosen /\ Spaced /\ Direct

\* A strongest demand exists, and whether a demand is strongest shows in its
\* profile, unless it is the user's.
LEMMA StrongestHolds ==
  ASSUME NEW d \in [Sources -> ProfileOrNone], Demanding(d) # {}
  PROVE  /\ Strongest(d) \in Demanding(d)
         /\ \A other \in Demanding(d) : Holds(d, Strongest(d), other)
<1>1. \A src \in Demanding(d) : Weight(d, src) \in Nat
  BY ProfilesAssumption DEF Demanding, ProfileOrNone, Weight
<1>2. Demanding(d) \subseteq {"workload", "power", "idle", "user"}
  BY DEF Demanding, Sources, Detectors
<1>3. \E src \in Demanding(d) : \A other \in Demanding(d) : Holds(d, src, other)
  <2>1. CASE /\ "user" \in Demanding(d)
             /\ \A other \in Demanding(d) : Weight(d, "user") >= Weight(d, other)
    BY <1>1, <2>1 DEF Holds
  <2>2. CASE ~(/\ "user" \in Demanding(d)
               /\ \A other \in Demanding(d) : Weight(d, "user") >= Weight(d, other))
    <3>1. \E src \in Demanding(d) :
            \A other \in Demanding(d) : Weight(d, src) >= Weight(d, other)
      BY <1>1, <1>2
    <3>2. PICK src \in Demanding(d) :
            \A other \in Demanding(d) : Weight(d, src) >= Weight(d, other)
      BY <3>1
    <3>3. "user" \in Demanding(d) => Weight(d, src) > Weight(d, "user")
      BY <1>1, <2>2, <3>2
    <3> QED
      BY <1>1, <3>2, <3>3 DEF Holds
  <2> QED
    BY <2>1, <2>2
<1> QED
  BY <1>3 DEF Strongest

LEMMA WantedTypes ==
  ASSUME NEW src \in Detectors
  PROVE  Wanted(src) \subseteq Profiles
BY ProfilesAssumption DEF Wanted, Detectors

\* A handler of the profile manager keeps types and choice, and the demand of the
\* user.
LEMMA HandleKeeps ==
  ASSUME Types, Chosen, NEW src \in Detectors, NEW p \in ProfileOrNone,
         Handle(src, p), override' = override
  PROVE  /\ demand' \in [Sources -> ProfileOrNone]
         /\ idleDue' \in Int
         /\ Chosen'
<1>1. CASE src = "idle" /\ p # None
  BY <1>1, ProfilesAssumption
     DEF Handle, HandleIdleState, Types, Chosen, Demand
<1>2. CASE src = "idle" /\ p = None
  BY <1>2 DEF Handle, HandleIdleState, Types, Chosen, Demand, NoTimer, Sources, Detectors
<1>3. CASE src # "idle"
  BY <1>3 DEF Handle, Types, Chosen, Demand, Sources, Detectors
<1> QED
  BY <1>1, <1>2, <1>3

LEMMA InitInv == Init => Inv
<1> SUFFICES ASSUME Init PROVE Inv
  OBVIOUS
<1> USE AdaptiveAssumption, ProfilesAssumption DEF Init, InitManager
<1>1. Types
  BY DEF Types, ProfileOrNone, NoTimer, Detectors
<1>2. Chosen
  BY DEF Chosen, Winner, Demanding, Sources, Detectors
<1>3. Spaced
  BY DEF Spaced
<1>4. Direct
  BY DEF Direct, Sources, Detectors
<1> QED
  BY <1>1, <1>2, <1>3, <1>4 DEF Inv

\* An event handled by the profile manager: without the engine it is what was said
\* last.
LEMMA HandledEvent ==
  ASSUME Inv, NEW src \in Detectors, NEW p \in Wanted(src) \cup {None},
         Event(src, p), ~adaptive \/ p = None
  PROVE  Inv'
<1> USE AdaptiveAssumption, ProfilesAssumption DEF Inv
<1>1. p \in ProfileOrNone /\ (p # None => p \in Wanted(src))
  BY WantedTypes DEF ProfileOrNone
<1>2. /\ Handle(src, p) /\ UNCHANGED <<pending, recent>>
      /\ UNCHANGED <<now, adaptive, lastAt, override, overrides, successes>>
      /\ said' = [said EXCEPT ![src] = p]
      /\ idleSince' = IF src = "idle" /\ ~adaptive THEN now ELSE idleSince
  BY <1>1 DEF Event, Transition, userVars
<1>3. /\ demand' \in [Sources -> ProfileOrNone] /\ idleDue' \in Int
      /\ Chosen'
  BY <1>1, <1>2, HandleKeeps
<1>4. Types'
  <2>1. idleSince' \in Nat
    BY <1>2 DEF Types
  <2>2. said' \in [Detectors -> ProfileOrNone]
    BY <1>1, <1>2 DEF Types
  <2>3. said'["idle"] \in {None, Idle}
    BY <1>1, <1>2 DEF Types, Wanted, Detectors
  <2> QED
    BY <1>2, <1>3, <2>1, <2>2, <2>3 DEF Types
<1>5. Spaced'
  BY <1>2 DEF Spaced
<1>6. ASSUME ~adaptive PROVE Direct'
  <2> USE <1>6
  <2>1. CASE src = "idle" /\ p = None
    <3>1. /\ demand' = [demand EXCEPT !["idle"] = None] /\ idleDue' = NoTimer
          /\ said' = [said EXCEPT !["idle"] = None]
      BY <1>2, <2>1 DEF Handle, HandleIdleState, Demand
    <3>2. /\ demand'["idle"] = None
          /\ demand'["workload"] = demand["workload"]
          /\ demand'["power"] = demand["power"]
          /\ said'["workload"] = said["workload"] /\ said'["power"] = said["power"]
      BY <3>1 DEF Types, Sources, Detectors
    <3> QED
      BY <1>2, <3>1, <3>2 DEF Direct
  <2>2. CASE src = "idle" /\ p # None
    <3>1. p = Idle
      BY <1>1, <2>2 DEF Wanted
    <3>2. /\ demand' = demand /\ idleDue' = now + IdleTimeout
          /\ said' = [said EXCEPT !["idle"] = Idle] /\ idleSince' = now
      BY <1>2, <2>2, <3>1 DEF Handle, HandleIdleState
    <3>3. /\ said'["idle"] = Idle
          /\ said'["workload"] = said["workload"] /\ said'["power"] = said["power"]
      BY <3>2 DEF Types, Detectors
    <3>4. said["idle"] # p
      BY <2>2 DEF Event
    <3>5. demand["idle"] \in {None, said["idle"]}
      BY DEF Direct
    <3>6. said["idle"] = None
      BY <3>1, <3>4 DEF Types
    <3> QED
      BY <1>2, <3>2, <3>3, <3>5, <3>6 DEF Direct
  <2>3. CASE src # "idle"
    <3>1. /\ demand' = [demand EXCEPT ![src] = p] /\ idleDue' = idleDue
          /\ idleSince' = idleSince
      BY <1>2, <2>3 DEF Handle, Demand
    <3>2. /\ demand'["idle"] = demand["idle"] /\ said'["idle"] = said["idle"]
          /\ demand'["workload"] = said'["workload"]
          /\ demand'["power"] = said'["power"]
      BY <1>2, <2>3, <3>1 DEF Types, Sources, Detectors, Direct
    <3> QED
      BY <1>2, <3>1, <3>2 DEF Direct
  <2> QED
    BY <2>1, <2>2, <2>3
<1> QED
  BY <1>2, <1>3, <1>4, <1>5, <1>6 DEF Direct

\* Every step keeps the invariant.
LEMMA NextInv ==
  ASSUME Inv, [Next]_vars
  PROVE  Inv'
<1> USE AdaptiveAssumption, ProfilesAssumption DEF Inv, managerVars, engineVars, userVars, heard
<1>1. ASSUME NEW src \in Detectors, NEW p \in Wanted(src) \cup {None}, Event(src, p)
      PROVE  Inv'
  <2>1. CASE ~adaptive \/ p = None
    BY <1>1, <2>1, HandledEvent
  <2>2. CASE adaptive /\ p # None
    <3>1. p \in Wanted(src) /\ p \in ProfileOrNone
      BY <1>1, <2>2, WantedTypes DEF ProfileOrNone
    <3>2. /\ Transition(src, p) /\ UNCHANGED <<demand, active, idleDue>>
          /\ UNCHANGED <<now, adaptive, lastAt, override, overrides, successes>>
          /\ said' = [said EXCEPT ![src] = p]
          /\ idleSince' = idleSince
      BY <1>1, <2>2 DEF Event
    <3>3. \/ pending' = pending
          \/ /\ pending' = [src |-> src, from |-> active, to |-> p,
                            due |-> now + Debounce]
             /\ now - lastAt >= Cooldown
      <4>1. CASE p = active \/ CoolingDown
        BY <3>2, <4>1 DEF Transition
      <4>2. CASE p # active /\ ~CoolingDown
        BY <3>2, <4>2 DEF Transition, CoolingDown, Types
      <4> QED
        BY <4>1, <4>2
    <3>4. Types'
      <4>1. said' \in [Detectors -> ProfileOrNone] /\ said'["idle"] \in {None, Idle}
        BY <3>1, <3>2 DEF Types, Wanted, Detectors
      <4>2. pending' = NoPending \/ /\ pending'.src \in Detectors
                                    /\ pending'.to \in Wanted(pending'.src)
                                    /\ pending'.due \in Nat
        <5>1. CASE pending' = pending
          BY <5>1 DEF Types
        <5>2. CASE pending' = [src |-> src, from |-> active, to |-> p,
                               due |-> now + Debounce]
          BY <3>1, <5>2 DEF Types
        <5> QED
          BY <3>3, <5>1, <5>2
      <4> QED
        BY <3>2, <4>1, <4>2 DEF Types
    <3>5. Chosen'
      BY <3>2 DEF Chosen
    <3>6. Spaced'
      <4>1. CASE pending' = pending
        BY <3>2, <4>1 DEF Spaced
      <4>2. CASE /\ pending' = [src |-> src, from |-> active, to |-> p,
                                due |-> now + Debounce]
                 /\ now - lastAt >= Cooldown
        <5>1. pending'.due = now + Debounce
          BY <4>2
        <5> SUFFICES ASSUME NEW t \in successes
                     PROVE  t + Cooldown + Debounce <= now + Debounce
          BY <3>2, <5>1 DEF Spaced
        <5> QED
          BY <4>2 DEF Spaced, Types
      <4> QED
        BY <3>3, <4>1, <4>2
    <3>7. Direct'
      BY <2>2, <3>2 DEF Direct
    <3> QED
      BY <3>4, <3>5, <3>6, <3>7
  <2> QED
    BY <2>1, <2>2 DEF Types
<1>2. ASSUME DebounceTimer PROVE Inv'
  <2>1. /\ pending.src \in Detectors /\ pending.to \in ProfileOrNone
        /\ pending.due \in Nat /\ now >= pending.due
    BY <1>2, WantedTypes DEF DebounceTimer, Types, ProfileOrNone
  <2>2. adaptive
    BY <1>2 DEF DebounceTimer, Direct, Types
  <2>3. /\ demand' \in [Sources -> ProfileOrNone] /\ idleDue' \in Int
        /\ Chosen'
    BY <1>2, <2>1, HandleKeeps DEF DebounceTimer
  <2>4. /\ UNCHANGED <<now, adaptive, override, said, idleSince>>
        /\ pending' = NoPending
        /\ \/ UNCHANGED <<lastAt, successes>>
           \/ lastAt' = now /\ successes' = successes \cup {now}
    BY <1>2 DEF DebounceTimer, Record
  <2>5. Types'
    BY <2>3, <2>4 DEF Types
  <2>6. Spaced'
    <3>1. CASE UNCHANGED <<lastAt, successes>>
      BY <2>4, <3>1 DEF Spaced
    <3>2. CASE lastAt' = now /\ successes' = successes \cup {now}
      <4>1. \A t \in successes' : t <= now
        BY <3>2 DEF Spaced, Types
      <4> QED
        BY <2>4, <3>2, <4>1 DEF Types, Spaced
    <3> QED
      BY <2>4, <3>1, <3>2
  <2>7. Direct'
    BY <2>2, <2>4 DEF Direct
  <2> QED
    BY <2>3, <2>5, <2>6, <2>7
<1>3. ASSUME NEW p \in OverrideProfiles, DemandUserOverride(p) PROVE Inv'
  <2>1. /\ override' = p /\ demand' = [demand EXCEPT !["user"] = p]
        /\ active' = Winner(demand') /\ lastAt' = now /\ adaptive
        /\ UNCHANGED <<idleDue, now, adaptive, pending, said, idleSince, successes>>
    BY <1>3 DEF DemandUserOverride, Demand, Record
  <2>2. p \in ProfileOrNone
    BY DEF ProfileOrNone
  <2>3. Types'
    BY <2>1, <2>2 DEF Types, Sources
  <2>4. Chosen'
    BY <2>1 DEF Chosen, Types, Sources
  <2>5. Spaced' /\ Direct'
    BY <2>1 DEF Spaced, Direct, Types
  <2> QED
    BY <2>3, <2>4, <2>5
<1>4. ASSUME ReleaseUserOverride PROVE Inv'
  <2>1. /\ override' = None /\ demand' = [demand EXCEPT !["user"] = None]
        /\ active' = Winner(demand') /\ adaptive
        /\ UNCHANGED <<idleDue, now, adaptive, pending, lastAt, said, idleSince,
                       successes>>
    BY <1>4 DEF ReleaseUserOverride, Demand
  <2>2. Types'
    BY <2>1 DEF Types, Sources, ProfileOrNone
  <2>3. Chosen'
    BY <2>1 DEF Chosen, Types, Sources
  <2>4. Spaced' /\ Direct'
    BY <2>1 DEF Spaced, Direct
  <2> QED
    BY <2>2, <2>3, <2>4
<1>5. ASSUME IdleTimeoutEnds PROVE Inv'
  <2>1. /\ idleDue # NoTimer /\ now >= idleDue /\ idleDue' = NoTimer
        /\ demand' = [demand EXCEPT !["idle"] = Idle] /\ active' = Winner(demand')
        /\ UNCHANGED <<now, adaptive, pending, lastAt, override, said, idleSince,
                       successes>>
    BY <1>5 DEF IdleTimeoutEnds, IdleTimer, Demand
  <2>2. /\ demand' \in [Sources -> ProfileOrNone]
        /\ demand'["idle"] = Idle /\ demand'["user"] = demand["user"]
        /\ demand'["workload"] = demand["workload"]
        /\ demand'["power"] = demand["power"]
    BY <2>1 DEF Types, Sources, Detectors, ProfileOrNone
  <2>3. Types' /\ Chosen' /\ Spaced'
    BY <2>1, <2>2 DEF Types, Chosen, Spaced, NoTimer
  <2>4. Direct'
    BY <2>1, <2>2 DEF Direct, Types
  <2> QED
    BY <2>3, <2>4
<1>6. ASSUME Advance PROVE Inv'
  <2>1. /\ now' = now + 1
        /\ UNCHANGED <<demand, active, idleDue, adaptive, pending, lastAt, override,
                       said, idleSince, successes>>
    BY <1>6 DEF Advance
  <2>2. Types' /\ Chosen' /\ Spaced'
    BY <2>1 DEF Types, Chosen, Spaced
  <2>3. Direct'
    BY <2>1 DEF Direct, Types
  <2> QED
    BY <2>2, <2>3
<1>7. CASE UNCHANGED vars
  BY <1>7 DEF vars, Types, Chosen, Spaced, Direct
<1> QED
  BY <1>1, <1>2, <1>3, <1>4, <1>5, <1>6, <1>7 DEF Next

LEMMA AlwaysInv == Spec => []Inv
<1>1. Init => Inv
  BY InitInv
<1>2. Inv /\ [Next]_vars => Inv'
  BY NextInv
<1> QED
  BY <1>1, <1>2, PTL DEF Spec

\* The profile the user has commanded stays active until it is released, unless a
\* detector demands one that is stronger than an override: for any priority of
\* overrides.
THEOREM UserOverrideWins == Spec => []OverrideWins
<1>1. Inv => OverrideWins
  <2> SUFFICES ASSUME Inv, override # None, active # override
               PROVE  /\ Priority[active] > OverridePriority
                      /\ \E src \in Detectors : demand[src] = active
    BY DEF OverrideWins
  <2>1. /\ demand \in [Sources -> ProfileOrNone] /\ demand["user"] = override
        /\ active = Winner(demand)
    BY DEF Inv, Types, Chosen
  <2>2. "user" \in Demanding(demand)
    BY <2>1 DEF Demanding, Sources
  <2>3. active = demand[Strongest(demand)]
    BY <2>1, <2>2 DEF Winner
  <2>4. /\ Strongest(demand) \in Demanding(demand)
        /\ Holds(demand, Strongest(demand), "user")
    BY <2>1, <2>2, StrongestHolds
  <2>5. Strongest(demand) \in Detectors
    BY <2>1, <2>3, <2>4 DEF Demanding, Sources
  <2>6. Strongest(demand) # "user"
    BY <2>1, <2>3
  <2> QED
    BY <2>3, <2>4, <2>5, <2>6 DEF Holds, Weight
<1> QED
  BY <1>1, AlwaysInv, PTL

\* Announced successes are a cooldown and a debounce time apart.
THEOREM SuccessesAreSpaced == Spec => SuccessesSpaced
<1>1. Inv /\ [Next]_vars =>
        [\A t \in successes : successes' # successes => now - t >= Cooldown + Debounce]_vars
  <2> SUFFICES ASSUME Inv, [Next]_vars, NEW t \in successes, successes' # successes
               PROVE  now - t >= Cooldown + Debounce
    OBVIOUS
  <2>1. DebounceTimer
    BY DEF Next, vars, Event, DemandUserOverride, ReleaseUserOverride, IdleTimeoutEnds,
           Advance
  <2>2. pending # NoPending /\ now >= pending.due /\ pending.due \in Nat
    BY <2>1 DEF DebounceTimer, Inv, Types
  <2> QED
    BY <2>2, AdaptiveAssumption DEF Inv, Types, Spaced
<1> QED
  BY <1>1, AlwaysInv, PTL DEF Spec, SuccessesSpaced

\* Without the engine the active profile is the strongest of what the detectors
\* called for.
THEOREM FollowsDetectors == Spec => []ProfileFollowsDetectors
<1>1. Inv => ProfileFollowsDetectors
  <2> SUFFICES ASSUME Inv, ~adaptive
               PROVE  \/ active = Winner(Calls(FALSE))
                      \/ now - idleSince >= IdleTimeout /\ active = Winner(Calls(TRUE))
    BY DEF ProfileFollowsDetectors
  <2>1. demand \in [Sources -> ProfileOrNone] /\ demand["user"] = None
    BY DEF Inv, Types, Chosen, Direct
  <2>2. CASE demand["idle"] = None
    <3>1. demand = Calls(FALSE)
      BY <2>1, <2>2 DEF Inv, Direct, Calls, Sources, Detectors
    <3> QED
      BY <3>1 DEF Inv, Chosen
  <2>3. CASE demand["idle"] # None
    <3>1. demand = Calls(TRUE)
      BY <2>1, <2>3 DEF Inv, Direct, Calls, Sources, Detectors
    <3> QED
      BY <2>3, <3>1 DEF Inv, Chosen, Direct
  <2> QED
    BY <2>2, <2>3
<1> QED
  BY <1>1, AlwaysInv, PTL

-----------------------------------------------------------------------------
\* The wishes of the demands d.
WishedOf(d) == {d[src] : src \in Detectors} \ {None}

\* The winner is what a selection chooses.
LEMMA WinnerIsChoice ==
  ASSUME NEW d \in [Sources -> ProfileOrNone]
  PROVE  Winner(d) = Selection!Choice(d["user"], WishedOf(d))
<1> DEFINE S == WishedOf(d)
           best == Strongest(d)
           Top(p) == p \in S /\ \A q \in S : Priority[p] >= Priority[q]
<1>1. S \subseteq Profiles /\ None \notin S
  BY DEF WishedOf, ProfileOrNone, Sources
<1>2. /\ \A src \in Demanding(d) \ {"user"} :
            d[src] \in S /\ Weight(d, src) = Priority[d[src]]
      /\ \A q \in S : \E src \in Demanding(d) \ {"user"} : q = d[src]
  BY DEF Demanding, Sources, WishedOf, Weight, Detectors
<1>3. "user" \in Demanding(d) <=> d["user"] # None
  BY DEF Demanding, Sources
<1>4. Weight(d, "user") = OverridePriority
  BY DEF Weight
<1>5. OverridePriority \in Nat /\ \A p \in S : Priority[p] \in Nat
  BY <1>1, ProfilesAssumption
<1>6. CASE Demanding(d) = {}
  <2>1. S = {} /\ d["user"] = None
    BY <1>2, <1>3, <1>6
  <2> QED
    BY <1>6, <2>1 DEF Winner, Selection!Choice, Selection!Best
<1>7. CASE Demanding(d) # {}
  <2>1. best \in Demanding(d) /\ \A other \in Demanding(d) : Holds(d, best, other)
    BY <1>7, StrongestHolds
  <2>2. Winner(d) = d[best]
    BY <1>7 DEF Winner
  <2> HIDE DEF S, best
  <2>3. CASE best = "user"
    <3>1. d["user"] # None
      BY <1>3, <2>1, <2>3
    <3>2. ASSUME NEW q \in S PROVE Priority[q] <= OverridePriority
      <4>1. PICK src \in Demanding(d) \ {"user"} : q = d[src]
        BY <1>2
      <4>2. Holds(d, "user", src) /\ Weight(d, src) = Priority[q]
        BY <1>2, <2>1, <2>3, <4>1
      <4> QED
        BY <1>4, <1>5, <4>2 DEF Holds
    <3> QED
      BY <2>2, <2>3, <3>1, <3>2 DEF Selection!Choice, S
  <2>4. CASE best # "user"
    <3>1. d[best] \in S /\ Weight(d, best) = Priority[d[best]]
      BY <1>2, <2>1, <2>4
    <3>2. d["user"] # None => Priority[d[best]] > OverridePriority
      BY <1>3, <1>4, <2>1, <2>4, <3>1 DEF Holds
    <3>3. ASSUME NEW q \in S PROVE Priority[d[best]] >= Priority[q]
      <4>1. PICK src \in Demanding(d) \ {"user"} : q = d[src]
        BY <1>2
      <4>2. Holds(d, best, src) /\ Weight(d, src) = Priority[q]
        BY <1>2, <2>1, <4>1
      <4> QED
        BY <1>5, <3>1, <4>2 DEF Holds
    <3>4. Top(d[best])
      BY <3>1, <3>3
    <3>5. \A p, q : Top(p) /\ Top(q) => p = q
      BY <1>1, ProfilesAssumption
    <3>6. S # {} /\ Selection!Best(S) = CHOOSE p \in S : \A q \in S : Priority[p] >= Priority[q]
      BY <3>1 DEF Selection!Best
    <3>7. Top(Selection!Best(S))
      BY <3>4, <3>6
    <3>8. Selection!Best(S) = d[best]
      BY <3>4, <3>5, <3>7
    <3>9. Selection!Choice(d["user"], S) = Selection!Best(S)
      BY <1>5, <3>1, <3>2 DEF Selection!Choice
    <3> QED
      BY <2>2, <3>8, <3>9 DEF S
  <2> QED
    BY <2>3, <2>4
<1> QED
  BY <1>6, <1>7

\* The demand of a detector is a change of the wishes.
LEMMA DemandChangesWishes ==
  ASSUME Types, Chosen, Chosen', NEW src \in Detectors, NEW p \in ProfileOrNone,
         Demand(src, p), override' = override
  PROVE  Selection!WishesChange
<1>1. demand' = [demand EXCEPT ![src] = p] /\ active' = Winner(demand')
  BY DEF Demand
<1>2. demand' \in [Sources -> ProfileOrNone]
  BY <1>1 DEF Types, Sources
<1>3. Wished = WishedOf(demand) /\ Wished' = WishedOf(demand')
  BY DEF Wished, WishedOf
<1>4. /\ \A q \in Wished \ Wished' : q = demand[src]
      /\ \A q \in Wished' \ Wished : q = p
  BY <1>1, <1>2 DEF Wished, Types, Sources
<1>5. Wished \subseteq Profiles /\ Wished' \subseteq Profiles
  BY <1>2, <1>3 DEF WishedOf, Types, ProfileOrNone, Sources
<1>6. \E gone, come \in SUBSET Profiles :
        /\ \A q, r \in gone : q = r
        /\ \A q, r \in come : q = r
        /\ Wished' = (Wished \ gone) \cup come
  <2>1. Wished' = (Wished \ (Wished \ Wished')) \cup (Wished' \ Wished)
    OBVIOUS
  <2>2. Wished \ Wished' \in SUBSET Profiles /\ Wished' \ Wished \in SUBSET Profiles
    BY <1>5
  <2>3. /\ \A q, r \in Wished \ Wished' : q = r
        /\ \A q, r \in Wished' \ Wished : q = r
    BY <1>4
  <2> QED
    BY <2>1, <2>2, <2>3
<1>7. active' = Selection!Choice(override, Wished')
  <2>1. demand'["user"] = override
    BY DEF Chosen
  <2> QED
    BY <1>1, <1>2, <1>3, <2>1, WinnerIsChoice
<1> QED
  BY <1>6, <1>7 DEF Selection!WishesChange

\* What a handler does is that, or nothing that shows.
LEMMA HandleImplements ==
  ASSUME Types, Chosen, Chosen', NEW src \in Detectors, NEW p \in ProfileOrNone,
         Handle(src, p), override' = override
  PROVE  [Selection!Next]_Selection!selectionVars
<1>1. CASE Demand(src, p)
  BY <1>1, DemandChangesWishes DEF Selection!Next
<1>2. CASE UNCHANGED <<demand, active>>
  BY <1>2 DEF Selection!selectionVars, Wished
<1> QED
  BY <1>1, <1>2 DEF Handle, HandleIdleState

LEMMA StepImplements ==
  ASSUME Inv, Inv', [Next]_vars
  PROVE  [Selection!Next]_Selection!selectionVars
<1> USE DEF Inv
<1>1. ASSUME UNCHANGED <<demand, active, override>>
      PROVE  UNCHANGED Selection!selectionVars
  BY <1>1 DEF Selection!selectionVars, Wished
<1>2. ASSUME NEW src \in Detectors, NEW p \in Wanted(src) \cup {None}, Event(src, p)
      PROVE  [Selection!Next]_Selection!selectionVars
  <2>1. p \in ProfileOrNone
    BY WantedTypes DEF ProfileOrNone
  <2>2. CASE Handle(src, p) /\ override' = override
    BY <2>1, <2>2, HandleImplements
  <2>3. CASE UNCHANGED <<demand, active, override>>
    BY <1>1, <2>3
  <2> QED
    BY <1>2, <2>2, <2>3 DEF Event, managerVars, userVars
<1>3. CASE DebounceTimer
  <2>1. pending.src \in Detectors /\ pending.to \in ProfileOrNone
    BY <1>3, WantedTypes DEF DebounceTimer, Types, ProfileOrNone
  <2> QED
    BY <1>3, <2>1, HandleImplements DEF DebounceTimer, userVars
<1>4. ASSUME NEW p \in OverrideProfiles, DemandUserOverride(p)
      PROVE  Selection!Next
  <2>1. /\ override' = p /\ demand' = [demand EXCEPT !["user"] = p]
        /\ active' = Winner(demand')
    BY <1>4 DEF DemandUserOverride, Demand
  <2>2. p \in Profiles /\ p # None
    BY AdaptiveAssumption, ProfilesAssumption
  <2>3. demand'["user"] = p /\ demand' \in [Sources -> ProfileOrNone]
    BY <2>1, <2>2 DEF Types, Sources, ProfileOrNone
  <2>4. Wished' = Wished
    BY <2>1 DEF Wished, Types, Sources, Detectors
  <2>5. active' = Selection!Choice(p, Wished')
    BY <2>1, <2>3, WinnerIsChoice DEF Wished, WishedOf
  <2> QED
    BY <2>1, <2>2, <2>4, <2>5 DEF Selection!Next, Selection!Command
<1>5. CASE ReleaseUserOverride
  <2>1. /\ override # None /\ override' = None
        /\ demand' = [demand EXCEPT !["user"] = None] /\ active' = Winner(demand')
    BY <1>5 DEF ReleaseUserOverride, Demand
  <2>2. Wished' = Wished
    BY <2>1 DEF Wished, Types, Sources, Detectors
  <2>3. demand'["user"] = None /\ demand' \in [Sources -> ProfileOrNone]
    BY <2>1 DEF Types, Sources, ProfileOrNone
  <2>4. active' = Selection!Choice(None, Wished')
    BY <2>1, <2>3, WinnerIsChoice DEF Wished, WishedOf
  <2> QED
    BY <2>1, <2>2, <2>4 DEF Selection!Next, Selection!Release
<1>6. CASE IdleTimeoutEnds
  <2>1. "idle" \in Detectors /\ Idle \in ProfileOrNone
    BY ProfilesAssumption DEF Detectors, ProfileOrNone
  <2>2. Demand("idle", Idle) /\ override' = override
    BY <1>6 DEF IdleTimeoutEnds, IdleTimer, userVars
  <2> QED
    BY <2>1, <2>2, DemandChangesWishes DEF Selection!Next
<1>7. CASE Advance \/ UNCHANGED vars
  BY <1>1, <1>7 DEF Advance, vars, managerVars, userVars
<1> QED
  BY <1>2, <1>3, <1>4, <1>5, <1>6, <1>7 DEF Next

\* The profile manager, behind the engine or alone, implements ProfileSelection.
THEOREM ImplementsProfileSelection == Spec => ImplementsSelection
<1>1. Init => Selection!Init
  BY DEF Init, InitManager, Selection!Init, Wished, Sources, Detectors
<1>2. Inv /\ Inv' /\ [Next]_vars => [Selection!Next]_Selection!selectionVars
  BY StepImplements
<1> QED
  BY <1>1, <1>2, AlwaysInv, PTL DEF Spec, ImplementsSelection, Selection!Spec

-----------------------------------------------------------------------------
(***************************************************************************)
(* The types, and the limit on successful transitions.  The engine looks   *)
(* only at the list of recent transitions, and only when an event comes;   *)
(* that is enough because no success of the window is ever missing in the  *)
(* list, and none is announced while a transition waits.                   *)
(***************************************************************************)

\* _pruneRecentTransitions keeps every transition of the window, and adds none.
LEMMA PrunedList ==
  ASSUME NEW s, IsList(s)
  PROVE  /\ IsList(Pruned(s))
         /\ \A i \in 1..Len(s) : s[i].at >= now - Window =>
              \E j \in 1..Len(Pruned(s)) : Pruned(s)[j] = s[i]
         /\ \A j \in 1..Len(Pruned(s)) : \E i \in 1..Len(s) : Pruned(s)[j] = s[i]
<1> DEFINE N == Len(s)
           Fresh(k) == s[k].at >= now - Window
           After(k, before) == IF Fresh(k) THEN Append(before, s[k]) ELSE before
           Loop(n, f) == [k \in 0..n |-> IF k = 0 THEN <<>> ELSE After(k, f[k - 1])]
           Reached == {n \in Nat : \E f : f = Loop(n, f)}
<1>0. N \in Nat
  BY ListFacts
<1>1. 0 \in Reached
  <2> DEFINE f == [k \in 0..0 |-> <<>>]
  <2>1. \A k \in 0..0 : k = 0
    OBVIOUS
  <2>2. f = Loop(0, f)
    BY <2>1
  <2> QED
    BY <2>2
<1>2. \A n \in Nat : n \in Reached => n + 1 \in Reached
  <2>1. ASSUME NEW n \in Nat, NEW f, f = Loop(n, f)
        PROVE  \E g : g = Loop(n + 1, g)
    <3> DEFINE value == After(n + 1, f[n])
               g == [k \in 0..(n + 1) |-> IF k = n + 1 THEN value ELSE f[k]]
    <3> HIDE DEF After, value
    <3>1. /\ \A k \in 0..n : g[k] = f[k]
          /\ \A k \in 1..n : g[k - 1] = f[k - 1]
          /\ g[n + 1] = value /\ g[(n + 1) - 1] = f[n]
      BY OneMoreTurn
    <3>2. g = [k \in 0..(n + 1) |-> g[k]]
      OBVIOUS
    <3> HIDE DEF g
    <3>3. \A k \in 0..(n + 1) : g[k] = IF k = 0 THEN <<>> ELSE After(k, g[k - 1])
      <4> TAKE k \in 0..(n + 1)
      <4>1. CASE k = n + 1
        BY <3>1, <4>1 DEF value
      <4>2. CASE k # n + 1
        <5>1. k \in 0..n /\ (k # 0 => k \in 1..n)
          BY <4>2
        <5> QED
          BY <2>1, <3>1, <5>1
      <4> QED
        BY <4>1, <4>2
    <3>4. g = Loop(n + 1, g)
      BY <3>2, <3>3
    <3> QED
      BY <3>4
  <2> HIDE DEF Loop
  <2> QED
    BY <2>1
<1>3. Nat \subseteq Reached
  <2> HIDE DEF Reached
  <2> QED
    BY <1>1, <1>2, Induct
<1>4. \E f : f = Loop(N, f)
  BY <1>0, <1>3
<1> DEFINE kept == CHOOSE f : f = Loop(N, f)
<1>5. kept = Loop(N, kept)
  BY <1>4
<1>6. Pruned(s) = kept[N]
  BY Zenon DEF Pruned
<1> DEFINE Right(n) ==
             /\ IsList(kept[n])
             /\ \A i \in 1..n : Fresh(i) => \E j \in 1..Len(kept[n]) : kept[n][j] = s[i]
             /\ \A j \in 1..Len(kept[n]) : \E i \in 1..n : kept[n][j] = s[i]
           RightOnes == {n \in Nat : n <= N => Right(n)}
<1> HIDE DEF kept, Fresh
<1>7. 0 \in RightOnes
  <2>1. kept[0] = <<>>
    BY <1>0, <1>5
  <2>2. Right(0)
    BY <2>1, EmptyList
  <2> QED
    BY <2>2
<1>8. ASSUME NEW n \in Nat, n + 1 <= N, Right(n)
      PROVE  Right(n + 1)
  <2> DEFINE old == kept[n]
             new == kept[n + 1]
  <2>1. n + 1 \in 0..N /\ n + 1 # 0 /\ (n + 1) - 1 = n
    BY <1>0, <1>8
  <2>2. new = After(n + 1, old)
    BY <1>5, <2>1
  <2>3. /\ IsList(old) /\ Len(old) \in Nat
        /\ \A i \in 1..n : Fresh(i) => \E j \in 1..Len(old) : old[j] = s[i]
        /\ \A j \in 1..Len(old) : \E i \in 1..n : old[j] = s[i]
    BY <1>8, ListFacts
  <2>4. /\ \A i \in 1..(n + 1) : i = n + 1 \/ i \in 1..n
        /\ \A i \in 1..n : i \in 1..(n + 1)
        /\ n + 1 \in 1..(n + 1)
    OBVIOUS
  <2> HIDE DEF old, new
  <2>5. CASE Fresh(n + 1)
    <3>1. new = Append(old, s[n + 1])
      BY <2>2, <2>5
    <3>2. /\ IsList(new) /\ Len(new) = Len(old) + 1
          /\ \A j \in 1..Len(old) : new[j] = old[j]
          /\ new[Len(old) + 1] = s[n + 1]
      <4> DEFINE x == s[n + 1]
                 longer == Append(old, x)
      <4>0. IsList(old)
        BY <2>3
      <4> HIDE DEF x, Right, RightOnes
      <4>1. /\ IsList(longer) /\ Len(longer) = Len(old) + 1
            /\ \A j \in 1..Len(old) : longer[j] = old[j]
            /\ longer[Len(old) + 1] = x
        BY <4>0, LongerList
      <4>2. new = longer
        BY <3>1 DEF x
      <4> HIDE DEF longer
      <4> QED
        BY <4>1, <4>2 DEF x
    <3>3. /\ \A j \in 1..Len(new) : j = Len(old) + 1 \/ j \in 1..Len(old)
          /\ \A j \in 1..Len(old) : j \in 1..Len(new)
          /\ Len(old) + 1 \in 1..Len(new)
      BY <2>3, <3>2
    <3>4. ASSUME NEW i \in 1..(n + 1), Fresh(i)
          PROVE  \E j \in 1..Len(new) : new[j] = s[i]
      <4>1. CASE i = n + 1
        BY <3>2, <3>3, <4>1
      <4>2. CASE i \in 1..n
        <5>1. PICK j \in 1..Len(old) : old[j] = s[i]
          BY <2>3, <3>4, <4>2
        <5> QED
          BY <3>2, <3>3, <5>1
      <4> QED
        BY <2>4, <4>1, <4>2
    <3>5. ASSUME NEW j \in 1..Len(new)
          PROVE  \E i \in 1..(n + 1) : new[j] = s[i]
      BY <2>3, <2>4, <3>2, <3>3
    <3> QED
      BY <3>2, <3>4, <3>5 DEF new
  <2>6. CASE ~Fresh(n + 1)
    <3>1. new = old
      BY <2>2, <2>6
    <3>2. \A i \in 1..(n + 1) : Fresh(i) => i \in 1..n
      BY <2>4, <2>6
    <3> QED
      BY <2>3, <2>4, <3>1, <3>2 DEF new
  <2> QED
    BY <2>5, <2>6
<1>9. Nat \subseteq RightOnes
  <2>1. \A n \in Nat : n \in RightOnes => n + 1 \in RightOnes
    <3> SUFFICES ASSUME NEW n \in Nat, n <= N => Right(n), n + 1 <= N PROVE Right(n + 1)
      BY <1>0
    <3>1. n <= N
      BY <1>0
    <3> HIDE DEF Right
    <3> QED
      BY <1>8, <3>1
  <2> HIDE DEF RightOnes
  <2> QED
    BY <1>7, <2>1, Induct
<1>10. Right(N)
  BY <1>0, <1>9
<1> QED
  BY <1>6, <1>10 DEF Fresh

\* The strongest demand is one that was made.
LEMMA WinnerIsProfile ==
  ASSUME NEW d \in [Sources -> ProfileOrNone]
  PROVE  Winner(d) \in Profiles
<1>1. \A src \in Demanding(d) : d[src] \in Profiles /\ Weight(d, src) \in Nat
  BY ProfilesAssumption DEF Demanding, ProfileOrNone, Weight
<1>2. CASE Demanding(d) = {}
  BY <1>2, ProfilesAssumption DEF Winner
<1>3. CASE Demanding(d) # {}
  <2>1. Strongest(d) \in Demanding(d)
    BY <1>3, StrongestHolds
  <2> QED
    BY <1>1, <1>3, <2>1 DEF Winner
<1> QED
  BY <1>2, <1>3

\* A transition that is recorded stays in the list as long as in the window.
LEMMA RecordedTypes ==
  ASSUME NEW s \in Seq(Transitions), NEW x \in Transitions
  PROVE  Pruned(s) \in Seq(Transitions) /\ Pruned(Append(s, x)) \in Seq(Transitions)
<1>1. ASSUME NEW t \in Seq(Transitions)
      PROVE  Pruned(t) \in Seq(Transitions)
  <2> DEFINE r == Pruned(t)
  <2>1. /\ IsList(r) /\ Len(r) \in Nat
        /\ \A j \in 1..Len(r) : \E i \in 1..Len(t) : r[j] = t[i]
    BY PrunedList, ListFacts DEF IsList
  <2>2. r = [j \in 1..Len(r) |-> r[j]]
    BY <2>1, ListFacts
  <2>3. \A i \in 1..Len(t) : t[i] \in Transitions
    BY ElementOfSeq
  <2>4. \A j \in 1..Len(r) : r[j] \in Transitions
    BY <2>1, <2>3, Zenon
  <2> HIDE DEF r
  <2>5. r \in [1..Len(r) -> Transitions]
    BY <2>2, <2>4
  <2>6. r \in Seq(Transitions)
    BY <2>1, <2>5
  <2> QED
    BY <2>6 DEF r
<1>2. Append(s, x) \in Seq(Transitions)
  OBVIOUS
<1> HIDE DEF Transitions
<1> QED
  BY <1>1, <1>2

LEMMA InitTypeOK == Init => TypeOK
<1> SUFFICES ASSUME Init PROVE TypeOK
  OBVIOUS
<1> USE AdaptiveAssumption, ProfilesAssumption DEF Init, InitManager
<1>1. Cooldown \in Times /\ 0 \in Times
  BY DEF Times
<1> QED
  BY <1>1 DEF TypeOK, Sources, Detectors, NoTimer, NoPending

LEMMA NextTypeOK ==
  ASSUME Inv, Inv', TypeOK, [Next]_vars
  PROVE  TypeOK'
<1> USE AdaptiveAssumption, ProfilesAssumption DEF Inv, managerVars, engineVars, userVars, heard
<1>1. /\ demand' \in [Sources -> Profiles \cup {None}] /\ idleDue' \in Int
      /\ said' \in [Detectors -> Profiles \cup {None}] /\ override' \in Profiles \cup {None}
      /\ adaptive' \in BOOLEAN
  BY DEF Types, ProfileOrNone
<1>2. active' \in Profiles
  BY <1>1, WinnerIsProfile DEF Chosen, ProfileOrNone
<1>3. now' \in Times /\ overrides' \in 0 .. MaxOverrides
  BY DEF Next, TypeOK, Times, Event, DebounceTimer, DemandUserOverride, ReleaseUserOverride,
         IdleTimeoutEnds, Advance, vars
<1>4. /\ lastAt' \in {lastAt, now} /\ idleSince' \in {idleSince, now}
      /\ successes' \subseteq successes \cup {now}
  BY DEF Next, Event, DebounceTimer, DemandUserOverride, ReleaseUserOverride,
         IdleTimeoutEnds, Advance, vars, Record
<1>5. /\ lastAt' \in Times /\ idleSince' \in Times /\ successes' \subseteq Times
  BY <1>4 DEF TypeOK
<1>6. recent' \in Seq(Transitions)
  <2>1. \/ UNCHANGED recent
        \/ recent' = Pruned(recent)
        \/ \E p \in Profiles : recent' = Pruned(Append(recent, [profile |-> p, at |-> now]))
    BY <1>2 DEF Next, Event, Transition, DebounceTimer, DemandUserOverride,
                ReleaseUserOverride, IdleTimeoutEnds, Advance, vars, Record
  <2>2. \A p \in Profiles : [profile |-> p, at |-> now] \in Transitions
    BY DEF TypeOK, Transitions
  <2>3. recent \in Seq(Transitions)
    BY DEF TypeOK
  <2>4. Balanced \in Profiles
    OBVIOUS
  <2> QED
    BY <2>1, <2>2, <2>3, <2>4, RecordedTypes
<1>7. pending' \in {NoPending} \cup
        [src : Detectors, from : Profiles, to : Profiles, due : Nat]
  <2>1. ASSUME NEW src \in Detectors, NEW p \in Wanted(src) \cup {None}, Event(src, p)
        PROVE  \/ pending' = pending
               \/ /\ pending' = [src |-> src, from |-> active, to |-> p, due |-> now + Debounce]
                  /\ p \in Profiles
    <3>1. CASE ~adaptive \/ p = None
      BY <2>1, <3>1 DEF Event, Transition
    <3>2. CASE adaptive /\ p # None
      BY <2>1, <3>2, WantedTypes DEF Event, Transition
    <3> QED
      BY <3>1, <3>2 DEF TypeOK
  <2>2. \A src \in Detectors, p \in Profiles :
          [src |-> src, from |-> active, to |-> p, due |-> now + Debounce]
            \in [src : Detectors, from : Profiles, to : Profiles, due : Nat]
    BY DEF TypeOK, Types
  <2>3. \/ pending' = pending \/ pending' = NoPending
        \/ \E src \in Detectors, p \in Profiles :
             pending' = [src |-> src, from |-> active, to |-> p, due |-> now + Debounce]
    BY <2>1 DEF Next, DebounceTimer, DemandUserOverride, ReleaseUserOverride,
                IdleTimeoutEnds, Advance, vars
  <2> QED
    BY <2>2, <2>3 DEF TypeOK
<1> QED
  BY <1>1, <1>2, <1>3, <1>5, <1>6, <1>7 DEF TypeOK

LEMMA AlwaysTypeOK == Spec => [](Inv /\ TypeOK)
<1>1. Init => Inv /\ TypeOK
  BY InitInv, InitTypeOK
<1>2. Inv /\ TypeOK /\ [Next]_vars => (Inv /\ TypeOK)'
  BY NextInv, NextTypeOK
<1> QED
  BY <1>1, <1>2, PTL DEF Spec

\* The variables keep their types.
THEOREM TypeCorrect == Spec => []TypeOK
BY AlwaysTypeOK, PTL

-----------------------------------------------------------------------------
\* Every success of the window is in the list of recent transitions, and of the
\* window of a transition that waits there is room for one more.
Recorded ==
  \A t \in successes : t >= now - Window => \E i \in 1..Len(recent) : recent[i].at = t
Since(time) == {t \in successes : t >= time}
Calm ==
  /\ IsFiniteSet(successes)
  /\ Recorded
  /\ pending # NoPending => Cardinality(Since(pending.due - Debounce - Window)) < Threshold
  /\ NoOscillation

\* What the engine counts is not less than the successes of the window.
LEMMA CountedSuccesses ==
  ASSUME Calm, TypeOK
  PROVE  Cardinality(Since(now - Window)) <= Len(Pruned(recent))
<1> DEFINE P == Pruned(recent)
           f == [i \in 1..Len(P) |-> P[i].at]
           T == {f[i] : i \in 1..Len(P)}
<1>1. /\ IsList(P) /\ Len(P) \in Nat
      /\ \A i \in 1..Len(recent) : recent[i].at >= now - Window =>
           \E j \in 1..Len(P) : P[j] = recent[i]
  BY PrunedList, ListFacts DEF TypeOK, IsList
<1>2. Since(now - Window) \subseteq T
  <2> SUFFICES ASSUME NEW t \in Since(now - Window) PROVE t \in T
    OBVIOUS
  <2>1. PICK i \in 1..Len(recent) : recent[i].at = t
    BY DEF Calm, Recorded, Since
  <2>2. recent[i].at >= now - Window
    BY <2>1 DEF Since
  <2>3. PICK j \in 1..Len(P) : P[j] = recent[i]
    BY <1>1, <2>2
  <2>4. f[j] = t
    BY <2>1, <2>3
  <2> HIDE DEF f
  <2> QED
    BY <2>4
<1>3. IsFiniteSet(T) /\ Cardinality(T) <= Len(P)
  <2> HIDE DEF f, P
  <2> QED
    BY <1>1, NotMoreValues
<1>4. /\ IsFiniteSet(Since(now - Window)) /\ Cardinality(Since(now - Window)) <= Cardinality(T)
  <2> HIDE DEF T
  <2> QED
    BY <1>2, <1>3, FS_Subset
<1>5. Cardinality(Since(now - Window)) \in Nat /\ Cardinality(T) \in Nat
  BY <1>3, <1>4, FS_CardinalityType
<1> HIDE DEF T, P
<1> QED
  BY <1>1, <1>3, <1>4, <1>5 DEF P

\* One more transition in the list.
LEMMA RecordKeeps ==
  ASSUME Inv, TypeOK, Recorded, NEW p \in Profiles, Record(p), now' = now,
         successes' \subseteq successes \cup {now}
  PROVE  Recorded'
<1> DEFINE x == [profile |-> p, at |-> now]
           s == Append(recent, x)
<1>1. recent' = Pruned(s) /\ x.at = now
  BY DEF Record
<1> HIDE DEF x
<1>2. IsList(recent) /\ Len(recent) \in Nat
  BY ListFacts DEF TypeOK, IsList
<1>3. /\ IsList(s) /\ Len(s) = Len(recent) + 1
      /\ \A i \in 1..Len(recent) : s[i] = recent[i]
      /\ s[Len(recent) + 1] = x
  BY <1>2, LongerList
<1> HIDE DEF s
<1>4. \A i \in 1..Len(s) : s[i].at >= now - Window =>
        \E j \in 1..Len(recent') : recent'[j] = s[i]
  BY <1>1, <1>3, PrunedList
<1>5. now - now <= Window /\ now >= now - Window /\ now \in Nat
  BY AdaptiveAssumption DEF Inv, Types
<1>6. ASSUME NEW t \in successes', t >= now - Window
      PROVE  \E j \in 1..Len(recent') : recent'[j].at = t
  <2>1. \E i \in 1..Len(s) : s[i].at = t
    <3>1. CASE t \in successes
      <4>1. PICK i \in 1..Len(recent) : recent[i].at = t
        BY <1>6, <3>1 DEF Recorded
      <4> QED
        BY <1>2, <1>3, <4>1
    <3>2. CASE t = now
      <4>1. Len(recent) + 1 \in 1..Len(s)
        BY <1>2, <1>3
      <4> QED
        BY <1>1, <1>3, <3>2, <4>1
    <3> QED
      BY <3>1, <3>2
  <2>2. PICK i \in 1..Len(s) : s[i].at = t
    BY <2>1
  <2>3. PICK j \in 1..Len(recent') : recent'[j] = s[i]
    BY <1>4, <1>6, <2>2
  <2> QED
    BY <2>2, <2>3
<1> QED
  BY <1>6 DEF Recorded

\* A success that the engine announces when its transition has waited.
LEMMA SuccessKeeps ==
  ASSUME Inv, Calm, DebounceTimer, successes' = successes \cup {now}
  PROVE  IsFiniteSet(successes') /\ NoOscillation'
<1> USE AdaptiveAssumption
<1>1. /\ pending # NoPending /\ pending.due \in Nat /\ now >= pending.due
      /\ now \in Nat /\ successes \subseteq Nat
  BY DEF DebounceTimer, Inv, Types
<1> DEFINE old == Since(pending.due - Debounce - Window)
<1>2. IsFiniteSet(successes) /\ Cardinality(old) < Threshold
  BY <1>1 DEF Calm
<1>3. IsFiniteSet(old) /\ Cardinality(old) \in Nat
  <2>1. old \in SUBSET successes
    BY DEF Since
  <2> HIDE DEF old
  <2> QED
    BY <1>2, <2>1, FS_Subset, FS_CardinalityType
<1>4. IsFiniteSet(successes')
  BY <1>2, FS_AddElement
<1>5. ASSUME NEW t \in successes'
      PROVE  Cardinality({u \in successes' : t <= u /\ u <= t + Window}) <= Threshold
  <2> DEFINE W == {u \in successes' : t <= u /\ u <= t + Window}
  <2>1. t \in Nat /\ t <= now
    BY <1>1 DEF Inv, Spaced, Types
  <2>2. CASE now > t + Window
    <3>1. t \in successes
      BY <1>1, <2>1, <2>2
    <3>2. W = {u \in successes : t <= u /\ u <= t + Window}
      BY <1>1, <2>1, <2>2
    <3> QED
      BY <3>1, <3>2 DEF Calm, NoOscillation
  <2>3. CASE ~(now > t + Window)
    <3>1. W \in SUBSET (old \cup {now})
      <4> SUFFICES ASSUME NEW u \in W, u # now PROVE u \in old
        OBVIOUS
      <4>1. u \in successes /\ u >= t
        BY <1>1, <2>1
      <4>2. u >= pending.due - Debounce - Window
        BY <1>1, <2>1, <2>3, <4>1
      <4> QED
        BY <4>1, <4>2 DEF Since
    <3> HIDE DEF old, W
    <3>2. /\ IsFiniteSet(old \cup {now})
          /\ Cardinality(old \cup {now}) <= Cardinality(old) + 1
      BY <1>3, FS_AddElement
    <3>3. /\ IsFiniteSet(W) /\ Cardinality(W) <= Cardinality(old \cup {now})
          /\ Cardinality(W) \in Nat /\ Cardinality(old \cup {now}) \in Nat
      BY <3>1, <3>2, FS_Subset, FS_CardinalityType
    <3> QED
      BY <1>2, <1>3, <3>2, <3>3 DEF W
  <2> QED
    BY <2>2, <2>3
<1> QED
  BY <1>4, <1>5 DEF NoOscillation

LEMMA InitCalm == Init => Calm
<1> SUFFICES ASSUME Init PROVE Calm
  OBVIOUS
<1>1. successes = {} /\ pending = NoPending
  BY DEF Init
<1> QED
  BY <1>1, FS_EmptySet DEF Calm, Recorded, NoOscillation

LEMMA NextCalm ==
  ASSUME Inv, Inv', TypeOK, Calm, [Next]_vars
  PROVE  Calm'
<1> USE AdaptiveAssumption DEF managerVars, engineVars, userVars, heard
<1>1. ASSUME UNCHANGED <<now, successes, pending>>, Recorded'
      PROVE  Calm'
  BY <1>1 DEF Calm, NoOscillation, Since
<1>2. ASSUME UNCHANGED <<now, successes, recent>> PROVE Recorded'
  BY <1>2 DEF Calm, Recorded
<1>3. now \in Nat /\ successes \subseteq Nat
  BY DEF Inv, Types
<1>4. ASSUME NEW src \in Detectors, NEW p \in Wanted(src) \cup {None}, Event(src, p)
      PROVE  Calm'
  <2>1. UNCHANGED <<now, successes>>
    BY <1>4 DEF Event
  <2>2. CASE UNCHANGED <<pending, recent>>
    BY <1>1, <1>2, <2>1, <2>2
  <2>3. CASE recent' = Pruned(recent)
    <3>1. Recorded'
      <4> SUFFICES ASSUME NEW t \in successes, t >= now - Window
                   PROVE  \E j \in 1..Len(recent') : recent'[j].at = t
        BY <2>1 DEF Recorded
      <4>1. PICK i \in 1..Len(recent) : recent[i].at = t
        BY DEF Calm, Recorded
      <4>2. IsList(recent)
        BY DEF TypeOK, IsList
      <4>3. PICK j \in 1..Len(recent') : recent'[j] = recent[i]
        BY <2>3, <4>1, <4>2, PrunedList
      <4> QED
        BY <4>1, <4>3
    <3>2. CASE pending' = pending
      BY <1>1, <2>1, <3>1, <3>2
    <3>3. CASE ~Oscillating(p) /\ pending' = [src |-> src, from |-> active, to |-> p,
                                              due |-> now + Debounce]
      <4>1. pending'.due - Debounce - Window = now - Window
        BY <1>3, <3>3
      <4>2. Len(Pruned(recent)) < Threshold /\ Len(Pruned(recent)) \in Nat
        <5>1. Len(Pruned(recent)) \in Nat
          BY PrunedList, ListFacts DEF TypeOK, IsList
        <5> QED
          BY <3>3, <5>1 DEF Oscillating
      <4>3. Cardinality(Since(now - Window)) < Threshold
        <5>1. IsFiniteSet(Since(now - Window))
          <6>1. Since(now - Window) \in SUBSET successes
            BY DEF Since
          <6> QED
            BY <6>1, FS_Subset DEF Calm
        <5>2. Cardinality(Since(now - Window)) \in Nat
          BY <5>1, FS_CardinalityType
        <5> QED
          BY <4>2, <5>2, CountedSuccesses
      <4>4. Since(now - Window)' = Since(now - Window)
        BY <2>1 DEF Since
      <4> QED
        BY <2>1, <3>1, <4>1, <4>3, <4>4 DEF Calm, NoOscillation, Since
    <3> QED
      BY <1>4, <3>2, <3>3 DEF Event, Transition
  <2> QED
    BY <1>4, <2>2, <2>3 DEF Event, Transition
<1>5. CASE DebounceTimer
  <2>1. pending' = NoPending /\ now' = now
    BY <1>5 DEF DebounceTimer
  <2>2. CASE UNCHANGED <<lastAt, recent, successes>>
    <3>1. Recorded'
      BY <1>2, <2>1, <2>2
    <3> QED
      BY <2>1, <2>2, <3>1 DEF Calm, NoOscillation
  <2>3. CASE Record(active') /\ successes' = successes \cup {now}
    <3>1. active' \in Profiles
      BY NextTypeOK DEF TypeOK
    <3>2. Recorded'
      BY <2>1, <2>3, <3>1, RecordKeeps DEF Calm
    <3> QED
      BY <1>5, <2>1, <2>3, <3>2, SuccessKeeps DEF Calm
  <2> QED
    BY <1>5, <2>2, <2>3 DEF DebounceTimer
<1>6. ASSUME NEW p \in OverrideProfiles, DemandUserOverride(p) PROVE Calm'
  <2>1. UNCHANGED <<now, successes, pending>> /\ Record(p) /\ p \in Profiles
    BY <1>6 DEF DemandUserOverride
  <2> QED
    BY <1>1, <2>1, RecordKeeps DEF Calm
<1>7. CASE ReleaseUserOverride \/ IdleTimeoutEnds \/ UNCHANGED vars
  BY <1>1, <1>2, <1>7 DEF ReleaseUserOverride, IdleTimeoutEnds, vars
<1>8. CASE Advance
  <2>1. now' = now + 1 /\ UNCHANGED <<successes, pending, recent>>
    BY <1>8 DEF Advance
  <2>2. Recorded'
    BY <1>3, <2>1 DEF Calm, Recorded
  <2> QED
    BY <2>1, <2>2 DEF Calm, NoOscillation, Since
<1> QED
  BY <1>4, <1>5, <1>6, <1>7, <1>8 DEF Next

\* The engine announces no more successful transitions in a window than the
\* threshold allows.
THEOREM NeverOscillates == Spec => []NoOscillation
<1>1. Init => Inv /\ TypeOK /\ Calm
  BY InitInv, InitTypeOK, InitCalm
<1>2. Inv /\ TypeOK /\ Calm /\ [Next]_vars => (Inv /\ TypeOK /\ Calm)'
  BY NextInv, NextTypeOK, NextCalm
<1>3. Calm => NoOscillation
  BY DEF Calm
<1> QED
  BY <1>1, <1>2, <1>3, PTL DEF Spec
=============================================================================
