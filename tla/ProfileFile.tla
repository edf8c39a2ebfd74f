---------------------------- MODULE ProfileFile ----------------------------
(***************************************************************************)
(* The registry of profiles (profiles/profile-registry.js, base-profile.js)*)
(* behind the profile manager (profile-manager.js): the built-in profiles, *)
(* those of a file that is watched, those a plugin registers; what they    *)
(* inherit, which of them is active, and what it sets.                     *)
(*                                                                         *)
(* A definition is a record                                                *)
(*   [valid, id, version, priority, inherits, settings, overrides]         *)
(* where "valid" says that Profile._validate does not throw, and settings  *)
(* and overrides give some of the domains a preset.  Controllers take the  *)
(* presets they know.  No two calls come at one instant.                   *)
(***************************************************************************)
EXTENDS Integers, Sequences, FiniteSets, LayerConstants

CONSTANTS Builtins,          \* BUILTIN_DEFINITIONS, a sequence
          ProfileDocuments,  \* what the file may hold: sequences of definitions
          PluginProfiles,    \* definitions a plugin may register
          CallsFor,          \* source -> the profiles it may demand
          DefaultProfile,    \* "balanced"
          KnownPresets       \* domain -> the presets its controller knows

\* What _validate leaves a definition; a preset that is null counts as none.
WellFormed(def) ==
  /\ def.priority \in Nat \cup {None} /\ def.inherits \in Seq(STRING)
  /\ \A d \in DOMAIN def.settings : def.settings[d] # None
  /\ \A d \in DOMAIN def.overrides : def.overrides[d] # None

ASSUME ProfileFileAssumption ==
  /\ \A doc \in ProfileDocuments \cup {Builtins} :
       /\ Len(doc) \in Nat /\ DOMAIN doc = 1..Len(doc)
       /\ \A i \in DOMAIN doc : doc[i].valid => WellFormed(doc[i])
  /\ \A def \in PluginProfiles : def.valid => WellFormed(def)
  /\ \A i, j \in DOMAIN Builtins :
       Builtins[i].valid /\ (Builtins[i].id = Builtins[j].id => i = j)
  /\ \A d \in DOMAIN KnownPresets : None \notin KnownPresets[d]
  /\ None \notin ProfileDocuments /\ None \notin Nat

VARIABLES registered,     \* _profiles: id -> its definition and resolved settings
          calls,          \* _demand, the latest last
          activeProfile,  \* _activeProfileId
          presets,        \* what the controllers were told last
          profileFile,    \* what the file holds, None when it cannot be read
          profileWatch,   \* its _fileWatcher is set, and whether it changed
          unevaluated,    \* a plugin has registered a profile since _reevaluate
          pmRunning       \* the daemon has its profileMgr
profileVars == <<registered, calls, activeProfile, presets, profileFile, profileWatch,
                 unevaluated, pmRunning>>

Domains == DOMAIN KnownPresets   \* "thermal" and "power"
Nothing == [x \in {} |-> None]

-----------------------------------------------------------------------------
\* register: an invalid definition is rejected, and one of an id and version
\* that are there.
Register(reg, def) ==
  IF ~def.valid \/ (def.id \in DOMAIN reg /\ reg[def.id].def.version = def.version)
  THEN reg
  ELSE [id \in DOMAIN reg \cup {def.id} |->
         IF id = def.id THEN [def |-> def, resolved |-> None] ELSE reg[id]]

\* Profile.settings
Settings(entry) == IF entry.resolved = None THEN entry.def.settings ELSE entry.resolved

\* _deepMerge, domain by domain: the second wins.  A mutant lets the first.
DeepMergeKeeping(a, b) ==
  [d \in DOMAIN a \cup DOMAIN b |-> IF d \in DOMAIN a THEN a[d] ELSE b[d]]
DeepMerge(a, b) ==
  [d \in DOMAIN a \cup DOMAIN b |-> IF d \in DOMAIN b THEN b[d] ELSE a[d]]

\* The settings of several parents, one after the other.
MergeAll(parts) ==
  LET merged[i \in 0..Len(parts)] ==
        IF i = 0 THEN Nothing ELSE DeepMerge(merged[i - 1], parts[i])
  IN merged[Len(parts)]

\* Where in "inherits" there is a parent that is known; others are skipped.
Parents(reg, id) ==
  {i \in DOMAIN reg[id].def.inherits : reg[id].def.inherits[i] \in DOMAIN reg}

\* _resolveInheritance follows parents; past one step more than there are
\* profiles it has come to one of them again.
Deepest(reg) == Cardinality(DOMAIN reg) + 1
Steps(reg) == 0..Deepest(reg)

\* The profiles it meets from each, and whether it meets one of them twice.
Met(reg, p, before) ==
  LET branch == [i \in Parents(reg, p) |-> before[reg[p].def.inherits[i]]]
  IN [met   |-> {p} \cup UNION {branch[i].met : i \in Parents(reg, p)},
      twice |-> \E i \in Parents(reg, p) :
                  \/ p \in branch[i].met \/ branch[i].twice
                  \/ \E j \in Parents(reg, p) \ {i} : branch[i].met \cap branch[j].met # {}]
Walk(reg) ==
  LET walk[n \in Steps(reg)] ==
        IF n = 0 THEN [p \in DOMAIN reg |-> [met |-> {}, twice |-> FALSE]]
        ELSE [p \in DOMAIN reg |-> Met(reg, p, walk[n - 1])]
  IN walk[Deepest(reg)]

\* The visited set is one for all branches, so that an ancestor two parents
\* share counts as a cycle.
Rejected(reg, id) == Walk(reg)[id].twice

ResolvedBy(reg, p, before) ==
  LET parent == reg[p].def.inherits
      parts  == [i \in DOMAIN parent |->
                  IF i \in Parents(reg, p) THEN before[parent[i]] ELSE Nothing]
  IN DeepMerge(DeepMerge(MergeAll(parts), Settings(reg[p])), reg[p].def.overrides)
Inherited(reg) ==
  LET merged[n \in Steps(reg)] ==
        IF n = 0 THEN [p \in DOMAIN reg |-> Nothing]
        ELSE [p \in DOMAIN reg |-> ResolvedBy(reg, p, merged[n - 1])]
  IN merged[Deepest(reg)]

\* registerAll, which resolves what was resolved before, too.
Stored(reg, defs) ==
  LET stored[i \in 0..Len(defs)] ==
        IF i = 0 THEN reg ELSE Register(stored[i - 1], defs[i])
  IN stored[Len(defs)]
RegisterAll(reg, defs) ==
  LET all == Stored(reg, defs)
  IN [id \in DOMAIN all |->
       [all[id] EXCEPT !.resolved = IF Rejected(all, id) THEN Settings(all[id])
                                    ELSE Inherited(all)[id]]]

-----------------------------------------------------------------------------
\* The calls _reevaluate compares: a call carries the priority its profile had
\* when it came, and one without priority is never the greater.
Standing(reg, c) == {i \in DOMAIN c : c[i].id \in DOMAIN reg /\ c[i].priority # None}
Strongest(reg, c) ==
  LET Beats(i, j) == c[i].priority > c[j].priority \/ (c[i].priority = c[j].priority /\ i <= j)
  IN IF Standing(reg, c) = {} THEN DefaultProfile
     ELSE c[CHOOSE i \in Standing(reg, c) : \A j \in Standing(reg, c) : Beats(i, j)].id

\* _applySettings; cores of a governor are never resolved, so none is set.
Applied(settings) ==
  [d \in Domains |-> IF d \in DOMAIN settings /\ settings[d] \in KnownPresets[d]
                     THEN settings[d] ELSE presets[d]]

\* _reevaluate and _activateProfile.
Reevaluate(reg, c) ==
  LET winner == Strongest(reg, c)
  IN /\ unevaluated' = FALSE
     /\ IF winner = activeProfile \/ winner \notin DOMAIN reg
        THEN UNCHANGED <<activeProfile, presets>>
        ELSE /\ activeProfile' = winner
             /\ presets' = Applied(Settings(reg[winner]))

OtherCalls(src) ==
  LET others[i \in 0..Len(calls)] ==
        IF i = 0 THEN <<>>
        ELSE IF calls[i].src = src THEN others[i - 1] ELSE Append(others[i - 1], calls[i])
  IN others[Len(calls)]

\* demand: one for a profile that is not registered is refused.
CallProfile(src, id) ==
  /\ pmRunning /\ id \in DOMAIN registered
  /\ calls' = Append(OtherCalls(src),
                     [src |-> src, id |-> id, priority |-> registered[id].def.priority])
  /\ Reevaluate(registered, calls')
  /\ UNCHANGED <<registered, profileFile, profileWatch, pmRunning>>

WithdrawCall(src) ==
  /\ pmRunning
  /\ calls' = OtherCalls(src)
  /\ Reevaluate(registered, calls')
  /\ UNCHANGED <<registered, profileFile, profileWatch, pmRunning>>

EditProfiles ==
  /\ profileFile' \in (ProfileDocuments \cup {None}) \ {profileFile}
  /\ profileWatch' = [profileWatch EXCEPT !.changed = profileWatch.on]
  /\ UNCHANGED <<registered, calls, activeProfile, presets, unevaluated, pmRunning>>

\* The watcher clears the registry, the built-in profiles with it, before it
\* reads the file.
ReloadProfiles ==
  /\ profileWatch.on /\ profileWatch.changed
  /\ profileWatch' = [profileWatch EXCEPT !.changed = FALSE]
  /\ \/ /\ profileFile = None /\ registered' = Nothing
        /\ UNCHANGED <<activeProfile, presets, unevaluated>>
     \/ /\ profileFile # None /\ registered' = RegisterAll(Nothing, profileFile)
        /\ Reevaluate(registered', calls)
  /\ UNCHANGED <<calls, profileFile, pmRunning>>

\* registerProfile of the plugin SDK only registers.
PluginRegisters ==
  /\ pmRunning
  /\ \E def \in PluginProfiles : registered' = Register(registered, def)
  /\ unevaluated' = TRUE
  /\ UNCHANGED <<calls, activeProfile, presets, profileFile, profileWatch, pmRunning>>

DestroyProfiles ==
  /\ pmRunning /\ pmRunning' = FALSE
  /\ registered' = Nothing /\ calls' = <<>>
  /\ profileWatch' = [on |-> FALSE, changed |-> FALSE]
  /\ UNCHANGED <<activeProfile, presets, profileFile, unevaluated>>

\* setup() and start(): a file that cannot be read is not watched either.
ProfileInit ==
  /\ profileFile \in ProfileDocuments \cup {None}
  /\ LET builtins == RegisterAll(Nothing, Builtins)
     IN registered = IF profileFile = None THEN builtins
                     ELSE RegisterAll(builtins, profileFile)
  /\ profileWatch = [on |-> profileFile # None, changed |-> FALSE]
  /\ calls = <<>> /\ activeProfile = DefaultProfile
  /\ presets = [d \in Domains |->
                 LET s == Settings(registered[DefaultProfile])
                 IN IF d \in DOMAIN s /\ s[d] \in KnownPresets[d] THEN s[d] ELSE None]
  /\ unevaluated = FALSE /\ pmRunning = TRUE

ProfileNext ==
  \/ \E src \in DOMAIN CallsFor : \E id \in CallsFor[src] : CallProfile(src, id)
  \/ \E src \in DOMAIN CallsFor : WithdrawCall(src)
  \/ EditProfiles
  \/ ReloadProfiles
  \/ PluginRegisters
  \/ DestroyProfiles

-----------------------------------------------------------------------------
\* The preset a profile gives a domain by ProfileManager.md: its override, its
\* own setting, or what the last of its parents that gives one gives; None if
\* nobody does.
Gives(reg, p, domain, before) ==
  LET def    == reg[p].def
      givers == {i \in Parents(reg, p) : before[def.inherits[i]] # None}
  IN CASE domain \in DOMAIN def.overrides -> def.overrides[domain]
       [] domain \in DOMAIN def.settings \ DOMAIN def.overrides -> def.settings[domain]
       [] OTHER -> IF givers = {} THEN None
                   ELSE before[def.inherits[CHOOSE i \in givers : \A j \in givers : j <= i]]
Given(reg, domain) ==
  LET given[n \in Steps(reg)] ==
        IF n = 0 THEN [p \in DOMAIN reg |-> None]
        ELSE [p \in DOMAIN reg |-> Gives(reg, p, domain, given[n - 1])]
  IN given[Deepest(reg)]

\* Resolved together with all it inherits from, and not rejected.  At the start
\* the built-in profiles keep what they inherited from a parent the file
\* replaces.
WellResolved(reg, id) ==
  LET IsBuiltin(p) == \E i \in DOMAIN Builtins : Builtins[i] = reg[p].def
  IN /\ ~Rejected(reg, id)
     /\ \A p \in Walk(reg)[id].met :
          /\ reg[p].resolved # None
          /\ IsBuiltin(p) => \A q \in Walk(reg)[p].met : IsBuiltin(q)

\* Of the calls for profiles there are the active profile has the strongest, and
\* without any the default is active, unless a plugin has changed the registry
\* since or the default is gone.
CallObeyed ==
  LET standing == {calls[i] : i \in Standing(registered, calls)}
  IN pmRunning /\ ~unevaluated =>
       \/ \E call \in standing :
            /\ call.id = activeProfile
            /\ \A other \in standing : other.priority <= call.priority
       \/ standing = {} /\ (activeProfile = DefaultProfile \/ DefaultProfile \notin DOMAIN registered)

\* Whatever the file, its reloads and the plugins did to the registry, the calls
\* are obeyed, and a profile that becomes active puts in force what it says
\* itself and by inheritance, domain by domain.
ProfileInForce ==
  /\ []CallObeyed
  /\ [][activeProfile' # activeProfile /\ WellResolved(registered', activeProfile') =>
          \A d \in Domains :
            Given(registered', d)[activeProfile'] \in KnownPresets[d] =>
              presets'[d] = Given(registered', d)[activeProfile']]_profileVars
=============================================================================
