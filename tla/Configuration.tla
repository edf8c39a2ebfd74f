--------------------------- MODULE Configuration ---------------------------
(***************************************************************************)
(* CONFIG, the one object every part of the daemon reads at any time and   *)
(* several write: the bootstrap (config.js and the self-check of           *)
(* daemon.js), the hot reload, the thermal profiles and the policy         *)
(* engine's scheduler modes.  Of its fields these are the thresholds that  *)
(* go in pairs, the CPU pressure's and the temperature's; the memory       *)
(* pressure's is written where the CPU's is, except by the modes.          *)
(***************************************************************************)
EXTENDS Integers, FiniteSets, LayerConstants

CONSTANTS DefaultConfig,  \* field -> value
          Files,          \* what the file may hold: partial functions of fields
          Illegal,        \* a value the schema refuses
          ThermalPresets, \* PROFILE_PRESETS, "balanced" apart
          Modes,          \* the thresholds a mode writes, both of them
          MaxProfiles     \* bound: the profiles under way

Fields == {"PSI_CPU_WARN", "PSI_CPU_CRITICAL",
           "THERMAL_RESUME_THRESHOLD", "THERMAL_PAUSE_THRESHOLD"}
PsiFields     == {"PSI_CPU_WARN", "PSI_CPU_CRITICAL"}
ThermalFields == Fields \ PsiFields
Unreachable == 999   \* no pressure reaches it: what the self-check sets

ASSUME ConfigAssumption ==
  /\ DefaultConfig \in [Fields -> Int]
  /\ DefaultConfig["PSI_CPU_WARN"] < DefaultConfig["PSI_CPU_CRITICAL"]
  /\ DefaultConfig["THERMAL_RESUME_THRESHOLD"] < DefaultConfig["THERMAL_PAUSE_THRESHOLD"]
  /\ \A f \in Files : DOMAIN f \subseteq Fields /\ \A k \in DOMAIN f : f[k] \in Int \cup {Illegal}
  /\ \A preset \in ThermalPresets :
       /\ preset \in [ThermalFields -> Int]
       /\ preset["THERMAL_RESUME_THRESHOLD"] < preset["THERMAL_PAUSE_THRESHOLD"]
  /\ \A mode \in Modes :
       /\ mode \in [PsiFields -> Int]
       /\ mode["PSI_CPU_WARN"] < mode["PSI_CPU_CRITICAL"]
  /\ Illegal \notin Int /\ None \notin Files
  /\ MaxProfiles \in Nat

VARIABLES config,     \* CONFIG
          file,       \* what the file holds, None when it does not parse
          reloadDue,  \* the debounceTimer of setupHotReload
          snapshots   \* what the profiles under way would put back
configVars == <<config, file, reloadDue, snapshots>>

-----------------------------------------------------------------------------
\* validateField: a missing or illegal value is the default.
Validated(f) == [k \in Fields |->
                   IF k \in DOMAIN f /\ f[k] # Illegal THEN f[k] ELSE DefaultConfig[k]]

\* The cross-field checks: both of a pair revert.
Overwritten(c, values) ==
  [k \in Fields |-> IF k \in DOMAIN values THEN values[k] ELSE c[k]]
Defaults(fields) == [k \in fields |-> DefaultConfig[k]]
PsiReverted(c) ==
  IF c["PSI_CPU_WARN"] >= c["PSI_CPU_CRITICAL"]
  THEN Overwritten(c, Defaults(PsiFields)) ELSE c
ThermalReverted(c) ==
  IF c["THERMAL_RESUME_THRESHOLD"] >= c["THERMAL_PAUSE_THRESHOLD"]
  THEN Overwritten(c, Defaults(ThermalFields)) ELSE c

\* validateAndMerge, of a file that does not parse at the start too.
Merged(f) == IF f = None THEN DefaultConfig ELSE ThermalReverted(PsiReverted(Validated(f)))

\* HOT_RELOADABLE_FIELDS.  A mutant has one less.
HotReloadableButOne == Fields \ {"THERMAL_RESUME_THRESHOLD"}
HotReloadable == Fields

\* The self-check of the bootstrap: without PSI no pressure is ever high.
SelfChecked(c, psi) ==
  IF psi THEN c ELSE Overwritten(c, [k \in PsiFields |-> Unreachable])

ConfigInit ==
  /\ file \in Files \cup {None}
  /\ \E psi \in BOOLEAN : config = SelfChecked(Merged(file), psi)
  /\ reloadDue = FALSE /\ snapshots = {}

-----------------------------------------------------------------------------
\* The user edits the file: the watcher starts the debounce anew.
EditConfig ==
  /\ file' \in (Files \cup {None}) \ {file}
  /\ reloadDue' = TRUE
  /\ UNCHANGED <<config, snapshots>>

\* The debounce of setupHotReload ends: field by field, from the file and the
\* defaults, whatever was there; a file that does not parse changes nothing.
HotReload ==
  /\ reloadDue /\ reloadDue' = FALSE
  /\ config' = IF file = None THEN config
               ELSE [k \in Fields |-> IF k \in HotReloadable THEN Merged(file)[k]
                                      ELSE config[k]]
  /\ UNCHANGED <<file, snapshots>>

\* ThermalController.applyProfile, of a rule or a profile.
ApplyThermalProfile ==
  /\ \E preset \in ThermalPresets \cup {Defaults(ThermalFields)} :
       config' = Overwritten(config, preset)
  /\ UNCHANGED <<file, reloadDue, snapshots>>

\* What _captureSnapshot keeps for setSchedulerMode.
Snapshot == [k \in PsiFields |-> config[k]]

\* _setSchedulerMode, by itself or as the first step of _applyProfile, whose
\* later steps may fail.
SetSchedulerMode ==
  /\ \E mode \in Modes : config' = Overwritten(config, mode)
  /\ \E step \in BOOLEAN :
       /\ step => Cardinality(snapshots) < MaxProfiles
       /\ snapshots' = IF step THEN snapshots \cup {Snapshot} ELSE snapshots
  /\ UNCHANGED <<file, reloadDue>>

\* The rest of the steps of a profile: on failure _restoreSnapshot.
ProfileSettles ==
  /\ \E snapshot \in snapshots, failed \in BOOLEAN :
       /\ snapshots' = snapshots \ {snapshot}
       /\ config' = IF failed THEN Overwritten(config, snapshot) ELSE config
  /\ UNCHANGED <<file, reloadDue>>

ConfigNext == EditConfig \/ HotReload \/ ApplyThermalProfile \/ SetSchedulerMode
              \/ ProfileSettles

-----------------------------------------------------------------------------
\* The thresholds of a pair, in force or kept for later.
PsiInOrder(c) ==
  \/ c["PSI_CPU_WARN"] < c["PSI_CPU_CRITICAL"]
  \/ \A k \in PsiFields : c[k] = Unreachable
ThermalInOrder(c) == c["THERMAL_RESUME_THRESHOLD"] < c["THERMAL_PAUSE_THRESHOLD"]

\* Whoever writes CONFIG, in any order and whatever is put back, the warning
\* comes before the critical pressure (or neither ever), and a pause ends below
\* the temperature it starts at.
ThresholdsInOrder == PsiInOrder(config) /\ ThermalInOrder(config)
=============================================================================
