SPECIFICATION Spec

CONSTANTS
  Profiles = {"gaming", "battery-saver", "balanced", "idle"}
  None = None
  Balanced = "balanced"
  Idle = "idle"
  WorkloadProfiles = {"gaming", "balanced"}
  PowerProfiles = {"battery-saver"}
  Priority <- BuiltinPriority
  OverridePriority = 450
  IdleTimeout = 3
  Debounce = 1
  Cooldown = 1
  Window = 6
  Threshold = 3
  OverrideProfiles = {"idle"}
  MaxOverrides = 1
  MaxTime = 8

INVARIANTS
  TypeOK
  ProfileFollowsDetectors
  OverrideWins
  NoOscillation
PROPERTIES
  SuccessesSpaced
  ImplementsSelection
