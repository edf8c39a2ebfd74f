SPECIFICATION Spec

CONSTANTS
  Profiles = {"gaming", "battery-saver", "balanced", "idle"}
  None = None
  Balanced = "balanced"
  Idle = "idle"
  WorkloadProfiles = {"gaming", "balanced"}
  PowerProfiles = {"battery-saver"}
  Priority <- BuiltinPriority
  OverridePriority = 1000
  IdleTimeout = 3
  Debounce = 1
  Cooldown = 1
  Window = 6
  Threshold = 3
  OverrideProfiles = {"battery-saver"}
  MaxOverrides = 0
  MaxTime = 5

INVARIANTS
  WithdrawnStaysWithdrawn
