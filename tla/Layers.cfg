SPECIFICATION Spec
CONSTANTS
  None = None
  Apps = {"doom", "firefox", "mpv"}
  Pids = {p1, p2, p3}
  Protected = {p3}
  NoPid = NoPid
  Hold = 1
  Cooldown = 3
  TickEvery = 2
  MaxPerTick = 1
  MaxReloads = 2
  MinObservations = 2
  Threshold = 70
  PredictionHold = 1
  PredictionCooldown = 2
  MaxObservations = 2
  Directories = {"p1", "p2", "p3", "p1again"}
  PluginId <- MCPluginId
  DependsOn <- MCDependsOn
  Class <- MCClass
  IdleTicks = 2
  Overflow = 4
  MaxApps = 2
  TotalTicks = 2
  MaxSpent = 4
  Illegal = Illegal
  DefaultConfig <- MCDefaultConfig
  Files <- MCFiles
  ThermalPresets <- MCThermalPresets
  Modes <- MCModes
  MaxProfiles = 1
  Builtins <- MCBuiltins
  ProfileDocuments <- MCProfileDocuments
  PluginProfiles <- MCPluginProfiles
  CallsFor <- MCCallsFor
  DefaultProfile = "balanced"
  KnownPresets <- MCKnownPresets
INVARIANTS StoppedIsKnown ControllersLetGo DependentsUnloadedFirst EnergyAccounted ThresholdsInOrder
PROPERTIES SuspensionEnds PreallocationEnds WorkloadGetsItsProfile ProfileInForce
CHECK_DEADLOCK FALSE
