SPECIFICATION Spec
CONSTANTS
  Undefined = Undefined
  None = None
  AnyEvent = AnyEvent
  unreadable = unreadable
  Unreadable = unreadable
  Conditions <- MCConditions
  Documents <- MCDocuments
  Readings <- MCReadings
  Edits <- MCEdits
  ProcessLists <- MCProcessLists
  DefaultPsi <- MCDefaultPsi
  FilePsi <- MCFilePsi
  RuleIds = {1, 2, 3}
  DefaultCooldown = 1
  MinEmitCooldown = 1
  MaxRules = 5
  LongAgo = 1
  BatteryLow = 20
  ThermalHigh = 75
  Cores = {1, 2}
  ForegroundCores = {1}
  Governors = {"powersave", "schedutil", "performance"}
  InvalidGovernor = "turbo"
  InitialGovernor = "schedutil"
  Pids = {11}
  Debounce = 1
  Late = 0
  MaxWaiting = 2
INVARIANTS AuditComplete GovernorHandedBack FailedActionUndone
CHECK_DEADLOCK FALSE
PROPERTIES LoopComesToRest EditsTakeEffect
