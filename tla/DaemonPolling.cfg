SPECIFICATION Spec

CONSTANTS
  p1 = p1
  p2 = p2
  NoPid = NoPid
  Pids = {p1, p2}
  Parent <- Unrelated
  GamePids = {}
  Handlers = {}
  MaxStart = 2
  MaxDaemons = 2
  OomProtection = TRUE
  GovernorSwitch = TRUE
  Commands <- NoCommands

INVARIANTS
  OnlyForegroundBoosted
PROPERTIES
  RecoveryFreesThrottled
  RecoverySparesStrangers
  RecoveryRestoresGovernor
SYMMETRY Symmetry
