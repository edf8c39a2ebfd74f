SPECIFICATION Spec

CONSTANTS
  p1 = p1
  p2 = p2
  NoPid = NoPid
  Pids = {p1, p2}
  Parent <- Unrelated
  GamePids = {}
  Handlers = {}
  MaxStart = 1
  MaxDaemons = 1
  OomProtection = FALSE
  GovernorSwitch = FALSE
  Commands <- NoCommands

PROPERTIES
  CleanupRestoresThrottled
