SPECIFICATION Spec

CONSTANTS
  p1 = p1
  p2 = p2
  NoPid = NoPid
  Pids = {p1, p2}
  Parent <- Forking
  GamePids = {p2}
  Handlers = {1}
  MaxStart = 1
  MaxDaemons = 2
  OomProtection = FALSE
  GovernorSwitch = FALSE
  Commands <- SomeCommands

INVARIANTS
  TypeOK
  ThrottledIsTracked
  NormalLeavesNothingThrottled
  ForegroundNotThrottled
  ThrottleIsPersisted
PROPERTIES
