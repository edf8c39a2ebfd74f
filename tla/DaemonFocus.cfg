SPECIFICATION FairSpec

CONSTANTS
  p1 = p1
  p2 = p2
  NoPid = NoPid
  Pids = {p1, p2}
  Parent <- Unrelated
  GamePids = {}
  Handlers = {1}
  MaxStart = 1
  MaxDaemons = 1
  OomProtection = FALSE
  GovernorSwitch = FALSE
  Commands <- NoCommands

PROPERTIES
  FocusConverges
