SPECIFICATION Spec

CONSTANTS
  NormalToWarn = 2
  WarnToCritical = 1
  CriticalToNormal = 3
  PauseDuration = 3
  Jumps = {1, 2}
  MaxTime = 7

INVARIANTS
  TypeOK
  PressureFollowed
  PauseFollowsHeat
  NoRaiseInPause
PROPERTIES
  DwellRespected
