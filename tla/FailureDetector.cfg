CONSTANTS
  Period = 4
  MaxDelay = 3
  WindowSize = 4
  MinStd = 2
  YSquared = 3
  DetectBound = 13
SPECIFICATION Spec
CHECK_DEADLOCK FALSE
INVARIANTS
  TypeOK
  NoFalseSuspicion
  DetectsInTime
