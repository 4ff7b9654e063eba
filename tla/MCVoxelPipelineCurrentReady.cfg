SPECIFICATION Spec
CONSTANTS
  PoolSize = 2
  MaxGen = 1
  MaxWindows = 2
  MaxGaps = 0
PROPERTIES
  CurrentReadyKept
CHECK_DEADLOCK FALSE
