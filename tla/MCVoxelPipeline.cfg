SPECIFICATION Spec
CONSTANTS
  PoolSize = 3
  MaxGen = 1
  MaxWindows = 3
  MaxGaps = 1
INVARIANTS
  PoolConsistent
  SlotMatchesRouter
PROPERTIES
  StateContinuous
  SlotsReleased
CHECK_DEADLOCK FALSE
