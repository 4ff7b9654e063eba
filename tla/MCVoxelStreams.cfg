SPECIFICATION Spec
CONSTANTS
  PoolSize = 3
  Stages = 2
  MaxBatch = 2
  MaxEvents = 5
INVARIANTS
  InferenceReadsWindow
  StagingIntact
  StagedOfCurrent
  ClosedIdle
CHECK_DEADLOCK FALSE
