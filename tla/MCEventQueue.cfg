SPECIFICATION Spec
CONSTANTS
  MaxBatches = 4
  MaxBytes = 8
  TriggerBytes = 6
  TargetBytes = 3
  WaitLimit = 2
  WaitTarget = 1
  Sizes = {1, 3, 4, 8}
  MaxSeq = 5
  MaxTime = 4
INVARIANTS
  BytesExact
PROPERTIES
  TakenFresh
  NewestKept
  FifoImplemented
CHECK_DEADLOCK FALSE
