SPECIFICATION Spec
CONSTANTS
  MaxBatches = 2
  MaxPayload = 4
  Sizes = {1, 3, 5}
  MaxSeq = 3
  MaxGen = 1
  OrderedWorker = TRUE
INVARIANTS
  FailureReported
CHECK_DEADLOCK FALSE
