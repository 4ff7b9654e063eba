SPECIFICATION Spec
CONSTANTS
  MaxBatches = 4
  MaxPayload = 4
  Sizes = {1, 3, 5}
  MaxSeq = 3
  MaxGen = 1
  OrderedWorker = FALSE
INVARIANTS
  QueueIsTaggedSuffix
  BatchesAccounted
  SenderAwake
PROPERTIES
  SkipsMarked
  PublishedNotStale
  StopReleases
CHECK_DEADLOCK FALSE
