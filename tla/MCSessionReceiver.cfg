SPECIFICATION Spec
CONSTANTS
  MaxSeq = 3
  MaxBatches = 2
  PoolSize = 1
  Failers = {"reader", "results"}
INVARIANTS
  TypeOK
  QueueIsFreshSuffix
  NoResultAfterError
  NoStatusLost
PROPERTIES
  ClaimsContiguous
  ConnectedMeansFresh
  WireGenerationsMonotone
  NewGenerationAnnounced
CHECK_DEADLOCK FALSE
