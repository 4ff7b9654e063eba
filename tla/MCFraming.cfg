SPECIFICATION FramingSpec
CONSTANTS
  Threads = {t1, t2}
  ResultThread = t1
  Capacity = 2
  Payload = 4
  MaxPackets = 3
INVARIANTS
  DeliveredInOrder
  EventsEndTruly
PROPERTIES
  FailureEnds
CHECK_DEADLOCK FALSE
