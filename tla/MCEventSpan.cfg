SPECIFICATION Spec
CONSTANTS
  MaxGen = 2
  MaxEvents = 6
  MaxLen = 3
INVARIANTS
  EventsAccounted
  WindowsOneGeneration
PROPERTIES
  StateContinuous
CHECK_DEADLOCK FALSE
