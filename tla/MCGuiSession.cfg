SPECIFICATION Spec
CONSTANTS
  MaxStarts = 3
  MaxApplied = 2
  MaxGen = 3
INVARIANTS
  TypeOK
PROPERTIES
  PresentedFresh
  StopFinal
  AskedHappens
CHECK_DEADLOCK FALSE
