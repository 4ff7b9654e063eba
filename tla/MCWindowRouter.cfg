SPECIFICATION BufSpec
CONSTANTS
  Window = 2
  MaxGap = 3
  RosMod = 6
  MaxTime = 4
  MaxLen = 2
  MaxPushes = 3
  MaxLost = 1
INVARIANTS
  EventsConserved
  WindowsOnGrid
  LossesNoticed
  SameWindows
CHECK_DEADLOCK FALSE
