SPECIFICATION Spec
CONSTANTS
  Layouts <- AllLayouts
  MaxCrashes = 2
INVARIANTS
  TakenOver
CHECK_DEADLOCK FALSE
