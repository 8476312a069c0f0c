SPECIFICATION Spec
CONSTANTS
  N = 2
  Names <- MCNames
  FirstName = "x"
  Asks <- MCAsks
  MaxCycles = 2
INVARIANTS
  TypeOK
  Decryptable
  DraftedOnce
PROPERTIES
  AloneIsAtomic
CHECK_DEADLOCK FALSE
