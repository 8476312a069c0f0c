SPECIFICATION Spec
CHECK_DEADLOCK FALSE
CONSTANTS
  Sessions = {"s", ""}
  Anonymous = ""
  Targets = {"t", "u"}
  Quotes = TRUE
  Ttl = 1
  MaxRequests = 2
  MaxClock = 2
  MaxEvents = 1
INVARIANTS
  TypeOK
  TokenNeedsUserTurn
  SessionMoveWasConfirmed
