SPECIFICATION Spec
CHECK_DEADLOCK FALSE
CONSTANTS
  Sessions = {"s", ""}
  Anonymous = ""
  Targets = {"t", "u"}
  Quotes = FALSE
  Ttl = 1
  MaxRequests = 2
  MaxClock = 2
  MaxEvents = 1
INVARIANT
  AnswerIsRedeemable
