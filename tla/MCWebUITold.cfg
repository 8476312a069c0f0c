SPECIFICATION Spec
CONSTANTS
  Slots = {s1, s2}
  Traffic <- MCChat
  Passwords = {p, q}
  None = None
  MaxFailures = 2
  Window = 2
  Lockout = 2
  AddinLimit = 2
  AddinPeriod = 2
  MaxTime = 4
  MaxSessions = 1
  MaxWrites = 3
  Files = {1, 2}
  Turns = {t1, t2}
  NoFile = 0
  UploadTtl = 1
  MaxSends = 2
  MaxResets = 1
  MaxRestarts = 1
SYMMETRY Alike
INVARIANTS
  ToldIsOfThisSession
CHECK_DEADLOCK FALSE
