SPECIFICATION FairSpec
CONSTANTS
  NumMails = 4
  Ids <- MCIds
  NoId = "none"
  MsgId <- MCMsgId
  Own = {2}
  Poison = {1}
  Backfill = 0
  MaxDay = 2
  MaxFaults = 2
INVARIANTS
  TypeOK
  DraftsAccounted
PROPERTIES
  ImplementsLedger
  EveryMailDecided
