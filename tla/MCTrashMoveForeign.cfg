SPECIFICATION Spec
CHECK_DEADLOCK FALSE
CONSTANTS
  Mails <- MCMails
  Target = "m"
  Uid = 1
  OtherUids = {2, 3}
  FreshUid = 9
  Folders <- MCPlainOnly
  WithId = {TRUE}
  Servers <- MCServersTargeted
  MaxOthers = 1
  MaxFaults = 0
INVARIANT
  ForeignKept
