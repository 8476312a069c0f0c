SPECIFICATION Spec
CHECK_DEADLOCK FALSE
CONSTANTS
  Mails <- MCMails
  Target = "m"
  Uid = 1
  OtherUids = {2, 3}
  FreshUid = 9
  Folders <- MCFolders
  WithId = {TRUE, FALSE}
  Servers <- MCServers
  MaxOthers = 2
  MaxFaults = 1
INVARIANTS
  TypeOK
  NothingLost
  NewBeforeOld
  SuccessIsReal
  ErasureIsTargeted
