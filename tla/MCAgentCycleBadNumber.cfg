SPECIFICATION FairSpec
CONSTANTS
  NumAgents = 2
  Accounts <- MCAccounts
  NoAccount = "none"
  Providers = {"gmx"}
  OwnHost = "host"
  Provider <- MCProvider
  Folders <- MCFolders
  NoFolder = "none"
  Default <- MCDefault
  Special <- MCSpecial
  Dead = {"z"}
  Conditions = {"ok", "malformed"}
  Initial <- MCInitialNumber
  MaxSaves = 0
  MaxFaults = 0
PROPERTY
  BrokenNeighbourHarmless
