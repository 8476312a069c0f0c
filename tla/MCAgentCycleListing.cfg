SPECIFICATION Spec
CONSTANTS
  NumAgents = 2
  Accounts <- MCAccounts
  NoAccount = "none"
  Providers = {"gmx"}
  OwnHost = "host"
  Provider <- MCProvider
  Folders <- MCFolders
  NoFolder = "none"
  Default <- MCDefault
  Special <- MCSpecial
  Dead = {"z"}
  Conditions = {"ok"}
  Initial <- MCGood
  MaxSaves = 0
  MaxFaults = 1
INVARIANT
  FallbackIsReal
