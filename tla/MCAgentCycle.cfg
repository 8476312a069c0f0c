SPECIFICATION FairSpec
CONSTANTS
  NumAgents = 2
  Accounts <- MCAccounts
  NoAccount = "none"
  Providers = {"gmx"}
  OwnHost = "host"
  Provider <- MCProvider
  Folders <- MCFolders
  NoFolder = "none"
  Default <- MCDefault
  Special <- MCSpecial
  Dead = {"z"}
  Conditions = {"ok", "absent", "undecryptable", "malformed"}
  Initial <- MCInitial
  MaxSaves = 1
  MaxFaults = 1
INVARIANTS
  TypeOK
  CacheHoldsDetection
  StatusTellsOutcome
  CacheFollowsEnv
PROPERTIES
  HealthyAgentsServed
  ExplicitFolderTakesEffect
  ShutdownObeyed
