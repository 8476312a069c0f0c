SPECIFICATION Spec
CONSTANTS
  Layouts <- AllLayouts
  MaxCrashes = 2
INVARIANTS
  TypeOK
  SettingsSurvive
  MigratedWhenServing
  NoPhantomAgent
CHECK_DEADLOCK FALSE
