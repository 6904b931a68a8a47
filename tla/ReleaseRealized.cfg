SPECIFICATION FairSpec
CONSTANTS
  Specs <- AllSpecs
  Nothing = Nothing
  Keys = {"token"}
  Values = {"v1", "v2"}
  Unusable = Unusable
  RefSecrets <- TheRef
  Remote = TRUE
  SameSecond = FALSE
  Budget = 1
  Names = 3
  SecretAges = 2
  DeployAges = 1
INVARIANT ReportsFit
PROPERTIES KeepsOthersWrites 
CHECK_DEADLOCK FALSE
