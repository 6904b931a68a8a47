SPECIFICATION FairSpec
CONSTANTS
  Specs <- OneSpec
  Nothing = Nothing
  Keys = {"token"}
  Values = {"v1", "v2"}
  Unusable = Unusable
  RefSecrets <- TheRef
  Remote = FALSE
  SameSecond = FALSE
  Budget = 1
  Names = 3
  SecretAges = 2
  DeployAges = 1
INVARIANTS TypeOK  
PROPERTIES   DeletionEnds
CHECK_DEADLOCK FALSE
