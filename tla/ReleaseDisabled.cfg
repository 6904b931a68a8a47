SPECIFICATION FairSpec
CONSTANTS
  Specs <- Disable
  Nothing = Nothing
  Keys = {"token"}
  Values = {"v1", "v2"}
  Unusable = Unusable
  RefSecrets <- TheRef
  Remote = TRUE
  SameSecond = FALSE
  Budget = 1
  Names = 3
  SecretAges = 1
  DeployAges = 2
PROPERTY DisabledStops
CHECK_DEADLOCK FALSE
