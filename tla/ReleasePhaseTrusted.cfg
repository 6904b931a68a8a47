SPECIFICATION Spec
CONSTANTS
  Specs <- NewWork
  Nothing = Nothing
  Keys = {"token"}
  Values = {"v1", "v2"}
  Unusable = Unusable
  RefSecrets <- TheRef
  Remote = TRUE
  SameSecond = FALSE
  Budget = 1
  Names = 3
  SecretAges = 1
  DeployAges = 1
INVARIANT PhaseTrusted
CHECK_DEADLOCK FALSE
