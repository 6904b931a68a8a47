SPECIFICATION Spec
CONSTANTS
  Specs <- OneSpec
  Nothing = Nothing
  Keys = {"token"}
  Values = {"v1", "v2"}
  Unusable = Unusable
  RefSecrets <- AnyRef
  Remote = TRUE
  SameSecond = FALSE
  Budget = 2
  Names = 3
  SecretAges = 3
  DeployAges = 1
INVARIANT MountedSecretExists
PROPERTY MountedSecretKept
CHECK_DEADLOCK FALSE
