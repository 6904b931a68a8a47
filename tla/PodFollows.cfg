SPECIFICATION FairSpec
CONSTANTS
  Commits = {c1, c2}
  None = None
  Mixed = Mixed
  Modes <- Healing
  Pushes = 2
  Faults = 2
INVARIANTS TypeOK LinkWhole Tidy
PROPERTIES ChecksDeployed RollsOut EventuallyApplied
CHECK_DEADLOCK FALSE
