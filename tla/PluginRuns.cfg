SPECIFICATION FairSpec
CONSTANTS
  Objects <- Five
  Histories <- Four
  SkipList <- SkipB2
  Budget = 1
INVARIANT TypeOK
PROPERTIES RunsAll TestedReady DryRunIsDry EventuallyChecked
CHECK_DEADLOCK FALSE
