SPECIFICATION FairSpec
CONSTANTS
  Commits = {c1, c2}
  None = None
  Mixed = Mixed
  Modes <- Rewound
  Pushes = 2
  Faults = 0
PROPERTY EventuallyApplied
CHECK_DEADLOCK FALSE
