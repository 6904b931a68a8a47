SPECIFICATION FairSpec
CONSTANTS
  Specs = {"a", "b"}
  Limit <- OneOrTwo
  Controllers = {"old", "new"}
  Codec <- TwoBuilds
  Generations = 2
  Nudges = 1
  Copies = 2
  Ids = 5
INVARIANTS TypeOK Truthful
PROPERTIES KeepsCurrent HistorySettles
CHECK_DEADLOCK FALSE
