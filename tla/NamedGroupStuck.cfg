SPECIFICATION FairSpec
CONSTANTS
  Events = {"a", "b", "c"}
  Labels = {"a", "b", "c", "x"}
  Groups = {"g"}
  Pipelines = {"p1", "p2"}
  Workers = {"w1", "w2"}
  Plans <- OnlyNameAndGroup
PROPERTY EventuallyDone
CHECK_DEADLOCK FALSE
