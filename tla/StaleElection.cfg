SPECIFICATION Spec
CONSTANTS
  Events = {"a", "b", "c"}
  Labels = {"a", "b", "c", "x"}
  Groups = {"g"}
  Pipelines = {"p1", "p2"}
  Workers = {"w1", "w2"}
  Plans <- OnlyLeader
INVARIANT FollowsALeader
CHECK_DEADLOCK FALSE
