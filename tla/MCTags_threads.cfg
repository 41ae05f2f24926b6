SPECIFICATION Spec
CONSTANTS
  s1 = s1
  s2 = s2
  Sinks <- TwoSinks
  Rate <- Rates
  Capacity = 3
  MaxItems = 4
  MaxTags = 3
CONSTRAINT UntilDisturbed
INVARIANTS
  TagsReachTheirItems
  TagsPrecedeItems
CHECK_DEADLOCK FALSE
