SPECIFICATION Spec
CONSTANTS
  BlockSeq <- ReverseChain
  Edges <- LongChainEdges
  Group <- LongGroup
  SchedOf <- OneScheduler
  Limit <- LongHeadStops
  MinRead <- SinkMinimum
  BufItems = 4
  Partial = TRUE
  FlushCount = 8
  AppStops = TRUE
INVARIANTS
  TypeOK
  AllDelivered
PROPERTY
  ShutsDown
CHECK_DEADLOCK FALSE
