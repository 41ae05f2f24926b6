SPECIFICATION Spec
CONSTANTS
  BlockSeq <- Chain
  Edges <- ChainEdges
  Group <- OneThreadEach
  SchedOf <- OneScheduler
  Limit <- SourceStopsAtOnce
  MinRead <- NoMinimum
  BufItems = 2
  Partial = FALSE
  FlushCount = 8
  AppStops = FALSE
INVARIANT
  AllDelivered
CHECK_DEADLOCK FALSE
