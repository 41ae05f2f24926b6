SPECIFICATION Spec
CONSTANTS
  BlockSeq <- LongChain
  Edges <- LongChainEdges
  Group <- HalfInThreads
  SchedOf <- TwoSchedulers
  Limit <- SourceStopsAfterFive
  MinRead <- MiddleMinimum
  BufItems = 4
  Partial = FALSE
  FlushCount = 2
  AppStops = FALSE
INVARIANTS
  NoLostWakeup
  FlushedIsNotDropped
  ExitsAfterAllFlushed
  HangsOnlyByStarving
CHECK_DEADLOCK FALSE
