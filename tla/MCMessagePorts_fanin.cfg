SPECIFICATION Spec
CONSTANTS
  Blocks <- Three
  Connected <- FanIn
  Owner <- TwoThreads
  MaxMessages <- SinkStops
  Posts <- FanInPosts
INVARIANTS
  HandledByOwnerInOrder
PROPERTIES
  AllCounted
  FinishIsReported
CHECK_DEADLOCK FALSE
