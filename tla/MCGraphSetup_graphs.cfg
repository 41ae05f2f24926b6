SPECIFICATION Spec
CONSTANTS
  Blocks <- TheBlocks
  Hiers <- TheHiers
  Inputs <- TheInputs
  Outputs <- TheOutputs
  HierEdges <- TheHierEdges
  Declared <- Sizes
  Complex = 8
  Groups <- OneGroup
  Null = Null
  MaxEdges = 3
  MaxSchedulers = 2
INVARIANTS
  WorksIffSupported
  NeighboursNotified
CHECK_DEADLOCK FALSE
