SPECIFICATION Spec
CONSTANTS
  c1 = c1
  c2 = c2
  block = block
  v0 = v0
  v1 = v1
  Clients <- TwoClients
  Self = block
  Values <- TwoValues
  InitialValue = v0
  Kinds <- SetGetAndSet
  MaxCalls <- TwiceAndOnce
  MaxUpdates = 1
  Stops = TRUE
INVARIANT
  TypeOK
  ReadyMeansServed
PROPERTY
  ImplementsRegister
  RequestsReturn
CHECK_DEADLOCK FALSE
