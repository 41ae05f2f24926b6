CONSTANTS
  Kinds <- EveryKind
  FixedItems = 5
  MaxFeed = 10
  MaxOut = 7
  Streams = 2
  BlockSize = 2
  Delays = {0, 3}
  MaxChanges = 2
  M = 2
  N = 3
  Offset = 2
  NItems = 5
  DataSize = 3
  Taps = 3
  FirDecim = 2
  Length = 2
  MaxIter = 3
  MinReads <- DefaultAndNeeded
  Word = 64
  Itemsizes = {"given", "unknown"}
SPECIFICATION Spec
INVARIANTS TypeOK OutputIsFunction DelayAddsUp
PROPERTY AllIsUsed
CONSTRAINT UntilAstray
CHECK_DEADLOCK FALSE
