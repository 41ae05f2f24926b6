SPECIFICATION Spec
CONSTANTS
  r1 = r1
  r2 = r2
  Readers <- TwoReaders
  NumItems = 4
  ItemSize = 1
  ReaderItemSize <- UnitSizes
  MinFill = 2
  MinRead = 2
  Threads = TRUE
  MaxItems = 8
INVARIANTS
  TypeOK
  NotBothBlocked
PROPERTIES
  NeverAdjusts
  ImplementsChannel
CHECK_DEADLOCK FALSE
