SPECIFICATION Spec
CONSTANTS
  r1 = r1
  r2 = r2
  Readers <- TwoReaders
  NumItems = 4
  ItemSize = 2
  ReaderItemSize <- TwoSizes
  DoubleMapped = FALSE
  SplitWrite = TRUE
  Word = 65536
  MaxBytes = 16
CONSTRAINT
  UntilMisled
INVARIANTS
  TypeOK
  AvailableIsExact
  WriteWindowIsFree
  StreamIntegrity
  NotBothBlocked
PROPERTIES
  ImplementsChannel
