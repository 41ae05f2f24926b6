CONSTANTS
  Patterns <- EveryPattern
  HighWaterMarks = {1, 4}
  Items = 4
  Tagged <- FirstAndLast
  UpCap = 3
  DownCap = 2
  Word = 16
  MaxTimers = 1
SPECIFICATION Spec
INVARIANTS StreamArrivesInOrder TagsStayWithItems
PROPERTY MessagesArrive
CHECK_DEADLOCK FALSE
