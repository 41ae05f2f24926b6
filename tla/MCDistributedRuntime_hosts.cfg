SPECIFICATION Spec
CONSTANTS
  h1 = h1
  h2 = h2
  h3 = h3
  none = none
  Primary = h1
  Proxies <- OneRemote
  Connected <- AllConnected
  NoId = none
INVARIANTS
  TypeOK
  ExitsAfterFlushed
  FlushedIsNotDropped
PROPERTIES
  DoneEndsAll
  StopEndsPrimary
CHECK_DEADLOCK FALSE
