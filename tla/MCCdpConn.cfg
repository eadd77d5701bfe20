CONSTANTS
  Calls = {c1, c2}
  None = None
SPECIFICATION Spec
INVARIANTS
  TypeOK
  OwnReply
  NothingLeftPending
  ReaderNeverBlocks
PROPERTIES
  CallsReturn
  CloseEnds
