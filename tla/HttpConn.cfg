SPECIFICATION FairSpec
CONSTANT READ_BUFFER_SIZE = 6
INVARIANTS
  IndexOrder
  LinesAreCut
  FileNeedsRequest
PROPERTY
  ReturnsUnlessStuck
CHECK_DEADLOCK FALSE
