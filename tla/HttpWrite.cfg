SPECIFICATION FairSpec
CONSTANTS
  Files = {0, 1, 2}
  HeadLen = 3
  ErrorLen = 7
  MaxConns = 4
INVARIANTS
  FileMappedWhileSent
  UnmapsWhatWasMapped
  MappingsLost
  SentWhole
PROPERTY
  WriteReturns
CHECK_DEADLOCK FALSE
