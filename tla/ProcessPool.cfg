SPECIFICATION FairSpec
CONSTANTS
  N = 2
  PipeRoom = 2
  LowWater = 0
  MaxConns = 3
  Talking = {2}
INVARIANTS
  BacklogCounted
  FullPipeIsRead
  StopsLast
PROPERTIES
  AllTerminate
  ConnectionsAreAccepted
CHECK_DEADLOCK FALSE
