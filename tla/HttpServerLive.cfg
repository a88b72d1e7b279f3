SPECIFICATION FairSpec
CONSTANTS
  w1 = w1
  w2 = w2
  Workers <- TwoWorkers
  Main = main
  NumFds = 2
  MAX_FD = 2
  MaxRequests = 1
  MaxConns = 2
PROPERTIES
  BytesAreReceived
  BacklogIsAccepted
CHECK_DEADLOCK FALSE
