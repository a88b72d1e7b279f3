SPECIFICATION Spec
CONSTANTS
  w1 = w1
  w2 = w2
  Workers <- TwoWorkers
  Main = main
  NumFds = 2
  MAX_FD = 1
  MaxRequests = 1
  MaxConns = 3
SYMMETRY Symmetry
INVARIANTS
  OneOwner
  SlotMatchesSocket
  CountExact
CHECK_DEADLOCK FALSE
