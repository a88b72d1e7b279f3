SPECIFICATION HeapSpec
CONSTANTS
  t1 = t1
  t2 = t2
  t3 = t3
  t4 = t4
  t5 = t5
  Timers <- MCTimers
  Times <- MCTimes
  Capacity = 4
SYMMETRY Symmetry
INVARIANTS
  HeapOrdered
  IndexRight
PROPERTY
  ImplementsTimerQueue
