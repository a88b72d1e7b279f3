SPECIFICATION Spec
CONSTANTS
  t1 = t1
  t2 = t2
  t3 = t3
  t4 = t4
  Timers <- MCTimers
  Times <- MCTimes
SYMMETRY Symmetry
INVARIANTS
  Linked
  Sorted
PROPERTIES
  ImplementsTimerQueue
