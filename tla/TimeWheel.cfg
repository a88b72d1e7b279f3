SPECIFICATION Spec
CONSTANTS
  t1 = t1
  t2 = t2
  t3 = t3
  Timers <- MCTimers
  Timeouts <- MCTimeouts
  N = 3
  SI = 2
SYMMETRY Symmetry
INVARIANTS
  InItsSlot
PROPERTIES
  ImplementsCountdown
  StartsAtTimeout
