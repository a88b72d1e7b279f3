SPECIFICATION Spec
CONSTANTS
  t1 = t1
  t2 = t2
  Timers <- MCTimers
  Times <- MCTimes
  Capacity = 1
  NumFds = 2
  Idle = 2
  MaxTime = 4
SYMMETRY Symmetry
INVARIANTS
  TimerOfConnection
  AlarmInTime
  AlarmComing
PROPERTIES
  HeapUsedAsMeant
  ClosedOnlyWhenIdle
CHECK_DEADLOCK FALSE
