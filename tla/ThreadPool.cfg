SPECIFICATION FairSpec
CONSTANTS
  w1 = w1
  w2 = w2
  p1 = p1
  p2 = p2
  r1 = r1
  r2 = r2
  Workers <- MCWorkers
  Producers <- MCProducers
  Requests <- MCRequests
  NULL = NULL
  NoThread = NoThread
  MaxRequests = 1
  Interruptible = TRUE
INVARIANTS
  TypeOK
  CriticalSection
  QueueBound
  NoLostWakeup
PROPERTIES
  ImplementsRequestQueue
  AcceptedIsStarted
CHECK_DEADLOCK FALSE
