CONSTANTS
  t1 = t1
  t2 = t2
  t3 = t3
  t4 = t4
  s1 = s1
  s2 = s2
  Tasks <- Four
  Dispatcher = dispatcher
  NULL = NULL
  Sems <- Two
  WaitQueues <- Two
  Labels <- SemLabels
  Preemptible <- StaleWaker
  QUANTUM_LIMIT = 1
  CLOCK_MOD = 1
  MaxClock = 1
  InitialValue <- MutexAndPair
  Observed = s1
  OtherCalls <- NoCalls
  Program <- OneAfterTheOther
SPECIFICATION Spec
INVARIANTS PermitsRespected
CHECK_DEADLOCK FALSE
