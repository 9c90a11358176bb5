CONSTANTS
  t1 = t1
  t2 = t2
  t3 = t3
  t4 = t4
  s1 = s1
  s2 = s2
  Tasks <- Four
  Dispatcher = dispatcher
  NULL = NULL
  Sems <- One
  WaitQueues <- One
  Labels <- SemLabels
  Preemptible <- HandOver
  QUANTUM_LIMIT = 1
  CLOCK_MOD = 1
  MaxClock = 1
  InitialValue <- Value2
  Observed = s1
  OtherCalls <- NoCalls
  Program <- Guards
SPECIFICATION Spec
INVARIANTS PermitsRespected NoLostWakeup NoNullResume
PROPERTIES ImplementsSemaphore
SYMMETRY SymmetricTasks
