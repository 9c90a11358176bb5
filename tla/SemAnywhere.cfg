CONSTANTS
  t1 = t1
  t2 = t2
  t3 = t3
  t4 = t4
  s1 = s1
  s2 = s2
  Tasks <- Trio
  Dispatcher = dispatcher
  NULL = NULL
  Sems <- One
  WaitQueues <- One
  Labels <- SemLabels
  Preemptible <- Anywhere
  QUANTUM_LIMIT = 1
  CLOCK_MOD = 1
  MaxClock = 1
  InitialValue <- Value1
  Observed = s1
  OtherCalls <- NoCalls
  Program <- Destroyer
SPECIFICATION Spec
INVARIANTS LockCovers LockHolderRuns MutualExclusion
CHECK_DEADLOCK FALSE
