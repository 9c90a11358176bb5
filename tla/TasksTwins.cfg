CONSTANTS
  main = main
  t1 = t1
  t2 = t2
  t3 = t3
  Tasks <- Quartet
  Main = main
  Dispatcher = dispatcher
  NULL = NULL
  WaitQueues <- NoWaitQueues
  Labels <- TasksLabels
  Preemptible <- InIds
  QUANTUM_LIMIT = 1
  CLOCK_MOD = 1
  MaxClock = 1
  Ops <- Twins
  Creates <- TwoCreators
  Waits <- MainAwaits2
  Durations = {1}
  Priorities <- LevelPriorities
  LeastPriority <- Bottom
SPECIFICATION Spec
CHECK_DEADLOCK FALSE
INVARIANTS WaitReturnsExitCode
