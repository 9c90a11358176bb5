CONSTANTS
  main = main
  t1 = t1
  t2 = t2
  t3 = t3
  Tasks <- Trio
  Main = main
  Dispatcher = dispatcher
  NULL = NULL
  WaitQueues <- NoWaitQueues
  Labels <- TasksLabels
  Preemptible <- Anywhere
  QUANTUM_LIMIT = 1
  CLOCK_MOD = 1
  MaxClock = 1
  Ops <- Creators
  Creates <- MainCreatesTrio
  Waits <- NoWaits
  Durations = {1}
  Priorities <- LevelPriorities
  LeastPriority <- Bottom
SPECIFICATION Spec
CHECK_DEADLOCK FALSE
INVARIANTS NoEarlyShutdown
