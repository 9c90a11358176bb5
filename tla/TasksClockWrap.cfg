CONSTANTS
  main = main
  t1 = t1
  t2 = t2
  t3 = t3
  Tasks <- Pair
  Main = main
  Dispatcher = dispatcher
  NULL = NULL
  WaitQueues <- NoWaitQueues
  Labels <- TasksLabels
  Preemptible <- Anywhere
  QUANTUM_LIMIT = 1
  CLOCK_MOD = 4
  MaxClock = 6
  Ops <- Sleepers
  Creates <- MainCreatesPair
  Waits <- NoWaits
  Durations = {2}
  Priorities <- LevelPriorities
  LeastPriority <- Bottom
SPECIFICATION Spec
CHECK_DEADLOCK FALSE
PROPERTIES NoEarlyWake
