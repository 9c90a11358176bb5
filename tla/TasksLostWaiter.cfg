CONSTANTS
  main = main
  t1 = t1
  t2 = t2
  t3 = t3
  Tasks <- Pair
  Main = main
  Dispatcher = dispatcher
  NULL = NULL
  WaitQueues <- NoWaitQueues
  Labels <- TasksLabels
  Preemptible <- Anywhere
  QUANTUM_LIMIT = 1
  CLOCK_MOD = 1
  MaxClock = 1
  Ops <- Waiters
  Creates <- MainCreatesPair
  Waits <- MainWaits
  Durations = {1}
  Priorities <- LevelPriorities
  LeastPriority <- Bottom
SPECIFICATION Spec
CHECK_DEADLOCK FALSE
INVARIANTS NoLostWaiter
