CONSTANTS
  main = main
  t1 = t1
  t2 = t2
  t3 = t3
  Tasks <- Trio
  Main = main
  Dispatcher = dispatcher
  NULL = NULL
  WaitQueues <- NoWaitQueues
  Labels <- TasksLabels
  Preemptible <- OutsideWindows
  QUANTUM_LIMIT = 2
  CLOCK_MOD = 16
  MaxClock = 3
  Ops <- LiveRoles
  Creates <- MainCreatesTrio
  Waits <- ChainWaits
  Durations = {1}
  Priorities <- RaisedPriorities
  LeastPriority <- Bottom
SPECIFICATION FairSpec
CHECK_DEADLOCK FALSE
INVARIANTS NoLostWaiter NoTaskStranded NoEarlyShutdown AgeBound
PROPERTIES NoEarlyWake WaitersReturn SleepersReturn ShutsDown
