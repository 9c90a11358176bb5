CONSTANTS
  driver = driver
  t1 = t1
  t2 = t2
  t3 = t3
  Driver = driver
  s_disk = sem_disk
  DiskQueue = disk_queue
  Tasks <- TwoClients
  Dispatcher = dispatcher
  NULL = NULL
  Sems <- DiskSems
  WaitQueues <- DiskQueues
  Labels <- SemLabels
  Preemptible <- Anywhere
  QUANTUM_LIMIT = 1
  CLOCK_MOD = 1
  MaxClock = 1
  InitialValue <- DiskValues
  Observed = sem_disk
  OtherCalls <- DiskCalls
  Program <- DiskPrograms
  numblocks = 1
  Asks <- ValidAsks
  Timing = "anywhere"
  MaxFailures = 0
SYMMETRY SymmetricClients
SPECIFICATION DiskSpec
INVARIANTS RequestsGuarded
CHECK_DEADLOCK FALSE
