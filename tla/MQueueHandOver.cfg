CONSTANTS
  t1 = t1
  t2 = t2
  t3 = t3
  t4 = t4
  s_buffer = buffer
  s_item = item
  s_vaga = vaga
  Tasks <- Trio
  Dispatcher = dispatcher
  NULL = NULL
  Sems <- QueueSems
  WaitQueues <- QueueSems
  Labels <- SemLabels
  Preemptible <- HandOver
  QUANTUM_LIMIT = 1
  CLOCK_MOD = 1
  MaxClock = 1
  InitialValue <- QueueValues
  Observed = buffer
  OtherCalls <- QueueCalls
  Program <- Calls
  max_msgs = 2
  Role <- TwoSenders
  Between = TRUE
  MaxFailures = 2
SPECIFICATION MQSpec
SYMMETRY SymmetricRoles
INVARIANTS BufferGuarded SlotsConserved
PROPERTY ImplementsMailbox
