CONSTANTS
  t1 = t1
  t2 = t2
  t3 = t3
  t4 = t4
  s_buffer = buffer
  s_item = item
  s_vaga = vaga
  Tasks <- Trio
  Dispatcher = dispatcher
  NULL = NULL
  Sems <- QueueSems
  WaitQueues <- QueueSems
  Labels <- SemLabels
  Preemptible <- OutsideCalls
  QUANTUM_LIMIT = 1
  CLOCK_MOD = 1
  MaxClock = 1
  InitialValue <- QueueValues
  Observed = buffer
  OtherCalls <- QueueCalls
  Program <- Calls
  max_msgs = 1
  Role <- WithDestroyer
  Between = TRUE
  MaxFailures = 0
SPECIFICATION MQSpec
INVARIANTS NoNullMessage
