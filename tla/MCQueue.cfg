CONSTANTS
  Elems = {e1, e2, e3, e4}
  Queues = {q1, q2}
  NULL = NULL
  sleeping_tasks = q1
  ready_tasks = q2
SPECIFICATION WakeSpec
INVARIANTS TypeOK DoublyLinked Disjoint WakesTheDue
PROPERTIES ImplementsFIFO
