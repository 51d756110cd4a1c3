SPECIFICATION Spec
CONSTANTS
  t1 = t1
  t2 = t2
  t3 = t3
  t4 = t4
  Task = {t1, t2, t3, t4}
  NoTask = NoTask
  IdOf <- MCIdOf
  Capacity = 3
  MaxPrio = 2
  Asked <- MCAsked
  BatchSizes = {0, 2}
  MaxEnqueued = 4
INVARIANTS
  QueueConsistent
PROPERTIES
  ImplementsPriorityLine
