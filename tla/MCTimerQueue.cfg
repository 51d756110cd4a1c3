SPECIFICATION TSpec
CONSTANTS
  t1 = t1
  t2 = t2
  t3 = t3
  t4 = t4
  t5 = t5
  t6 = t6
  Task = {t1, t2, t3, t4, t5, t6}
  NoTask = NoTask
  IdOf <- MCIdOf
  TriggerAt <- MCTriggerAt
  Capacity = 2
  Horizon = 3
  MaxEnqueued = 4
INVARIANTS
  TimerConsistent
PROPERTIES
  Fires
