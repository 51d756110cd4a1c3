SPECIFICATION Spec
CONSTANTS
  t1 = t1
  t2 = t2
  t3 = t3
  t4 = t4
  t5 = t5
  t6 = t6
  t7 = t7
  t8 = t8
  t9 = t9
  Task = {t1, t2, t3, t4, t5, t6, t7, t8, t9}
  NoTask = NoTask
  Worker = {w1}
  IdOf <- MCIdOf
  TriggerAt <- MCTriggerAt
  AskedPrio <- MCAskedPrio
  MaxRetries <- MCMaxRetries
  QueueSize = 2
  MaxPrio = 1
  Offered = {{t1, t2}, {t2, t3, t4}, {t3, t5, t6, t7, t8, t9}}
  TaskDeadline = TRUE
  Results = {"ok", "retryable"}
  Horizon = 2
  Canceled = {"a"}
  MaxCancels = 1
INVARIANTS
  PlacesSound
  ProcessingIsLive
  OutcomesAgree
CHECK_DEADLOCK FALSE
