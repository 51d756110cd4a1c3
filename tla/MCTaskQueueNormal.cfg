SPECIFICATION Spec
CONSTANTS
  t1 = t1
  t2 = t2
  t3 = t3
  t4 = t4
  t5 = t5
  t6 = t6
  t7 = t7
  t8 = t8
  t9 = t9
  Task = {t3, t7}
  NoTask = NoTask
  Worker = {w1}
  IdOf <- MCIdOf
  TriggerAt <- MCTriggerAt
  AskedPrio <- MCAskedPrio
  MaxRetries <- MCMaxRetries
  QueueSize = 2
  MaxPrio = 1
  Offered = {{t3, t7}}
  TaskDeadline = TRUE
  Results = {"ok", "retryable"}
  Horizon = 2
  Canceled = {}
  MaxCancels = 1
PROPERTIES
  PushedTaskRuns
CHECK_DEADLOCK FALSE
