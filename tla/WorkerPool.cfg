SPECIFICATION Spec
CONSTANTS
  Task = {t1, t2, t3}
  Worker = {w1, w2}
  QueueSize = 2
  NoTask = NoTask
  TaskOutcomes = {"ok", "err", "panic"}
  TaskDeadline = TRUE
INVARIANTS
  TypeOK
  GaugesExact
  VerdictsExact
  IdleAndEmptyMeansDrained
PROPERTIES
  ImplementsExecutor
  QuietAfterStop
  AcceptedIsSettled
  StopReturns
CHECK_DEADLOCK FALSE
