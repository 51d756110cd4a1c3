SPECIFICATION ServicesSpec
CONSTANTS
  Recorders = {g1, g2}
  Batch = 2
  Moments = {2, 3, 4}
  PerSecond = 2
  Vals = {1, 5}
  MSetups <- MCMSetups
  Events = {e1, e2}
  Handlers = {h1, h2}
  NoEvent = NoEvent
  Setups <- MCSetups
  RetryAttempts = 1
INVARIANTS
  CollectorSound
  BusSound
PROPERTIES
  StopMeetsWaiting
  QueuedIsHandled
CHECK_DEADLOCK FALSE
