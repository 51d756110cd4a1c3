SPECIFICATION Spec
CONSTANTS
  Name = {1, 2, 3}
  Caller = {"a", "b"}
  Deployments <- ConcurrentPrograms
  MaxFails = 1
  MaxHooks = 1
  NoName = NoName
PROPERTY UnloadReturns
CHECK_DEADLOCK FALSE
