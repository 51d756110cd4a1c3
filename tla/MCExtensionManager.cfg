SPECIFICATION Spec
CONSTANTS
  Name = {1, 2, 3}
  Caller = {"a", "b"}
  Deployments <- Programs
  MaxFails = 1
  MaxHooks = 1
  NoName = NoName
INVARIANTS
  PhasesSound
  DependenciesFirst
  MutualCyclesResolve
PROPERTIES
  CleanupReachesAll
  InitReturns
CHECK_DEADLOCK FALSE
