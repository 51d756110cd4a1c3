SPECIFICATION BackendsSpec
CONSTANTS
  Master = "m"
  RCallers = {r1, r2}
  RSetups <- MCRSetups
  CounterCycle = 6
  NodeProbes = 2
  Users = {u1, u2}
  NoUser = NoUser
  LSetups <- MCLSetups
  Fields = {f1, f2}
  Values = {v1, v2}
  NoValue = NoValue
  CSetups <- MCCSetups
  IndexPrefixes = {"p", "q"}
  d1 = d1
  d2 = d2
  DocIDs = {d1, d2}
  InitDoc = "init"
  SCallers = {c1, c2}
  NoEngine = "none"
  SSetups <- MCSSetups
  Reporters = {p1, p2}
  BatchSize = 2
  MaxReports = 3
  OClients = {o1, o2}
  OContents = {v1}
  OPaths <- MCOPaths
  OConfigs <- MCOConfigs
  NoContent = NoContent
  Cut = Cut
  DNames = {"a"}
  DClients = {b1, b2}
  MaxTTL = 2
  MaxIDs = 2
  SvcNames = {n1}
  SvcCallers = {s1, s2}
  Addresses = {a1, a2}
  NoAddress = NoAddress
  SvcSetups <- MCSvcSetups
  HalfOpenMax = 2
  XKeys = {"k1", "k2", "k3"}
  XCallers = {x1, x2}
  XSizes = {1, 4}
  MaxSize = 2
  XSetups <- MCXSetups
  SlotUsers = {l1, l2, l3}
  MaxSlots = 2
  SlotCalls = 4
  Extra = 1
INVARIANT SizeThreadSafe
CHECK_DEADLOCK FALSE
