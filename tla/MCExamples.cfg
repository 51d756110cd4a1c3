SPECIFICATION ExamplesSpec
CONSTANTS
  AppTimes <- MCAppTimes
  AppUsers = {u1}
  AppHandlers = {"analytics", "audit"}
  AppWorkers = {w1}
  AppSetups <- MCAppSetups
  HubClients = {k1, k2}
  Rooms = {"a", "b"}
  All = "all"
  HubSetups <- MCHubSetups
  RIds = {1, 2}
  RUsers = {"u1"}
  RKinds = {"workspace", "member", "task", "comment", "export"}
  WIds = {1}
  WUsers = {"u1", "u2"}
  WRequests = {r1, r2}
  WSetups <- MCWSetups
  JobIDs = {j1, j2}
  PSteps = 1
  JSetups <- MCJSetups
  AClients = {c1, c2}
  AccountIDs = {i1, i2}
  Emails = {e1}
  AccessTTL = 1
  RefreshTTL = 2
  LastSecond = 3
  ACalls = 4
  DIds = {1, 2}
  DNames = {"n"}
  DEmails = {"a", "b"}
  DRequests = {q1, q2}
  Unset = Unset
  DSetups <- MCDSetups
  Sessions = {"s1"}
  EntSetups <- MCEntSetups
SYMMETRY Symmetry
INVARIANTS
  RealtimeSound
  StoresAgree
  WorkspacesSound
  JobsSound
  PeopleSound
  EntSound
CHECK_DEADLOCK FALSE
