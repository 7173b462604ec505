SPECIFICATION Spec
CONSTANTS
  a1 = a1
  a2 = a2
  k1 = k1
  NoTask = NoTask
  NoJti = NoJti
  DiskFaults = FALSE
  Agents <- MCAgents
  Logins <- MCNoLogins
  Tasks <- MCTasks
  ScopeLists <- MCScopeLists
  TTLs = {0, 4}
  Jtis = {j1, j2, j3, j4}
  Reqs = {r1}
  DefaultTTL = 2
  MaxTTL = 3
  DelegationTTL = 1
  MaxDelegDepth = 2
  AdminEntries <- MCNoEntries
  MaxNow = 1
SYMMETRY SymmAgents
INVARIANTS
  TypeOK
  AuthorityOnlyShrinks
  RenewalKeepsLifetime
  SoleSuccessor
