SPECIFICATION Spec
CONSTANTS
  a1 = a1
  a2 = a2
  k1 = k1
  NoTask = NoTask
  NoJti = NoJti
  DiskFaults = FALSE
  Agents <- MCOneAgent
  Logins <- MCNoLogins
  Tasks <- MCTasks
  ScopeLists <- MCOneScopeList
  TTLs = {4}
  Jtis = {j1, j2, j3}
  Reqs = {r1, r2}
  DefaultTTL = 2
  MaxTTL = 3
  DelegationTTL = 1
  MaxDelegDepth = 2
  AdminEntries <- MCNoEntries
  MaxNow = 0
SYMMETRY Symm
INVARIANTS
  SoleSuccessor
