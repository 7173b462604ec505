SPECIFICATION Spec
CONSTANTS
  Nonces = {n1, n2}
  LaunchTokens = {t1}
  Agents = {a1, a2}
  NoAgent = NoAgent
  ScopeLists <- MCScopeLists
  TTLs = {0, 1}
  DefaultTokenTTL = 2
  DefaultMaxTTL = 2
  NonceTTL = 1
  Reqs = {r1, r2}
  MaxNow = 2
SYMMETRY Symm
INVARIANTS
  TypeOK
  PolicyBinds
PROPERTIES
  EnrolledOnce
  FailureSparesToken
