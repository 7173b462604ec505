SPECIFICATION Spec
CONSTANTS
  AppIds = {p1}
  ScopeLists <- MCScopeLists
  TTLs = {0, 2}
  DefaultTTL = 4
  MinTTL = 2
  MaxTTL = 3
  LaunchTokens = {t1}
  Reqs = {r1, r2}
SYMMETRY Symm
INVARIANT DeregisteredStops
