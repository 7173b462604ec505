SPECIFICATION OnboardSpec
CONSTANTS
  AppIds = {p1}
  ScopeLists <- MCScopeLists
  TTLs = {0, 2, 9}
  DefaultTTL = 4
  MinTTL = 2
  MaxTTL = 3
  LaunchTokens = {t1}
  Reqs = {r1, r2}
  Claims = {c1, c2}
INVARIANTS
  OnboardTypeOK
  AgentWithinCeiling
PROPERTIES
  OffboardingIsFinal
  OffboardingDrains
