SPECIFICATION TrailSpec
CONSTANTS
  EventTypes = {revoked1, other}
  Targets = {revoked1}
  Reqs = {r1, r2}
  Wanted = revoked1
  IdWidth = 6
  PageLimits = {0, 1, 3}
  DefaultLimit = 2
  MaxLimit = 3
  DiskFaults = FALSE
  LateRequests = TRUE
  MaxEvents = 5
INVARIANTS
  TrailTypeOK
  ChainIntact
  TableIsPrefix
  PagingConsistent
  ToldAndWrittenIsKept
  RecordedIsRevoked
PROPERTIES
  AppendOnly
