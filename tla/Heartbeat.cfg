SPECIFICATION MonitorSpec
CONSTANTS
  Agents = {a1, a2}
  MaxMiss = 3
  Interval = 2
INVARIANT MonitorTypeOK
PROPERTIES
  RevokedAfterSilence
  DeadUntilHeartbeat
  SilentIsRevoked
