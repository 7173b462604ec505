SPECIFICATION MCSpec
CONSTANTS
  Locations <- MCLocations
  Inits = {i1, i2}
  Handwritten = {"old", "change-me-in-production"}
  Keys = {1, 2, 3}
  Brokers = {b1, b2}
  EnvSecrets = {"none", "strong"}
  Denylist = {"none", "change-me-in-production"}
  Failures = 2
INVARIANTS
  TypeOK
  StartTakesPromisedSecret
  PromisedSecretKept
  SignedKeysKept
  ReadyWhenServing
PROPERTY
  StartsInTheEnd
CHECK_DEADLOCK FALSE
