SPECIFICATION LimiterSpec
CONSTANTS
  Clients = {c1, c2}
  Burst = 2
  Cost = 3
  Refill = 2
  MaxNow = 6
  MaxLog = 5
INVARIANTS
  WithinBudget
  RefusedForCause
CHECK_DEADLOCK FALSE
