SPECIFICATION Spec
CONSTANTS
  ScopeStrings <- MCScopeStrings
  Identifiers <- MCIdentifiers
  MaxScopes = 2
  MaxHops = 4
INVARIANTS
  NeverExpands
  OpenedByCeiling
  SubsetIsContainment
CHECK_DEADLOCK FALSE
