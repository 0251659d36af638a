CONSTANTS
  OperationIds = {o1, o2}
  NoOperation = none
  LegacyCallers = {}
  MaxCompleted = 1
  MaxSequence = 7
SPECIFICATION Spec
SYMMETRY Ids
INVARIANTS
  LedgerConsistent
  SnapshotIsVersioned
  SupportedActionsAreHonest
  SettlementIsCorrelated
  ContextMatchesState
  RunningNodeIsHeard
PROPERTIES
  SettledIsFinal
  KeepsContract
