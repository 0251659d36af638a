CONSTANTS
  OperationIds = {o1, o2}
  NoOperation = none
  LegacyCallers = {c1}
  MaxCompleted = 1
  MaxSequence = 4
SPECIFICATION Spec
SYMMETRY Ids
INVARIANT SettlementIsCorrelated
