CONSTANTS
  OperationIds = {o1}
  NoOperation = none
  LegacyCallers = {c1}
  MaxCompleted = 1
  MaxSequence = 4
SPECIFICATION FairSpec
INVARIANTS
  TypeOK
  NoOrphanListeners
PROPERTIES
  EveryOperationSettles
  WorkersSettle
  EventuallyIdle
