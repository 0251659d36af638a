CONSTANTS
  Attempts = {1, 2, 3}
  Addresses = {a1, a2}
  NoAddress = none
SPECIFICATION FairSpec
INVARIANTS
  OwnersExcludeEachOther
  LostOnlyByGivingUp
  StrayContextsFollowATimeout
PROPERTIES
  CreateReturns
  ContextsComeToRest
