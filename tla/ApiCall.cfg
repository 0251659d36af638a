CONSTANTS
  Calls = {c1, c2, c3}
  Addresses = {a1, a2}
  NoAddress = none
SPECIFICATION FairSpec
INVARIANTS
  BridgeCountsItsUsers
  NoEntryOutlivesItsCall
  ResolvedOnce
  StrayAnswersFollowATimeout
PROPERTY EveryCallReturns
