CONSTANTS
  Instances = {i1, i2}
  Handles = {h1, h2}
  Callbacks = {k1, k2, k3}
  NoInstance = noInstance
  NoHandle = noHandle
SPECIFICATION FairSpec
INVARIANTS
  OwnerOutlivesItsCallbacks
  CallbacksReachTheirSender
PROPERTY DestructorReturns
