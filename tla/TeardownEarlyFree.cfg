CONSTANTS
  Instances = {i1}
  Handles = {h1}
  Callbacks = {k1}
  NoInstance = noInstance
  NoHandle = noHandle
SPECIFICATION Spec
INVARIANT ContextOutlivesItsLeases
