CONSTANTS
  Hosts = {h}
  Users = {u}
  Ffi = ffi
  NoThread = noThread
  MaxDepth = 1
  MaxSequence = 4
SPECIFICATION FairSpec
CHECK_DEADLOCK FALSE
INVARIANTS TypeOK EventsAccounted AcceptedFirst WorkerEventsInOrder WorkersEndBeforeModule WrappersUseLiveContext
PROPERTIES BindsLiveContext ThreadsReturn
