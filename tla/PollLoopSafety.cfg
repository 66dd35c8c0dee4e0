SPECIFICATION Spec
CONSTANTS
  s1 = s1
  s2 = s2
  s3 = s3
  Servers = {s1, s2, s3}
  NoServer = NoServer
  Unresponsive = {}
  Backends = {"mysql", "sqlite"}
  MaxVersion = 2
  BackendOf <- Alternating
  ThreadKeySet = TRUE
  ThreadKey = 2
  HardwareThreads = 4
SYMMETRY ServerSymmetry
CHECK_DEADLOCK FALSE
INVARIANTS
  TypeOK
  WorkersOnLiveHandle
  ResultOwned
  PoolBounded
  HandlesCurrent
  ReloadNotLost
  OneServerAfterExit
  Inv
PROPERTIES
  ImplementsCollector
