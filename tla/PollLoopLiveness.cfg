SPECIFICATION FairSpec
CONSTANTS
  s1 = s1
  s2 = s2
  Servers = {s1, s2}
  NoServer = NoServer
  Unresponsive = {}
  Backends = {"mysql"}
  MaxVersion = 1
  BackendOf <- AlwaysMySQL
  ThreadKeySet = FALSE
  ThreadKey = 0
  HardwareThreads = 2
CHECK_DEADLOCK FALSE
PROPERTIES
  ShutdownCompletes
  ReloadHonoured
  ImplementsFairCollector
