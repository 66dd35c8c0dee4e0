SPECIFICATION FairSpec
CONSTANTS
  s1 = s1
  s2 = s2
  Servers = {s1, s2}
  NoServer = NoServer
  Unresponsive = {s1}
  Backends = {"mysql"}
  MaxVersion = 0
  BackendOf <- AlwaysMySQL
  ThreadKeySet = TRUE
  ThreadKey = 2
  HardwareThreads = 2
CHECK_DEADLOCK FALSE
PROPERTY ShutdownCompletes
