SPECIFICATION FairSpec
CONSTANTS
  Retention = 2
  MaxSizes <- MCMaxSizes
  LineSizes = {2}
  MaxLine = 2
  MaxFaults = 1
  t1 = t1
  t2 = t2
  Threads <- MCThreads
  Main = Main
  NoOne = NoOne
  Password = TRUE
  Inputs <- MCInputs
  MaxRequests = 2
INVARIANTS
  TypeOK
  AnsweredIsLogged
  LogsFollowClients
  LogInv
PROPERTIES
  ImplementsAppendLog
  StopCompletes
CHECK_DEADLOCK FALSE
