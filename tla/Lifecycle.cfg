CONSTANTS
  Tables = 2
  MaxFaults = 2
  MaxStarts = 3
SPECIFICATION FairSpec
INVARIANTS
  TypeOK
  SchemaUsable
  PidFileTruthful
PROPERTIES
  SignalsAreRequests
  TablesSurviveStarts
  StopRemovesPid
CHECK_DEADLOCK FALSE
