\* MySQL with a connection that may be lost and statements that may fail, and servers that may answer anything.
SPECIFICATION Spec
CONSTANTS
  Servers = {s1, s2}
  Titles = {t1, t2}
  Backend = "mysql"
  LinkMayFail = TRUE
  StatementsMayFail = TRUE
  V1Bodies <- AllBodies
  V2Bodies <- AllBodies
  MaxPolls = 3
INVARIANTS
  TypeOK
  OkRecordedUnlessFailed
  ErrorRecordsNothing
  FallbackWorksOnBareV1
  Inv
SYMMETRY ServerSymmetry
