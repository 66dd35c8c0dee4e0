\* The default backend, with servers that always answer well.
SPECIFICATION Spec
CONSTANTS
  Servers = {s1}
  Titles = {t1, t2}
  Backend = "sqlite"
  LinkMayFail = FALSE
  StatementsMayFail = FALSE
  V1Bodies <- StatsOnly
  V2Bodies <- StatsOnly
  MaxPolls = 2
INVARIANT OkMeansRecorded
