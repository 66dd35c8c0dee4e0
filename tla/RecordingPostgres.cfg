\* PostgreSQL, with two servers to poll.
SPECIFICATION Spec
CONSTANTS
  Servers = {s1, s2}
  Titles = {t1, t2}
  Backend = "postgres"
  LinkMayFail = FALSE
  StatementsMayFail = FALSE
  V1Bodies <- StatsOnly
  V2Bodies <- StatsOnly
  MaxPolls = 2
PROPERTY FlaggedServersListed
