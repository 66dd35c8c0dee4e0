\* A server that answers the first URL with a page and the second with the document.
SPECIFICATION Spec
CONSTANTS
  Servers = {s1}
  Titles = {t1, t2}
  Backend = "mysql"
  LinkMayFail = FALSE
  StatementsMayFail = FALSE
  V1Bodies <- NotFound
  V2Bodies <- StatsOnly
  MaxPolls = 2
INVARIANT CompleteAnswerIsUsed
