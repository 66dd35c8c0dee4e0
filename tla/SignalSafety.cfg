\* The main thread and a worker.
SPECIFICATION FairSpec
CONSTANTS
  Threads = {main, w1}
  Workers = {w1}
  NoThread = NoThread
  MaxLogs = 2
  MaxSent <- TwoToggles
CHECK_DEADLOCK FALSE
INVARIANTS
  TypeOK
  LocksAreOrdered
  PauseParity
PROPERTY TermHandledUnlessSelfLocked
