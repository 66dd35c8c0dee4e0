\* The main thread alone.
SPECIFICATION FairSpec
CONSTANTS
  Threads = {main}
  Workers = {}
  NoThread = NoThread
  MaxLogs = 1
  MaxSent <- OneOfEach
CHECK_DEADLOCK FALSE
PROPERTY TermHandled
