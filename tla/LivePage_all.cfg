SPECIFICATION FairPage
CONSTANTS
  Symbols = {a, b}
  First = a
  None = None
  SessionTopN = 1
  Buffer = 2
  RestLimit = 1
  Minutes = {0, 1}
  MaxTrades = 2
  MaxTasks = 2
  MaxSources = 2
  MaxBreaks = 1
INVARIANTS OnlyThisStream GuardIsChartEnd NothingStoredMissing
PROPERTIES EventuallyLive
CHECK_DEADLOCK FALSE
