SPECIFICATION Spec
CONSTANTS
  t1 = t1
  t2 = t2
  Threads = {t1, t2}
  Keys = {1, 2}
  Values = {"a", "b", "c"}
  Text <- MCText
  Number <- MCNumber
  Parse <- MCParse
  None = None
  Workloads <- TwoPuts
  WatchCapacity = 1
  MaxTime = 1
INVARIANT ReadsLatest
CHECK_DEADLOCK FALSE
