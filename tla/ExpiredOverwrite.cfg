SPECIFICATION Spec
CONSTANTS
  Threads = {t1}
  SnapshotTask = snapshotTask
  Keys = {1}
  Values = {"", "a"}
  Empty = ""
  None = None
  NoWrite = NoWrite
  Ttls = {None, 0}
  Ops = {"put"}
  Faults = {}
  InitialWal <- EmptyLog
  ClockRange = 2
  MaxVersion = 2
  MaxTime = 1
  MaxCrashes = 0
INVARIANT RecoverableTree
CHECK_DEADLOCK FALSE
