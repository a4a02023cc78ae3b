SPECIFICATION Spec
CONSTANTS
  Threads = {t1}
  SnapshotTask = snapshotTask
  Keys = {1}
  Values = {"", "a"}
  Empty = ""
  None = None
  NoWrite = NoWrite
  Ttls = {None}
  Ops = {"put", "snapshot"}
  Faults = {}
  InitialWal <- EmptyLog
  ClockRange = 2
  MaxVersion = 2
  MaxTime = 0
  MaxCrashes = 0
INVARIANT RecoverableTree
