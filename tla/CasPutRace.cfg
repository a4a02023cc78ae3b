SPECIFICATION Spec
CONSTANTS
  Threads = {t1, t2}
  SnapshotTask = snapshotTask
  Keys = {1}
  Values = {"", "a"}
  Empty = ""
  None = None
  NoWrite = NoWrite
  Ttls = {None}
  Ops = {"put", "cas"}
  Faults = {}
  InitialWal <- EmptyLog
  ClockRange = 2
  MaxVersion = 2
  MaxTime = 0
  MaxCrashes = 0
SYMMETRY Symmetry
INVARIANT CasReplacesExpected
CHECK_DEADLOCK FALSE
