SPECIFICATION Spec
CONSTANTS
  Threads = {t1}
  SnapshotTask = snapshotTask
  Keys = {1, 2}
  Values = {"", "a"}
  Empty = ""
  None = None
  NoWrite = NoWrite
  Ttls = {None}
  Ops = {"put", "delete", "cas", "tx", "tx_delete"}
  Faults = {"crash"}
  InitialWal <- LegacyLog
  ClockRange = 2
  MaxVersion = 5
  MaxTime = 0
  MaxCrashes = 2
PROPERTY CrashKeepsData
CHECK_DEADLOCK FALSE
