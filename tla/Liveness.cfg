SPECIFICATION FairSpec
CONSTANTS
  Threads = {t1, t2}
  SnapshotTask = snapshotTask
  Keys = {1}
  Values = {""}
  Empty = ""
  None = None
  NoWrite = NoWrite
  Ttls = {None, 0}
  Ops = {"put", "tx", "sweep", "snapshot"}
  Faults = {"crash", "torn"}
  InitialWal <- EmptyLog
  ClockRange = 2
  MaxVersion = 2
  MaxTime = 1
  MaxCrashes = 1
PROPERTY LockReleased
PROPERTY ExpiredPurged
PROPERTY RecoveryCompletes
