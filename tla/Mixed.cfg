SPECIFICATION Spec
CONSTANTS
  Threads = {t1, t2}
  SnapshotTask = snapshotTask
  Keys = {1}
  Values = {"", "a"}
  Empty = ""
  None = None
  NoWrite = NoWrite
  Ttls = {None, 0}
  Ops = {"put", "delete", "cas", "tx", "tx_delete", "get", "sweep", "snapshot"}
  Faults = {"crash", "torn", "append_error", "snapshot_error"}
  InitialWal <- EmptyLog
  ClockRange = 2
  MaxVersion = 2
  MaxTime = 1
  MaxCrashes = 1
SYMMETRY Symmetry
INVARIANT TypeOK
INVARIANT LogIdsUnique
INVARIANT RecoveryExact
