SPECIFICATION Spec
CONSTANTS
  Threads = {t1, t2}
  SnapshotTask = snapshotTask
  Keys = {1, 2}
  Values = {"", "a"}
  Empty = ""
  None = None
  NoWrite = NoWrite
  Ttls = {None}
  Ops = {"cas", "tx", "tx_delete", "snapshot"}
  Faults = {"crash", "truncate_error"}
  InitialWal <- EmptyLog
  ClockRange = 2
  MaxVersion = 2
  MaxTime = 0
  MaxCrashes = 1
SYMMETRY Symmetry
INVARIANT RecoverableTree
INVARIANT CasReplacesExpected
INVARIANT FirstCommitterWins
PROPERTY CrashKeepsData
PROPERTY ImplementsAtomicStore
