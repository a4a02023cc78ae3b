SPECIFICATION Spec
CONSTANTS
  Threads = {t1, t2}
  SnapshotTask = snapshotTask
  Keys = {1, 2}
  Values = {""}
  Empty = ""
  None = None
  NoWrite = NoWrite
  Ttls = {None}
  Ops = {"put", "delete", "cas", "tx", "tx_delete"}
  Faults = {}
  InitialWal <- EmptyLog
  ClockRange = 2
  MaxVersion = 3
  MaxTime = 0
  MaxCrashes = 0
SYMMETRY Symmetry
INVARIANT WriteAhead
PROPERTY NoSpuriousAbort
CHECK_DEADLOCK FALSE
