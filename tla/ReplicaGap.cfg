SPECIFICATION Spec
CONSTANTS
  w1 = w1
  w2 = w2
  Writers = {w1, w2}
  Keys = {1}
  None = None
  Workloads <- RaceWorkload
  SyncCapacity = 1
  StreamCapacity = 1
PROPERTY ReplicaCatchesUp
CHECK_DEADLOCK FALSE
