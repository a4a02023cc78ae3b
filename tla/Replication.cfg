SPECIFICATION Spec
CONSTANTS
  w1 = w1
  w2 = w2
  Writers = {w1, w2}
  Keys = {1, 2}
  None = None
  Workloads <- PassingWorkloads
  SyncCapacity = 1
  StreamCapacity = 1
INVARIANT TypeOK
INVARIANT OrderlyReplica
INVARIANT IdsNeverReused
PROPERTY NeverBackwards
PROPERTY StreamSettles
PROPERTY Converges
CHECK_DEADLOCK FALSE
