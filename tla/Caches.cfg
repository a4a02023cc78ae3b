SPECIFICATION Spec
CONSTANTS
  Keys = {k1, k2, k3, k4}
  Values = {v1, v2}
  None = None
  Capacity = 3
  MaxFreq = 3
INVARIANT LruTypeOK
INVARIANT LruListWellFormed
PROPERTY ImplementsLru
INVARIANT LfuTypeOK
INVARIANT LfuCountsExact
PROPERTY LfuEvictsLeastUsed
INVARIANT FifoTypeOK
INVARIANT FifoQueueIsMap
PROPERTY ImplementsFifo
PROPERTY FifoPutReturns
