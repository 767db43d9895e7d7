SPECIFICATION ReadSpec
CONSTANTS
  q1 = q1
  l1 = l1
  m1 = m1
  m2 = m2
  NoQuery = NoQuery
  NoModel = NoModel
  NoRow = NoRow
  NoReader = NoReader
  Loop = Loop
  Closer = Closer
  Queries <- OneQuery
  Lanes <- OneLane
  Models <- TwoModels
  Flushers <- NoFlusher
  Threshold = 2
  MaxSeq = 3
  MaxFails = 0
SYMMETRY Symmetric
INVARIANTS
  DenseSteps ReadableWhileOpen CurrentWhileOpen ContaminatedFromThreshold
  PrefixRead RowBackedByEvents
CHECK_DEADLOCK FALSE
