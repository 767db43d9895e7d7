SPECIFICATION FairSpec
CONSTANTS
  q1 = q1
  l1 = l1
  l2 = l2
  m1 = m1
  m2 = m2
  f1 = f1
  NoQuery = NoQuery
  NoModel = NoModel
  NoRow = NoRow
  Loop = Loop
  Closer = Closer
  Queries <- OneQuery
  Lanes <- OneLane
  Models <- OneModel
  Flushers <- NoFlusher
  Threshold = 2
  MaxSeq = 2
  MaxFails = 1
PROPERTY BufferDrains
CHECK_DEADLOCK FALSE
