SPECIFICATION FairSpec
CONSTANTS
  q1 = q1
  l1 = l1
  l2 = l2
  m1 = m1
  m2 = m2
  f1 = f1
  NoQuery = NoQuery
  NoModel = NoModel
  NoRow = NoRow
  Loop = Loop
  Closer = Closer
  Queries <- OneQuery
  Lanes <- OneLane
  Models <- OneModel
  Flushers <- OneFlusher
  Threshold = 1
  MaxSeq = 1
  MaxFails = 1
INVARIANTS TypeOK OnePlace NothingUnattached
PROPERTIES KeepsAJournal EventuallyStored AcloseEnds
CHECK_DEADLOCK FALSE
