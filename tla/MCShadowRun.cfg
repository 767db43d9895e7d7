SPECIFICATION FairSpec
CONSTANTS
  q1 = q1
  q2 = q2
  m1 = m1
  m2 = m2
  NoQuery = NoQuery
  NoModel = NoModel
  NoRow = NoRow
  Top = Top
  Queries <- TwoQueries
  Lanes <- AllLanes
  Models <- TwoModels
  Width <- TwoAndOne
  MayNest = TRUE
  Strays <- NoLane
  Threshold = 1
  MaxSeq = 1
INVARIANTS TypeOK CollisionCaught ShadowsFollowSuccess FiledUnderOwnQuery OverlaysTornDown
PROPERTIES VerdictsAreFinal PrimaryNeverWaits
CHECK_DEADLOCK FALSE
