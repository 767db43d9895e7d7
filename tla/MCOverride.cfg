SPECIFICATION OverrideSpec
CONSTANTS
  q1 = q1
  m0 = m0
  m1 = m1
  m2 = m2
  c1 = c1
  c2 = c2
  NoQuery = NoQuery
  NoModel = NoModel
  NoRow = NoRow
  NoRequest = NoRequest
  Top = Top
  Queries <- OneQuery
  Lanes <- AllLanes
  Models <- AllModels
  Width <- TwoShadows
  MayNest = FALSE
  Strays <- LastShadow
  Threshold = 1
  MaxSeq = 2
  Clients <- TwoClients
  Rewritable <- OneClient
  Default <- SameDefault
  Requested <- AgentsChoice
  MayLose = TRUE
INVARIANTS NoLeakage FailureOnPrimarysModelCaught
PROPERTIES EndingsAreFinal
CHECK_DEADLOCK FALSE
