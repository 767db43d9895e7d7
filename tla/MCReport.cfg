SPECIFICATION Spec
CONSTANTS
  None = None
  t1 = t1
  t2 = t2
  x = x
  x2 = x2
  y = y
  n1 = n1
  n2 = n2
  Tools <- TwoTools
  Args <- ThreeArgs
  Nodes <- TwoNodes
  Canon <- Spelling
  Models <- SomeModels
  Counts <- SomeCounts
  Millis <- SomeMillis
  Prices <- Table
  Destructive <- OneDestructive
  Threshold = 2
  Vendor <- Rates
  Ranks <- SomeRanks
  Workloads <- AllWorkloads
INVARIANTS
  EveryCallCompared
  DivergesWhereNodesDiffer
  CleanMeansSameCalls
  MeasuresAgree
  LatencyAddsUp
  NearestRank
  VerdictFollowsExecution
  LoopsAreLongestRuns
  RetriesFollowErrors
  CostBoundsTheBill
PROPERTIES DifferencesAreSettled
CHECK_DEADLOCK FALSE
