SPECIFICATION Spec
CONSTANTS
  w1 = w1
  w2 = w2
  l1 = l1
  l2 = l2
  Loop = Loop
  Threads <- TwoWorkers
  Lanes <- TwoLanes
  Sequential <- FirstLane
  MaxCalls = 2
  Drains = 1
  Threshold = 2
SYMMETRY WorkersAlike
INVARIANTS OneCallAtATimeIsExact
CHECK_DEADLOCK FALSE
