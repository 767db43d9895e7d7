SPECIFICATION Spec
CONSTANTS
  p1 = p1
  s1 = s1
  s2 = s2
  b1 = b1
  b2 = b2
  b3 = b3
  b4 = b4
  create = create
  read = read
  x = x
  y = y
  r1 = r1
  NoId = NoId
  NoLane = NoLane
  NoReply = NoReply
  NoFixture = NoFixture
  NoOverlay = NoOverlay
  Primaries <- OnePrimary
  Shadows <- TwoShadows
  Branches <- FourBranches
  LaneOf <- FourLanes
  Tools <- CreateAndRead
  Specs <- MintingSpecs
  HintChoices <- EdgeChoices
  Payloads <- TwoPayloads
  RealIds <- OneId
  BaseIds <- NoIds
  MaxCalls <- FourCalls
  MaxMinted = 2
SYMMETRY PayloadSymmetry
INVARIANTS TypeOK Contained FixturesGrounded InventedStayApart DriftIsCounted
PROPERTIES ReadYourWrites
CHECK_DEADLOCK FALSE
