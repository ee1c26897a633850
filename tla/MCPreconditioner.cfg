SPECIFICATION MCFairSpec
CONSTANTS
  Dim = 2
  Leaf = 8
  Roots <- MCRoots
  Orders <- MCOrders
  Poly <- MCPoly
  CoarsePoly <- MCCoarsePoly
  CoarseOrders <- MCCoarseOrders
  GradMult = 2
  Components = 2
  MuFull = 4
  SigmaFull = 2
  BasisSizes = {0, 1}
  GridDomains <- MCGridDomains
  CoarseSet <- MCCoarseSet
  Problems <- MCProblems
  NumTrials = 3
  Wanted = {1, 2, 3, 4, 5, 6, 7, 8}
  Point <- MCPoint
  LevelPoints <- MCLevelPoints
  Orthogonal = TRUE
  Thread = {t1, t2, t3}
  Grids <- MCGrids
  p1 = p1
  p2 = p2
  p3 = p3
  p4 = p4
  p5 = p5
  p6 = p6
INVARIANTS
  MCTypeOK InnerOnceDivided InnerOnce CoarsePointsChosen
  GridsApart ResidualsExact GridInPlace PolynomialFixed
PROPERTIES BothEnd ImplementsCycle
CHECK_DEADLOCK FALSE
