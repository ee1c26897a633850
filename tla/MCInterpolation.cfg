SPECIFICATION MCFairSpec
CONSTANTS
  m = m
  n = n
  None = None
  NoRows = NoRows
  Nothing = Nothing
  ModelSet = {m, n}
  Locations = {1, 2}
  Given <- GivenPoints
  GradDim = 2
  BasisSize = 2
  RowKinds = {"value", "grad"}
  SystemSizes <- SomeSizes
  TargetSize = 2
  MaxIter = 3
  Samples <- MCSamples
  Thread = {t1, t2}
  NumLags = 3
  LagDistance = 2
  LagTolerance = 1
  t1 = t1
  t2 = t2
  NPoints = 5
  NPoly = 1
  Eq = {0}
  Lb <- MCLb
  Ub <- MCUb
  FitValues <- MCFitValues
  BoundNear <- MCBoundNear
  BoundHalvings = 3
  Dim = 2
  MuFull = 4
  SigmaFull = 2
  IncNear <- MCIncNear
  IncGradNear <- MCIncGradNear
  IncHalvings = 4
  Surfaces <- MCSurfaces
  Ks = {{3}, {3, 7}}
  Radii = {{2}, {1, 2}}
  Clouds <- MCClouds
  Offsets = {0, 100, 400, 900}
  Never = 1000
  Problems <- Jobs
  MaxIterations = 2
  EvalThread = {t1, t2}
  NotYet = NotYet
  SetIds <- MCSetIds
  L = 2
  Terms = 0
  Linear = FALSE
INVARIANTS MCTypeOK InterpolantCurrent AdaptiveFits SolutionTested
  NormalsAndOffsets PairsCountedOnce FittedModelSame
PROPERTIES CallsEnd
CHECK_DEADLOCK FALSE
