SPECIFICATION MCSpec
CONSTANTS
  empty = empty
  medium = medium
  other = other
  large = large
  w1 = w1
  w2 = w2
  inf = inf
  zero = zero
  finite = finite
  kDim = 2
  Near <- MCNear
  Models <- MCModels
  Lists <- MCLists
  WeightNames = {1, 2}
  ValueAccuracy = 12
  GradAccuracy = 24
  Unset = Unset
  Thread = {1, 2}
  PointSet <- MCPointSet
  Size <- MCSize
  Weights <- MCWeights
  Accuracy <- MCAccuracy
  Infinity = inf
  Exact = zero
  Dim = 1
  Threshold = 8
  PointsThreshold = 4
  Dangling = Dangling
  LastOrder = 8
  Capacity = 2
  MayThrow = {{"search", "configure"},
              {"search", "configure", "sourceTree", "targetTree", "compute", "m2l"},
              {"search", "configure", "sourceTree", "targetTree", "compute", "m2l", "p2p", "downward",
               "tree", "passes", "potentials"}}
  None = None
INVARIANTS MCTypeOK TreesFromSortedParticles WeightsOfBothFresh AccuracyMet
  NoDanglingInterpolator PassesOfBothCoherent
  ProductsComplete BlocksSuitable
SYMMETRY MCSymmetry
