SPECIFICATION MCFairSpec
CONSTANTS
  Parts = {"lattice", "space", "clip", "defects"}
  Box <- MCBox
  Fields <- MCFields
  Starts <- MCStarts
  Arb <- MCArb
  Moves <- MCMoves
  Clusterable <- MCClusterable
  Intersecting <- MCIntersecting
  Inside <- MCInside
INVARIANTS
  MCTypeOK LatticeComplete MeshIsSurface Manifold BoundaryCoordinates
  NodesFound ClippedAtBbox IntersectionsFound
PROPERTIES CallsEnd
CHECK_DEADLOCK FALSE
