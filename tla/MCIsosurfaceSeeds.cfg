SPECIFICATION MCFairSpec
CONSTANTS
  Parts = {"lattice"}
  Box <- RowBox
  Fields <- RowFields
  Starts <- RowStarts
  Arb <- RowArb
  Moves <- RowMoves
  Clusterable <- RowClusterable
  Intersecting = {}
  Inside <- RowInside
INVARIANT SeededBoundaryCoordinates
