----------------------------- MODULE FineGrid -----------------------------
(***************************************************************************)
(* preconditioner/fine_grid.hpp, and the parts of coarse_grid.hpp that     *)
(* differ: how a grid finds the rows of its own points in vectors and      *)
(* matrices of the whole problem, and how it packs the factor of its       *)
(* matrix for the BinaryCache.                                             *)
(*                                                                         *)
(* Numbers are abstracted to where they belong: an entry of the factor is  *)
(* its row and column, an entry of a vector the position in the whole      *)
(* vector that it is for.                                                  *)
(***************************************************************************)
EXTENDS Integers, Sequences

CONSTANTS
  Components, \* kDim, those of a gradient
  MuFull,     \* mu_full_, the number of points
  SigmaFull,  \* sigma_full_, the number of points with gradients
  BasisSizes, \* the values of l_, the size of the polynomial basis
  GridDomains \* the domains [points, grads, innerPoint, innerGrad] and kinds [fine]

ASSUME ComponentsAssumption == Components \in 1..3
ASSUME SizesAssumption == MuFull \in Nat /\ SigmaFull \in Nat /\ BasisSizes \subseteq Nat
ASSUME GridDomainsAssumption ==
  \A g \in GridDomains :
    /\ g.points \in Seq(0..(MuFull - 1)) /\ g.grads \in Seq(0..(SigmaFull - 1))
    /\ Len(g.innerPoint) = Len(g.points) /\ Len(g.innerGrad) = Len(g.grads)
    /\ g.fine \in BOOLEAN

VARIABLES
  grid, l,  \* the domain and l_
  rows,     \* the rows of lagrange_p_full that q_top_ is made of
  mem,      \* the storage of ldlt_of_qtaq_, row after row
  blob,     \* what the cache holds for cache_id_
  row,      \* the row that is packed or unpacked next
  values,   \* the entries of the values that were read
  gridWeights, \* the weights of the whole problem, Missing where nothing was written, Zero for a zero
  gridPc

gridVars == <<grid, l, rows, mem, blob, row, values, gridWeights, gridPc>>

Missing == -1
Zero == -2
Junk == <<Missing, Missing>>

Mu == Len(grid.points)
GridSize == Mu + Components * Len(grid.grads)   \* m_
GridOrder == GridSize - l                        \* the order of Q^T A Q

\* Position 0..Size-1 of the grid's own vectors: a point, or component j of a gradient.
OfPoint(k) == k < Mu
Grad(k) == grid.grads[(k - Mu) \div Components + 1]
Component(k) == (k - Mu) % Components

\* flat_indices: the offset of the gradients is that of the grid.
FlatIndex(k) ==
  IF OfPoint(k) THEN grid.points[k + 1] ELSE Mu + Components * Grad(k) + Component(k)

\* The tail of the values, column after column.
ReadPositionColumns(k) ==
  IF OfPoint(k) THEN grid.points[k + 1] ELSE MuFull + Component(k) * SigmaFull + Grad(k)

\* The position that solve reads: of a gradient, a row of the tail of the values.
ReadPosition(k) ==
  IF OfPoint(k) THEN grid.points[k + 1] ELSE MuFull + Components * Grad(k) + Component(k)

\* The position that set_solution_to writes.
WritePosition(k) ==
  IF OfPoint(k) THEN grid.points[k + 1] ELSE MuFull + Components * Grad(k) + Component(k)

\* set_solution_to of a fine grid writes the inner points only, that of the
\* coarse grid all.
Writes(k) ==
  \/ ~grid.fine
  \/ IF OfPoint(k) THEN grid.innerPoint[k + 1] ELSE grid.innerGrad[(k - Mu) \div Components + 1]

NoWeights == [p \in 0..(MuFull + Components * SigmaFull - 1) |-> Missing]

GridInit ==
  /\ grid \in GridDomains /\ l \in BasisSizes
  /\ Mu >= l
  /\ GridOrder # 2   \* a matrix of order 2 would be packed onto itself
  /\ rows = <<>> /\ mem = <<>> /\ blob = <<>> /\ row = 0
  /\ values = <<>>
  /\ gridWeights = NoWeights
  /\ gridPc = "setup"

Cells == 0..(GridOrder * GridOrder - 1)
\* The lower triangle of the factor; what the upper one holds does not matter.
Factor == [a \in Cells |->
             IF a % GridOrder <= a \div GridOrder THEN <<a \div GridOrder, a % GridOrder>> ELSE Junk]

\* memcpy of one row of n entries
Copied(dst, src, n) ==
  [a \in Cells |-> IF a \in dst..(dst + n - 1) THEN mem[a - dst + src] ELSE mem[a]]

Packed(r) == (r * (r + 1)) \div 2
Stored(r) == r * GridOrder

SetupGrid ==
  /\ gridPc = "setup"
  /\ IF GridOrder > 0
       THEN /\ rows' = IF l > 0 THEN [k \in 0..(GridSize - 1) |-> FlatIndex(k)] ELSE rows
            /\ mem' = Factor
       ELSE UNCHANGED <<rows, mem>>
  /\ row' = 1
  /\ gridPc' = IF GridOrder > 0 /\ grid.fine THEN "pack" ELSE "ready"
  /\ UNCHANGED <<grid, l, blob, values, gridWeights>>

\* The rows are packed from the last one up.
PackRowUpward ==
  /\ gridPc = "pack" /\ row < GridOrder
  /\ mem' = Copied(Packed(GridOrder - row), Stored(GridOrder - row), GridOrder - row + 1)
  /\ row' = row + 1
  /\ UNCHANGED <<grid, l, rows, blob, values, gridWeights, gridPc>>

PackRow ==
  /\ gridPc = "pack" /\ row < GridOrder
  /\ mem' = Copied(Packed(row), Stored(row), row + 1)
  /\ row' = row + 1
  /\ UNCHANGED <<grid, l, rows, blob, values, gridWeights, gridPc>>

\* cache_.put, and the storage is freed.
Put ==
  /\ gridPc = "pack" /\ row >= GridOrder
  /\ blob' = [a \in 0..(Packed(GridOrder) - 1) |-> mem[a]]
  /\ mem' = <<>>
  /\ gridPc' = "ready"
  /\ UNCHANGED <<grid, l, rows, row, values, gridWeights>>

\* solve reads the values of its points, and gets the factor into new storage.
ReadValues ==
  /\ gridPc \in {"ready", "done"}
  /\ values' = [k \in 0..(GridSize - 1) |-> ReadPosition(k)]
  /\ gridWeights' = NoWeights
  /\ IF GridOrder > 0 /\ grid.fine
       THEN /\ mem' = [a \in Cells |-> IF a \in DOMAIN blob THEN blob[a] ELSE Junk]
            /\ row' = GridOrder - 1
            /\ gridPc' = "unpack"
       ELSE gridPc' = "solve" /\ UNCHANGED <<mem, row>>
  /\ UNCHANGED <<grid, l, rows, blob>>

UnpackRow ==
  /\ gridPc = "unpack" /\ row >= 1
  /\ mem' = Copied(Stored(row), Packed(row), row + 1)
  /\ row' = row - 1
  /\ UNCHANGED <<grid, l, rows, blob, values, gridWeights, gridPc>>

EndUnpack ==
  /\ gridPc = "unpack" /\ row < 1
  /\ gridPc' = "solve"
  /\ UNCHANGED <<grid, l, rows, mem, blob, row, values, gridWeights>>

\* The system is solved, a fine grid frees the factor, and set_solution_to
\* writes: the solution for the k-th value goes to the k-th position.  Where
\* there is nothing but polynomial points, it is zero.
SetSolution ==
  /\ gridPc = "solve"
  /\ gridWeights' = [p \in DOMAIN gridWeights |->
       LET own == {k \in 0..(GridSize - 1) : Writes(k) /\ WritePosition(k) = p}
       IN  IF own = {} THEN gridWeights[p]
           ELSE IF GridOrder = 0 THEN Zero ELSE values[CHOOSE k \in own : TRUE]]
  /\ mem' = IF grid.fine THEN <<>> ELSE mem
  /\ gridPc' = "done"
  /\ UNCHANGED <<grid, l, rows, blob, row, values>>

GridNext == \/ SetupGrid \/ PackRow \/ Put \/ ReadValues
        \/ UnpackRow \/ EndUnpack \/ SetSolution

GridSpec == GridInit /\ [][GridNext]_gridVars

-----------------------------------------------------------------------------
\* The type of every variable; no read or write is out of the bounds of a vector.
GridTypeOK ==
  /\ grid \in GridDomains /\ l \in BasisSizes /\ row \in Nat
  /\ \A k \in DOMAIN rows : rows[k] \in DOMAIN gridWeights
  /\ \A k \in DOMAIN values : values[k] \in DOMAIN gridWeights
  /\ gridPc \in {"pack", "unpack"} => DOMAIN mem = Cells
  /\ gridPc \in {"setup", "pack", "ready", "unpack", "solve", "done"}

\* Whenever a grid solves, its storage holds the factor that was computed in
\* setup: packing in place, the cache and unpacking in place lose no entry of
\* the lower triangle.
FactorSurvives ==
  gridPc = "solve" /\ GridOrder > 0 =>
    \A r \in 0..(GridOrder - 1) : \A c \in 0..r : mem[Stored(r) + c] = <<r, c>>

\* The positions of the points and the gradients that a grid is to write.
Chosen(seq, chosen) == {seq[i] : i \in {i \in 1..Len(seq) : chosen[i] \/ ~grid.fine}}
OwnPositions ==
  Chosen(grid.points, grid.innerPoint)
    \cup {MuFull + Components * g + j : g \in Chosen(grid.grads, grid.innerGrad), j \in 0..(Components - 1)}

\* A solution is written where its value was read, though the one is found in a
\* matrix view of the tail and the other by an offset, and a fine grid leaves
\* the weights of points that are inner in other domains alone.
SolutionInPlace ==
  gridPc = "done" =>
    \A p \in DOMAIN gridWeights :
      gridWeights[p] = IF p \notin OwnPositions THEN Missing ELSE IF GridOrder = 0 THEN Zero ELSE p

\* The factor of a grid comes back from the cache entry by entry, in every solve, and
\* solutions are written where the values were read.
GridInPlace == FactorSurvives /\ SolutionInPlace

\* test_coarse_grid.cpp:107 of any grid: its solution fits the values of its
\* points.  The solution is Q gamma, so the rows of Q must be those of the
\* points whose values are read.
RowsOfOwnPoints ==
  gridPc = "solve" /\ GridOrder > 0 /\ l > 0 => \A k \in 0..(GridSize - 1) : rows[k] = values[k]
=============================================================================
