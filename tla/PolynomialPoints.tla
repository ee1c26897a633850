--------------------------- MODULE PolynomialPoints ---------------------------
(***************************************************************************)
(* How the preconditioner chooses the points that fix the polynomial:      *)
(* UnisolventPointSet draws sets of as many points as there are monomials  *)
(* and keeps the one whose matrix is conditioned best; the finest level    *)
(* has these points in front of the others.  Determinants stand for the    *)
(* estimates of the reciprocal condition: zero for singular matrices, and  *)
(* some order of the others.                                               *)
(***************************************************************************)
EXTENDS Polynomials

CONSTANTS
  Problems,   \* records: dim, degree, points, grads
  NumTrials

ASSUME NumTrialsAssumption == NumTrials \in Nat \ {0}
\* Determinant has up to four rows.
ASSUME ProblemsAssumption ==
  \A x \in Problems :
    /\ x.dim \in 1..3 /\ x.degree \in -1..2 /\ basis_size(x.dim, x.degree) <= 4
    /\ x.points \in Seq([1..x.dim -> Int]) /\ x.grads \in Seq([1..x.dim -> Int])

VARIABLES
  problem, polyPc, trial,
  set,                         \* indices drawn in this trial
  best_set, best_rcond, found,
  tried,                       \* all sets of the trials
  poly, order                  \* poly_point_idcs, and point_idcs_ of the finest level
polyVars == <<problem, polyPc, trial, set, best_set, best_rcond, found, tried, poly, order>>

Special(x) == x.degree = 1 /\ Len(x.points) = 1 /\ Len(x.grads) >= 1

\* Interpolant fits no fewer points.
check_num_points(x) == Special(x) \/ Len(x.points) >= basis_size(x.dim, x.degree)

Size == basis_size(problem.dim, problem.degree)
PointIndices == DOMAIN problem.points

\* The indices of a set in increasing order.
Sorted(S) ==
  LET Rank(i) == Cardinality({j \in S : j <= i})
  IN [k \in 1..Cardinality(S) |-> CHOOSE i \in S : Rank(i) = k]

\* Of one to four rows.
Determinant2(a, b) == (a[1] * b[2]) - (a[2] * b[1])
Determinant3(a, b, c) ==
  ((a[1] * Determinant2(<<b[2], b[3]>>, <<c[2], c[3]>>)) - (a[2] * Determinant2(<<b[1], b[3]>>, <<c[1], c[3]>>)))
    + (a[3] * Determinant2(<<b[1], b[2]>>, <<c[1], c[2]>>))
Without(row, k) == [j \in 1..3 |-> IF j < k THEN row[j] ELSE row[j + 1]]
Determinant(m) ==
  CASE Len(m) = 1 -> m[1][1]
    [] Len(m) = 2 -> Determinant2(m[1], m[2])
    [] Len(m) = 3 -> Determinant3(m[1], m[2], m[3])
    [] Len(m) = 4 ->
         LET Minor(k) == Determinant3(Without(m[2], k), Without(m[3], k), Without(m[4], k))
         IN ((m[1][1] * Minor(1)) - (m[1][2] * Minor(2))) + ((m[1][3] * Minor(3)) - (m[1][4] * Minor(4)))
Abs(n) == IF n < 0 THEN -n ELSE n

\* The matrix of LagrangeBasis, and what the estimate of its condition depends on.
LagrangeRows(idcs, grads) ==
  evaluate(problem.dim, problem.degree, [k \in DOMAIN idcs |-> problem.points[idcs[k]]], grads)
Rcond(S) == Abs(Determinant(LagrangeRows(Sorted(S), <<>>)))
Invertible(rows) == Determinant(rows) # 0

-----------------------------------------------------------------------------
PolyInit ==
  /\ problem \in {x \in Problems : check_num_points(x)}
  /\ polyPc = "start" /\ trial = 0 /\ set = {}
  /\ best_set = {} /\ best_rcond = 0 /\ found = FALSE /\ tried = {}
  /\ poly = <<>> /\ order = <<>>

\* Polynomial points first, then the others.
PolyFirst(idcs) ==
  idcs \o Sorted(PointIndices \ {idcs[k] : k \in DOMAIN idcs})

\* Without monomials there is nothing to fix; one point with gradients is fixed by
\* its value and the first gradient.
StartWithout ==
  /\ polyPc = "start" /\ (Size = 0 \/ Special(problem))
  /\ poly' = IF Size = 0 THEN <<>> ELSE <<1>>
  /\ order' = PolyFirst(poly')
  /\ polyPc' = "done"
  /\ UNCHANGED <<problem, trial, set, best_set, best_rcond, found, tried>>

Start ==
  /\ polyPc = "start" /\ Size > 0 /\ ~Special(problem)
  /\ polyPc' = "draw"
  /\ UNCHANGED <<problem, trial, set, best_set, best_rcond, found, tried, poly, order>>

\* A draw of an index that the set has already changes nothing.
Draw ==
  \E i \in PointIndices \ set :
    /\ polyPc = "draw" /\ trial < NumTrials /\ Cardinality(set) < Size
    /\ set' = set \cup {i}
    /\ UNCHANGED <<problem, polyPc, trial, best_set, best_rcond, found, tried, poly, order>>

\* Try with the latest set that can be used.
TryLatest ==
  /\ polyPc = "draw" /\ trial < NumTrials /\ Cardinality(set) = Size
  /\ IF Invertible(LagrangeRows(Sorted(set), <<>>))
     THEN found' = TRUE /\ best_rcond' = Rcond(set) /\ best_set' = set
     ELSE UNCHANGED <<found, best_rcond, best_set>>
  /\ tried' = tried \cup {set}
  /\ set' = {}
  /\ trial' = trial + 1
  /\ UNCHANGED <<problem, polyPc, poly, order>>

\* LagrangeBasis throws for a singular matrix, and the trial is over.
Try ==
  /\ polyPc = "draw" /\ trial < NumTrials /\ Cardinality(set) = Size
  /\ IF Invertible(LagrangeRows(Sorted(set), <<>>))
     THEN /\ found' = TRUE
          /\ IF best_rcond < Rcond(set)
             THEN best_rcond' = Rcond(set) /\ best_set' = set
             ELSE UNCHANGED <<best_rcond, best_set>>
     ELSE UNCHANGED <<found, best_rcond, best_set>>
  /\ tried' = tried \cup {set}
  /\ set' = {}
  /\ trial' = trial + 1
  /\ UNCHANGED <<problem, polyPc, poly, order>>

Choose ==
  /\ polyPc = "draw" /\ trial = NumTrials /\ found
  /\ poly' = Sorted(best_set)
  /\ order' = PolyFirst(poly')
  /\ polyPc' = "done"
  /\ UNCHANGED <<problem, trial, set, best_set, best_rcond, found, tried>>

Fail ==
  /\ polyPc = "draw" /\ trial = NumTrials /\ ~found
  /\ polyPc' = "thrown"
  /\ UNCHANGED <<problem, trial, set, best_set, best_rcond, found, tried, poly, order>>

PolyNext == StartWithout \/ Start \/ Draw \/ Try \/ Choose \/ Fail

\* The generator comes to every index again and again.
PolySpec == PolyInit /\ [][PolyNext]_polyVars /\ WF_polyVars(PolyNext)

-----------------------------------------------------------------------------
PolyTypeOK ==
  /\ polyPc \in {"start", "draw", "done", "thrown"} /\ trial \in 0..NumTrials
  /\ set \subseteq PointIndices /\ best_set \subseteq PointIndices
  /\ best_rcond \in Nat /\ found \in BOOLEAN

\* The rows of the points in front are invertible, as the polynomial of a solution is
\* found from them, and no set that was drawn is conditioned better; the other points
\* follow, none lost.  It throws if nothing that was drawn can be used.  All this is about
\* the monomials up to the degree, each once, and their derivatives.
PolynomialFixed ==
  /\ polyPc = "done" =>
       /\ MonomialsRight
       /\ Size > 0 => Invertible(LagrangeRows(poly, IF Special(problem) THEN SubSeq(problem.grads, 1, 1) ELSE <<>>))
       /\ \A S \in tried : Rcond(S) <= Rcond({poly[k] : k \in DOMAIN poly})
       /\ SubSeq(order, 1, Len(poly)) = poly
       /\ Len(order) = Cardinality(PointIndices) /\ {order[k] : k \in DOMAIN order} = PointIndices
  /\ polyPc = "thrown" => \A S \in tried : ~Invertible(LagrangeRows(Sorted(S), <<>>))

\* Every choice ends.
PolyTerminates == <>(polyPc \in {"done", "thrown"})
===============================================================================
