---------------------------- MODULE MatrixProduct ----------------------------
(***************************************************************************)
(* What a product with the interpolation matrix is, by definition: a row   *)
(* for each value and each partial derivative at the targets, a column for *)
(* each at the sources, in each place the derivative of the rbfs along     *)
(* both, and a column for each monomial.  It is written from the matrix    *)
(* (docs of the library call its blocks A, F, F^T, H and P), not from how  *)
(* any of the evaluators computes it, and is what they are compared with.  *)
(***************************************************************************)
EXTENDS FmmBlocks

CONSTANTS
  Models,     \* records: rbfs, a sequence of names, and l, the number of monomials
  Lists,      \* records: points, grads
  WeightNames,
  Unset

ASSUME DimAssumption == kDim \in Nat \ {0}
ASSUME ModelsAssumption ==
  \A x \in Models :
    x.rbfs \in Seq(Compact \cup Spheroidal \cup Unbounded) /\ x.rbfs # <<>> /\ x.l \in Nat
ASSUME ListsAssumption == \A x \in Lists : x.points \in Seq(Nat) /\ x.grads \in Seq(Nat)

Nothing == [points |-> <<>>, grads |-> <<>>]

\* The rows or columns of points and of points with gradients.
Functionals(points, grads) ==
  [r \in 1..(Len(points) + (kDim * Len(grads))) |->
    IF r <= Len(points) THEN [at |-> points[r], axis |-> 0]
    ELSE LET k == r - Len(points) - 1
         IN [at |-> grads[(k \div kDim) + 1], axis |-> (k % kDim) + 1]]

\* A model: its rbfs and the number of its monomials.
RbfsOf(model) == UNION {{<<i, k>> : k \in DOMAIN rbf_parts(model.rbfs[i])} : i \in DOMAIN model.rbfs}

\* A derivative along y is that along x with the sign changed.
EntryAt(rbf, row, col) ==
  Phi(IF col.axis = 0 THEN 1 ELSE -1, rbf,
      IF row.axis = 0 THEN IF col.axis = 0 THEN <<>> ELSE <<col.axis>>
      ELSE IF col.axis = 0 THEN <<row.axis>> ELSE Second(row.axis, col.axis),
      row.at, col.at)

\* The value of a monomial or of its derivative.
Monomial(k, row) == [monomial |-> k, at |-> row]

Nugget == [nugget |-> TRUE]

RbfTerms(model, row, src, grads, w) ==
  LET cols == Functionals(src, grads)
      rbf(ik) == rbf_parts(model.rbfs[ik[1]])[ik[2]]
      all == {x \in RbfsOf(model) \X DOMAIN cols : ~Vanishes(rbf(x[1]), row.at, cols[x[2]].at)}
  IN SumOf([x \in all |-> <<EntryAt(rbf(x[1]), row, cols[x[2]]), w[x[2]]>>])

MonomialTerms(model, row, w) ==
  SetToBag({<<Monomial(k, row), w[(Len(w) - model.l) + k]>> : k \in 1..model.l})

Product(model, src, grads, trg, trgGrads, w) ==
  [r \in DOMAIN Functionals(trg, trgGrads) |->
    LET row == Functionals(trg, trgGrads)[r]
    IN RbfTerms(model, row, src, grads, w) (+) MonomialTerms(model, row, w)]

\* The whole matrix: with a nugget on the diagonal of the values, and the conditions
\* on the weights below.
SquareProduct(model, points, grads, w) ==
  LET rows == Functionals(points, grads)
      y == Product(model, points, grads, points, grads, w)
  IN [r \in DOMAIN y |-> IF r <= Len(points) THEN y[r] (+) SetToBag({<<Nugget, w[r]>>}) ELSE y[r]]
     \o [k \in 1..model.l |-> SetToBag({<<Monomial(k, rows[r]), w[r]>> : r \in DOMAIN rows})]
==============================================================================
