--------------------------- MODULE DirectProducts ---------------------------
(***************************************************************************)
(* DirectEvaluator and DirectOperator, which go through all pairs of rows  *)
(* and columns: for each rbf, threads share the rows, each sums up its own *)
(* in a vector of its own, and they add these to y one after another.      *)
(***************************************************************************)
EXTENDS MatrixProduct

CONSTANT Thread  \* numbers from 1

ASSUME ThreadAssumption == IsFiniteSet(Thread) /\ Thread = 1..Cardinality(Thread) /\ Thread # {}

VARIABLES
  directKind, directModel,
  directSrc, directTrg,     \* points and grads; those of an operator are both
  directWeights,
  turn,                     \* the rbf whose turn it is, 0 between calls
  directY,                  \* Unset after a setter
  local, loaded, threadPc,
  critical                  \* the thread in the critical section, or 0
directVars == <<directKind, directModel, directSrc, directTrg, directWeights, turn, directY,
                local, loaded, threadPc, critical>>

Mu == Len(directSrc.points)
Rows(list) == Len(list.points) + (kDim * Len(list.grads))
SquarePairs == directKind = "DirectOperator"

DirectInit ==
  /\ directKind \in {"DirectEvaluator", "DirectOperator"}
  /\ directModel \in Models
  /\ directSrc = Nothing /\ directTrg = Nothing /\ directWeights = Unset
  /\ turn = 0 /\ directY = Unset
  /\ local = [t \in Thread |-> <<>>] /\ loaded = [t \in Thread |-> <<>>]
  /\ threadPc = [t \in Thread |-> "done"] /\ critical = 0

SetDirectSources ==
  \E list \in Lists :
    /\ directKind = "DirectEvaluator" /\ turn = 0
    /\ directSrc' = list /\ directWeights' = Unset /\ directY' = Unset
    /\ UNCHANGED <<directKind, directModel, directTrg, turn, local, loaded, threadPc, critical>>

SetDirectTargets ==
  \E list \in Lists :
    /\ directKind = "DirectEvaluator" /\ turn = 0
    /\ directTrg' = list /\ directY' = Unset
    /\ UNCHANGED <<directKind, directModel, directSrc, directWeights, turn,
                   local, loaded, threadPc, critical>>

SetDirectPoints ==
  \E list \in Lists :
    /\ SquarePairs /\ turn = 0
    /\ directSrc' = list /\ directTrg' = list /\ directWeights' = Unset /\ directY' = Unset
    /\ UNCHANGED <<directKind, directModel, turn, local, loaded, threadPc, critical>>

SetDirectWeights ==
  \E name \in WeightNames :
    /\ directKind = "DirectEvaluator" /\ turn = 0
    /\ directWeights' = [c \in 1..(Rows(directSrc) + directModel.l) |-> <<name, c>>]
    /\ directY' = Unset
    /\ UNCHANGED <<directKind, directModel, directSrc, directTrg, turn,
                   local, loaded, threadPc, critical>>

-----------------------------------------------------------------------------
w_(j) == directWeights[j]
grad_w(j, axis) == directWeights[Mu + (kDim * (j - 1)) + axis]

\* An rbf is the sum of its parts, of which some may vanish at p and a source.
Parts == rbf_parts(directModel.rbfs[turn])
Pairs(p, points) ==
  {kj \in (DOMAIN Parts) \X (DOMAIN points) : ~Vanishes(Parts[kj[1]], p, points[kj[2]])}

\* The loops over the sources and over their axes, for one value and for one partial derivative.
ValueRow(p) ==
  SumOf([x \in Pairs(p, directSrc.points) |->
          <<Phi(1, Parts[x[1]], <<>>, p, directSrc.points[x[2]]), w_(x[2])>>])
  (+) SumOf([x \in Pairs(p, directSrc.grads) \X (1..kDim) |->
              <<Phi(-1, Parts[x[1][1]], <<x[2]>>, p, directSrc.grads[x[1][2]]),
                grad_w(x[1][2], x[2])>>])
GradientRow(p, axis) ==
  SumOf([x \in Pairs(p, directSrc.points) |->
          <<Phi(1, Parts[x[1]], <<axis>>, p, directSrc.points[x[2]]), w_(x[2])>>])
  (+) SumOf([x \in Pairs(p, directSrc.grads) \X (1..kDim) |->
              <<Phi(-1, Parts[x[1][1]], Second(axis, x[2]), p, directSrc.grads[x[1][2]]),
                grad_w(x[1][2], x[2])>>])

\* schedule(static): as many iterations in a row for each thread.
Mine(t, n) == {k \in 1..n : ((k - 1) * Cardinality(Thread)) \div n = t - 1}

\* Some rbfs have no Hessian, and the program ends in the loop that asks for it.
HessiansThere ==
  \/ directSrc.grads = <<>>
  \/ directTrg.grads = <<>>
  \/ \A k \in DOMAIN directModel.rbfs : ~NoHessian(rbf_parts(directModel.rbfs[k])[1])

\* The rows of a thread in the loops over the points and over the gradients.
RowSums(t) ==
  LET n == Len(directTrg.points)
      m == Len(directTrg.grads)
  IN [r \in DOMAIN directY |->
       IF r \in Mine(t, n) THEN ValueRow(directTrg.points[r])
       ELSE LET k == ((r - n - 1) \div kDim) + 1
            IN IF r \in (n + 1)..(n + (kDim * m)) /\ k \in Mine(t, m)
               THEN GradientRow(directTrg.grads[k], r - n - (kDim * (k - 1)))
               ELSE EmptyBag]

\* Into y_local.
Work(t) ==
  /\ threadPc[t] = "work"
  /\ local' = [local EXCEPT ![t] = RowSums(t)]
  /\ threadPc' = [threadPc EXCEPT ![t] = "merge"]
  /\ UNCHANGED <<directKind, directModel, directSrc, directTrg, directWeights, turn, directY,
                 loaded, critical>>

\* Without omp critical.
EnterAnytime(t) ==
  /\ threadPc[t] = "merge"
  /\ critical' = t
  /\ loaded' = [loaded EXCEPT ![t] = directY]
  /\ threadPc' = [threadPc EXCEPT ![t] = "merging"]
  /\ UNCHANGED <<directKind, directModel, directSrc, directTrg, directWeights, turn, directY,
                 local>>

\* y += y_local reads y and writes it.
Enter(t) ==
  /\ threadPc[t] = "merge" /\ critical = 0
  /\ critical' = t
  /\ loaded' = [loaded EXCEPT ![t] = directY]
  /\ threadPc' = [threadPc EXCEPT ![t] = "merging"]
  /\ UNCHANGED <<directKind, directModel, directSrc, directTrg, directWeights, turn, directY,
                 local>>

Leave(t) ==
  /\ threadPc[t] = "merging"
  /\ directY' = Plus(loaded[t], local[t])
  /\ critical' = 0
  /\ local' = [local EXCEPT ![t] = <<>>]
  /\ loaded' = [loaded EXCEPT ![t] = <<>>]
  /\ threadPc' = [threadPc EXCEPT ![t] = "done"]
  /\ UNCHANGED <<directKind, directModel, directSrc, directTrg, directWeights, turn>>

-----------------------------------------------------------------------------
Working == [t \in Thread |-> "work"]

EvaluatePairs ==
  /\ directKind = "DirectEvaluator" /\ turn = 0 /\ directWeights # Unset /\ HessiansThere
  /\ turn' = 1
  /\ directY' = [r \in 1..Rows(directTrg) |-> EmptyBag]
  /\ threadPc' = Working
  /\ UNCHANGED <<directKind, directModel, directSrc, directTrg, directWeights,
                 local, loaded, critical>>

\* A call of the operator starts from the nugget.
ApplyPairs ==
  \E name \in WeightNames :
    LET w == [c \in 1..(Rows(directSrc) + directModel.l) |-> <<name, c>>] IN
    /\ SquarePairs /\ turn = 0 /\ HessiansThere
    /\ directWeights' = w
    /\ turn' = 1
    /\ directY' = [r \in DOMAIN w |-> IF r <= Mu THEN SetToBag({<<Nugget, w[r]>>}) ELSE EmptyBag]
    /\ threadPc' = Working
    /\ UNCHANGED <<directKind, directModel, directSrc, directTrg, local, loaded, critical>>

NextRbf ==
  /\ turn \in 1..(Len(directModel.rbfs) - 1)
  /\ \A t \in Thread : threadPc[t] = "done"
  /\ turn' = turn + 1 /\ threadPc' = Working
  /\ UNCHANGED <<directKind, directModel, directSrc, directTrg, directWeights, directY,
                 local, loaded, critical>>

Basis == Functionals(directTrg.points, directTrg.grads)
l_weight(k) == directWeights[Rows(directSrc) + k]

\* The polynomial terms, and of the operator the rows below.
FinishPairs ==
  /\ turn = Len(directModel.rbfs)
  /\ \A t \in Thread : threadPc[t] = "done"
  /\ directY' =
       [r \in DOMAIN directY |->
         IF r \in DOMAIN Basis
         THEN directY[r] (+) SetToBag({<<Monomial(k, Basis[r]), l_weight(k)>> :
                                       k \in 1..directModel.l})
         ELSE directY[r] (+) SetToBag({<<Monomial(r - Rows(directSrc), Basis[c]), directWeights[c]>> :
                                       c \in DOMAIN Basis})]
  /\ turn' = 0
  /\ UNCHANGED <<directKind, directModel, directSrc, directTrg, directWeights,
                 local, loaded, threadPc, critical>>

DirectNext ==
  \/ SetDirectSources \/ SetDirectTargets \/ SetDirectPoints \/ SetDirectWeights
  \/ EvaluatePairs \/ ApplyPairs \/ NextRbf \/ FinishPairs
  \/ \E t \in Thread : Work(t) \/ Enter(t) \/ Leave(t)
DirectSpec == DirectInit /\ [][DirectNext]_directVars

-----------------------------------------------------------------------------
\* Threads are where they can be.
DirectTypeOK ==
  /\ turn \in 0..Len(directModel.rbfs) /\ critical \in Thread \cup {0}
  /\ \A t \in Thread :
       /\ threadPc[t] \in {"work", "merge", "merging", "done"}
       /\ critical = t => threadPc[t] = "merging"

\* Sums over all pairs are the product, whatever the order of the threads: no thread
\* overwrites what another one added, and each row has one.
PairProductsComplete ==
  turn = 0 /\ directY # Unset =>
    directY = IF SquarePairs
              THEN SquareProduct(directModel, directSrc.points, directSrc.grads, directWeights)
              ELSE Product(directModel, directSrc.points, directSrc.grads,
                           directTrg.points, directTrg.grads, directWeights)
==============================================================================
