----------------------------- MODULE Evaluators -----------------------------
(***************************************************************************)
(* Products with the interpolation matrix by blocks: Evaluator with        *)
(* sources and targets of their own, SymmetricEvaluator where they are the *)
(* same, and Operator, which takes its weights with each call.  For every  *)
(* rbf there are the evaluators a (values at values), f (gradients at      *)
(* values), ft (values at gradients) and h.  Callers set the weights after *)
(* the sources, as the assertions of set_weights ask for.  What is asked   *)
(* of them and of the direct classes, which have no blocks, comes last.    *)
(***************************************************************************)
EXTENDS DirectProducts

CONSTANTS
  ValueAccuracy, GradAccuracy

\* No share of the accuracy is rounded.
ASSUME SharesAssumption ==
  /\ ValueAccuracy \in Nat /\ GradAccuracy \in Nat
  /\ \A x \in Models : ValueAccuracy % (2 * Len(x.rbfs)) = 0 /\ GradAccuracy % (2 * Len(x.rbfs)) = 0

VARIABLES
  kind, model,  \* the class, and the model it was made with
  a, f, ft, h,  \* per rbf, a block
  mu, sigma, trg_mu, trg_sigma,
  poly,         \* the PolynomialEvaluator or, of an operator, the rows of p_
  given,        \* what the setters were last called with
  y             \* the result of the last call, Unset if it was a setter
blockVars == <<kind, model, a, f, ft, h, mu, sigma, trg_mu, trg_sigma, poly, given, y>>

Rbfs == DOMAIN model.rbfs
Symmetric == kind # "Evaluator"

\* Components of weights, as one vector for the present sources.
WeightsNamed(name, n) == [c \in 1..n |-> <<name, c>>]
NumWeights == mu + (kDim * sigma) + model.l
FirstOf(w, n) == SubSeq(w, 1, n)
Segment(w, first, n) == SubSeq(w, first + 1, first + n)
LastOf(w, n) == SubSeq(w, Len(w) - n + 1, Len(w))

BlockInit ==
  /\ kind \in {"Evaluator", "SymmetricEvaluator", "Operator"}
  /\ model \in Models
  /\ a = [i \in Rbfs |-> IF Symmetric THEN make_fmm_symmetric_evaluator(model.rbfs[i])
                         ELSE make_fmm_evaluator(model.rbfs[i])]
  /\ f = [i \in Rbfs |-> make_fmm_gradient_evaluator(model.rbfs[i])]
  /\ ft = [i \in Rbfs |-> make_fmm_gradient_transpose_evaluator(model.rbfs[i])]
  /\ h = [i \in Rbfs |-> IF Symmetric THEN make_fmm_hessian_symmetric_evaluator(model.rbfs[i])
                         ELSE make_fmm_hessian_evaluator(model.rbfs[i])]
  /\ mu = 0 /\ sigma = 0 /\ trg_mu = 0 /\ trg_sigma = 0
  /\ poly = [rows |-> <<>>, weights |-> [k \in 1..model.l |-> Unset]]
  /\ given = [src |-> Nothing, trg |-> Nothing, w |-> Unset]
  /\ y = Unset

\* The accuracy divided by the rbfs only.
ShareOfRbfs(accuracy, n_grads) == accuracy \div Len(model.rbfs)

\* The accuracy of a sum of at most two terms for each rbf.
Share(accuracy, n_grads) ==
  (IF n_grads > 0 THEN accuracy \div 2 ELSE accuracy) \div Len(model.rbfs)

-----------------------------------------------------------------------------
(* Evaluator                                                                *)

set_source_points_(points, grads) ==
  /\ mu' = Len(points) /\ sigma' = Len(grads)
  /\ LET accuracy == Share(ValueAccuracy, sigma')
         grad_accuracy == Share(GradAccuracy, sigma')
     IN /\ a' = [i \in Rbfs |-> set_accuracy(set_source_points(a[i], points), accuracy)]
        /\ f' = [i \in Rbfs |-> set_accuracy(set_source_points(f[i], grads), accuracy)]
        /\ ft' = [i \in Rbfs |-> set_accuracy(set_source_points(ft[i], points), grad_accuracy)]
        /\ h' = [i \in Rbfs |-> set_accuracy(set_source_points(h[i], grads), grad_accuracy)]
  /\ UNCHANGED <<trg_mu, trg_sigma, poly>>

set_target_points_(points, grads) ==
  /\ trg_mu' = Len(points) /\ trg_sigma' = Len(grads)
  /\ a' = [i \in Rbfs |-> set_target_points(a[i], points)]
  /\ f' = [i \in Rbfs |-> set_target_points(f[i], points)]
  /\ ft' = [i \in Rbfs |-> set_target_points(ft[i], grads)]
  /\ h' = [i \in Rbfs |-> set_target_points(h[i], grads)]
  /\ poly' = [poly EXCEPT !.rows = Functionals(points, grads)]
  /\ UNCHANGED <<mu, sigma>>

set_weights_(w) ==
  /\ a' = [i \in Rbfs |-> set_weights(a[i], FirstOf(w, mu))]
  /\ f' = [i \in Rbfs |-> set_weights(f[i], Segment(w, mu, kDim * sigma))]
  /\ ft' = [i \in Rbfs |-> set_weights(ft[i], FirstOf(w, mu))]
  /\ h' = [i \in Rbfs |-> set_weights(h[i], Segment(w, mu, kDim * sigma))]
  /\ poly' = [poly EXCEPT !.weights = LastOf(w, model.l)]
  /\ UNCHANGED <<mu, sigma, trg_mu, trg_sigma>>

\* The polynomial at the rows, with the weights of its monomials.
polynomial_terms(rows, w) ==
  [r \in DOMAIN rows |-> SetToBag({<<Monomial(k, rows[r]), w[k]>> : k \in DOMAIN w})]

\* The rbfs are added one after another, each to the head or the tail of y.
AddBlocks(y0, head, tail, aa, ff, ftt, hh) ==
  LET Added[i \in 0..Len(model.rbfs)] ==
        IF i = 0 THEN y0
        ELSE LET at == Plus(evaluate(aa[i]), evaluate(ff[i]))
                 grad == Plus(evaluate(ftt[i]), evaluate(hh[i]))
             IN [r \in DOMAIN y0 |->
                  CASE r \in 1..head -> Added[i - 1][r] (+) at[r]
                    [] r \in (head + 1)..(head + tail) -> Added[i - 1][r] (+) grad[r - head]
                    [] OTHER -> Added[i - 1][r]]
  IN Added[Len(model.rbfs)]

Zeros(n) == [r \in 1..n |-> EmptyBag]

evaluate_ ==
  LET head == trg_mu
      tail == kDim * trg_sigma
  IN Plus(AddBlocks(Zeros(head + tail), head, tail, a, f, ft, h), polynomial_terms(poly.rows, poly.weights))

-----------------------------------------------------------------------------
(* SymmetricEvaluator                                                       *)

\* set_points without the rows of the polynomial.
set_points_OldRows(points, grads) ==
  /\ mu' = Len(points) /\ sigma' = Len(grads)
  /\ LET accuracy == Share(ValueAccuracy, sigma')
         grad_accuracy == Share(GradAccuracy, sigma')
         crossed(block, src, trg) == set_target_points(set_source_points(block, src), trg)
     IN /\ a' = [i \in Rbfs |-> set_accuracy(set_points(a[i], points), accuracy)]
        /\ f' = [i \in Rbfs |-> set_accuracy(crossed(f[i], grads, points), accuracy)]
        /\ ft' = [i \in Rbfs |-> set_accuracy(crossed(ft[i], points, grads), grad_accuracy)]
        /\ h' = [i \in Rbfs |-> set_accuracy(set_points(h[i], grads), grad_accuracy)]
  /\ poly' = IF poly.rows = <<>> THEN [poly EXCEPT !.rows = Functionals(points, grads)] ELSE poly
  /\ UNCHANGED <<trg_mu, trg_sigma>>

set_points_(points, grads) ==
  /\ mu' = Len(points) /\ sigma' = Len(grads)
  /\ LET accuracy == Share(ValueAccuracy, sigma')
         grad_accuracy == Share(GradAccuracy, sigma')
         crossed(block, src, trg) == set_target_points(set_source_points(block, src), trg)
     IN /\ a' = [i \in Rbfs |-> set_accuracy(set_points(a[i], points), accuracy)]
        /\ f' = [i \in Rbfs |-> set_accuracy(crossed(f[i], grads, points), accuracy)]
        /\ ft' = [i \in Rbfs |-> set_accuracy(crossed(ft[i], points, grads), grad_accuracy)]
        /\ h' = [i \in Rbfs |-> set_accuracy(set_points(h[i], grads), grad_accuracy)]
  /\ poly' = [poly EXCEPT !.rows = Functionals(points, grads)]
  /\ UNCHANGED <<trg_mu, trg_sigma>>

evaluate_symmetric ==
  LET head == mu
      tail == kDim * sigma
  IN Plus(AddBlocks(Zeros(head + tail), head, tail, a, f, ft, h), polynomial_terms(poly.rows, poly.weights))

-----------------------------------------------------------------------------
(* Operator                                                                 *)

\* y for the weights w, with the blocks as they are when w is set.
apply(w, aa, ff, ftt, hh) ==
  LET n == mu + (kDim * sigma)
      nugget == [r \in 1..(n + model.l) |-> IF r <= mu THEN SetToBag({<<Nugget, w[r]>>}) ELSE EmptyBag]
      blocks == AddBlocks(nugget, mu, kDim * sigma, aa, ff, ftt, hh)
      p == polynomial_terms(poly.rows, LastOf(w, model.l))
  IN [r \in 1..(n + model.l) |->
       IF r <= n THEN blocks[r] (+) p[r]
       ELSE blocks[r] (+) SetToBag({<<Monomial(r - n, poly.rows[c]), w[c]>> : c \in 1..n})]

-----------------------------------------------------------------------------
\* Whether an evaluation would ask an rbf for a second derivative it has not.
EvaluationFails == \E i \in Rbfs : \E block \in {a[i], f[i], ft[i], h[i]} : Fails(block)

SetBlockSources ==
  \E list \in Lists :
    /\ kind = "Evaluator"
    /\ set_source_points_(list.points, list.grads)
    /\ given' = [given EXCEPT !.src = list, !.w = Unset]
    /\ y' = Unset
    /\ UNCHANGED <<kind, model>>

SetBlockTargets ==
  \E list \in Lists :
    /\ kind = "Evaluator"
    /\ set_target_points_(list.points, list.grads)
    /\ given' = [given EXCEPT !.trg = list]
    /\ y' = Unset
    /\ UNCHANGED <<kind, model>>

SetBlockPoints ==
  \E list \in Lists :
    /\ Symmetric
    /\ set_points_(list.points, list.grads)
    /\ given' = [src |-> list, trg |-> list, w |-> Unset]
    /\ y' = Unset
    /\ UNCHANGED <<kind, model>>

\* Direct parts have no kd-tree before the sources are set.
SetBlockWeights ==
  \E name \in WeightNames :
    /\ kind # "Operator" /\ (Symmetric \/ given.src # Nothing)
    /\ set_weights_(WeightsNamed(name, NumWeights))
    /\ given' = [given EXCEPT !.w = WeightsNamed(name, NumWeights)]
    /\ y' = Unset
    /\ UNCHANGED <<kind, model>>

EvaluateBlocks ==
  /\ kind # "Operator" /\ given.w # Unset /\ ~EvaluationFails
  /\ y' = IF Symmetric THEN evaluate_symmetric ELSE evaluate_
  /\ UNCHANGED <<kind, model, a, f, ft, h, mu, sigma, trg_mu, trg_sigma, poly, given>>

Apply ==
  \E name \in WeightNames :
    LET w == WeightsNamed(name, NumWeights) IN
    /\ kind = "Operator" /\ ~EvaluationFails
    /\ a' = [i \in Rbfs |-> set_weights(a[i], FirstOf(w, mu))]
    /\ f' = [i \in Rbfs |-> set_weights(f[i], Segment(w, mu, kDim * sigma))]
    /\ ft' = [i \in Rbfs |-> set_weights(ft[i], FirstOf(w, mu))]
    /\ h' = [i \in Rbfs |-> set_weights(h[i], Segment(w, mu, kDim * sigma))]
    /\ y' = apply(w, a', f', ft', h')
    /\ given' = [given EXCEPT !.w = w]
    /\ UNCHANGED <<kind, model, mu, sigma, trg_mu, trg_sigma, poly>>

BlockNext == SetBlockSources \/ SetBlockTargets \/ SetBlockPoints \/ SetBlockWeights \/ EvaluateBlocks \/ Apply
BlockSpec == BlockInit /\ [][BlockNext]_blockVars

-----------------------------------------------------------------------------
\* Sizes fit what was set.
BlockTypeOK ==
  /\ mu = Len(given.src.points) /\ sigma = Len(given.src.grads)
  /\ ~Symmetric => trg_mu = Len(given.trg.points) /\ trg_sigma = Len(given.trg.grads)
  /\ DOMAIN a = Rbfs /\ DOMAIN f = Rbfs /\ DOMAIN ft = Rbfs /\ DOMAIN h = Rbfs
  /\ y = Unset \/ Len(y) \in Nat

\* A result made of blocks is the product with what was given last.
BlockProductsComplete ==
  y # Unset =>
    y = IF kind = "Operator" THEN SquareProduct(model, given.src.points, given.src.grads, given.w)
        ELSE Product(model, given.src.points, given.src.grads, given.trg.points, given.trg.grads, given.w)

\* Whatever was set in whatever order, a result of any of the five classes has each term of
\* the product with the latest points and weights once, with its sign, and none more.
ProductsComplete == BlockProductsComplete /\ PairProductsComplete

\* The errors that the blocks are allowed add up.
ErrorSum(left, right) ==
  LET Sum[i \in 0..Len(model.rbfs)] ==
        IF i = 0 THEN 0 ELSE Sum[i - 1] + (Error(left[i]) + Error(right[i]))
  IN Sum[Len(model.rbfs)]

\* What the blocks of a product are allowed to be off adds up to no more than what was asked
\* for, and rbfs without second derivatives are not asked for them where there are no gradients.
BlocksSuitable ==
  /\ ErrorSum(a, f) <= ValueAccuracy /\ ErrorSum(ft, h) <= GradAccuracy
  /\ given.src.grads = <<>> \/ given.trg.grads = <<>> => ~EvaluationFails
==============================================================================
