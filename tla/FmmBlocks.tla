------------------------------ MODULE FmmBlocks ------------------------------
(***************************************************************************)
(* The evaluators of one block of the interpolation matrix that            *)
(* make_fmm_evaluator and its five siblings make: direct ones for rbfs of  *)
(* bounded support, fast ones, and pairs of both for the spheroidal        *)
(* covariances.  A block is the sequence of its parts.  A vector has a bag *)
(* of terms for each component, a term being an entry of the matrix with   *)
(* the weight it is multiplied with, so that sums can be compared term by  *)
(* term.  What the fast parts do inside is in module FmmEvaluator; here    *)
(* they return all terms, with an error up to their accuracy.              *)
(***************************************************************************)
EXTENDS Integers, Sequences, FiniteSets, Bags

CONSTANTS
  kDim,
  Near    \* pairs of points (numbers) within any bounded support

Compact == {"CovCubic", "CovSpherical"}
Spheroidal == {"CovSpheroidal3", "CovSpheroidal5", "CovSpheroidal7", "CovSpheroidal9"}
Unbounded == {"Biharmonic2D", "Biharmonic3D", "CovExponential", "CovGaussian", "CovGeneralizedCauchy3",
              "CovGeneralizedCauchy5", "CovGeneralizedCauchy7", "CovGeneralizedCauchy9",
              "Triharmonic2D", "Triharmonic3D"}

-----------------------------------------------------------------------------
(* Entries of the matrix                                                    *)

\* sign times a derivative (along the axes) of a part of an rbf at p - q; odd
\* derivatives change sign with p - q, of which the unordered pair is kept.
Phi(sign, rbf, axes, p, q) ==
  [sign |-> IF p > q /\ Len(axes) = 1 THEN -sign ELSE sign,
   rbf |-> rbf, axes |-> axes, diff |-> IF p = q THEN {} ELSE {p, q}]

\* Direct parts are zero outside their support.
Vanishes(rbf, p, q) == rbf.direct /\ p # q /\ {p, q} \notin Near

Second(i, j) == IF i <= j THEN <<i, j>> ELSE <<j, i>>

\* evaluate of the four kernels: the entries of a kn x km matrix, row by row.
Kernel(rbf, x, y) == <<Phi(1, rbf, <<>>, x, y)>>
GradientKernel(rbf, x, y) == [k \in 1..kDim |-> Phi(-1, rbf, <<k>>, x, y)]
GradientTransposeKernel(rbf, x, y) == [k \in 1..kDim |-> Phi(1, rbf, <<k>>, x, y)]
HessianKernel(rbf, x, y) ==
  [k \in 1..(kDim * kDim) |->
    LET i == (k - 1) \div kDim IN Phi(-1, rbf, Second(i + 1, k - (kDim * i)), x, y)]

Km(kernel) == IF kernel \in {"gradient", "hessian"} THEN kDim ELSE 1
Kn(kernel) == IF kernel \in {"gradientTranspose", "hessian"} THEN kDim ELSE 1
Entries(kernel, rbf, x, y) ==
  CASE kernel = "value" -> Kernel(rbf, x, y)
    [] kernel = "gradient" -> GradientKernel(rbf, x, y)
    [] kernel = "gradientTranspose" -> GradientTransposeKernel(rbf, x, y)
    [] kernel = "hessian" -> HessianKernel(rbf, x, y)

\* The rbfs that throw when asked for a second derivative.
NoHessian(rbf) == rbf.name \in {"CovCubic", "CovSpherical"}

-----------------------------------------------------------------------------
(* A part: particles with inputs, a kd-tree over the sources if direct.     *)

Part(rbf, kernel, symmetric) ==
  [rbf |-> rbf, kernel |-> kernel, symmetric |-> symmetric,
   src |-> <<>>, trg |-> <<>>, inputs |-> <<>>, accuracy |-> 0]

\* Inputs stay with the particles until they are set again.
part_source(part, points) == [part EXCEPT !.src = points]
part_target(part, points) == [part EXCEPT !.trg = points]
part_points(part, points) == [part EXCEPT !.src = points, !.trg = points]

\* One weight for each input of each source.
part_weights(part, w) ==
  LET km == Km(part.kernel)
  IN [part EXCEPT !.inputs = [s \in 1..Len(part.src) |-> [j \in 1..km |-> w[(km * (s - 1)) + j]]]]

part_accuracy(part, accuracy) ==
  IF part.rbf.direct THEN part ELSE [part EXCEPT !.accuracy = accuracy]

\* A sum of terms, one for each element of the domain.
SumOf(f) == [e \in {f[x] : x \in DOMAIN f} |-> Cardinality({x \in DOMAIN f : f[x] = e})]

\* What sources add to output i of a target; pairs are where the two of them are.
Terms(part, pairs, i) ==
  SumOf([sj \in (DOMAIN pairs) \X (1..Km(part.kernel)) |->
          <<Entries(part.kernel, part.rbf, pairs[sj[1]][1], pairs[sj[1]][2])[(Km(part.kernel) * (i - 1)) + sj[2]],
            part.inputs[sj[1]][sj[2]]>>])

\* radius_search of the kd-tree; a fast part has all sources in its trees.
InReach(part, t) ==
  {s \in DOMAIN part.src :
    part.rbf.direct => part.src[s] = part.trg[t] \/ {part.src[s], part.trg[t]} \in Near}
Others(part, t) == InReach(part, t) \ {t}

general_outputs(part, t, i) == Terms(part, [s \in InReach(part, t) |-> <<part.trg[t], part.src[s]>>], i)
symmetric_outputs(part, t, i) == Terms(part, [s \in Others(part, t) |-> <<part.trg[t], part.src[s]>>], i)
handle_self_interaction(part, t, i) == Terms(part, [s \in {t} |-> <<0, 0>>], i)

\* Potentials without the diagonal, for TLC to refute.
potentialsOfOthers(part) ==
  LET kn == Kn(part.kernel)
  IN [r \in 1..(kn * Len(part.trg)) |->
       LET t == ((r - 1) \div kn) + 1
           i == r - (kn * (t - 1))
       IN IF part.symmetric THEN symmetric_outputs(part, t, i) ELSE general_outputs(part, t, i)]

potentials(part) ==
  LET kn == Kn(part.kernel)
  IN [r \in 1..(kn * Len(part.trg)) |->
       LET t == ((r - 1) \div kn) + 1
           i == r - (kn * (t - 1))
       IN IF part.symmetric THEN symmetric_outputs(part, t, i) (+) handle_self_interaction(part, t, i)
          ELSE general_outputs(part, t, i)]

\* Second derivatives taken for every target, whether there are sources or not.
TerminatesWithTargets(part) ==
  part.kernel = "hessian" /\ NoHessian(part.rbf) /\ part.trg # <<>>

\* An exception of a kernel leaves the loop over the targets and ends the program.
Terminates(part) ==
  /\ part.kernel = "hessian" /\ NoHessian(part.rbf)
  /\ \E t \in DOMAIN part.trg : part.symmetric \/ InReach(part, t) # {}

-----------------------------------------------------------------------------
(* Blocks                                                                   *)

Plus(y, z) == [r \in DOMAIN y |-> y[r] (+) z[r]]

rbf_parts(name) ==
  IF name \in Spheroidal
  THEN <<[name |-> name, direct |-> TRUE], [name |-> name, direct |-> FALSE]>>
  ELSE <<[name |-> name, direct |-> name \in Compact]>>
Make(name, kernel, symmetric) ==
  [k \in DOMAIN rbf_parts(name) |-> Part(rbf_parts(name)[k], kernel, symmetric)]

\* By the name of the rbf; another one is "not implemented".
make_fmm_evaluator(name) == Make(name, "value", FALSE)
make_fmm_gradient_evaluator(name) == Make(name, "gradient", FALSE)
make_fmm_gradient_transpose_evaluator(name) == Make(name, "gradientTranspose", FALSE)
make_fmm_hessian_evaluator(name) == Make(name, "hessian", FALSE)
make_fmm_symmetric_evaluator(name) == Make(name, "value", TRUE)
make_fmm_hessian_symmetric_evaluator(name) == Make(name, "hessian", TRUE)

\* Both parts of a pair have all points and weights, and either all of the accuracy.
set_source_points(block, points) == [k \in DOMAIN block |-> part_source(block[k], points)]
set_target_points(block, points) == [k \in DOMAIN block |-> part_target(block[k], points)]
set_points(block, points) == [k \in DOMAIN block |-> part_points(block[k], points)]
set_weights(block, w) == [k \in DOMAIN block |-> part_weights(block[k], w)]
set_accuracy(block, accuracy) == [k \in DOMAIN block |-> part_accuracy(block[k], accuracy)]

evaluate(block) ==
  IF Len(block) = 2 THEN Plus(potentials(block[1]), potentials(block[2])) ELSE potentials(block[1])

Fails(block) == \E k \in DOMAIN block : Terminates(block[k])

\* How far off a component may be.
Error(block) ==
  IF block[1].src = <<>> THEN 0
  ELSE IF Len(block) = 2 THEN block[1].accuracy + block[2].accuracy ELSE block[1].accuracy
==============================================================================
