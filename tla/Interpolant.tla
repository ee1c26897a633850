---------------------------- MODULE Interpolant ----------------------------
(***************************************************************************)
(* interpolant.hpp: an interpolant that is fitted in three ways, from      *)
(* nothing, from itself or from one in a file, evaluated, handed to an     *)
(* isosurface as a field function, saved and loaded.                       *)
(*                                                                         *)
(* A point is its location, on a line.  A weight is the component that a   *)
(* fit computed it for: of a center, of a gradient, of the polynomial.     *)
(***************************************************************************)
EXTENDS Integers, Sequences, SequencesExt, FiniteSets

CONSTANTS
  ModelSet,   \* the models
  Locations,  \* where points may be, consecutive integers
  Given,      \* the points and gradient points that are given to fit
  GradDim,    \* kDim
  BasisSize,  \* poly_basis_size()
  None        \* no initial interpolant, no file, an empty unique_ptr

ASSUME NumbersAssumption == GradDim \in 1..3 /\ BasisSize \in Nat
ASSUME LocationsAssumption ==
  Locations \subseteq Int /\ \A a, b \in Locations : a..b \subseteq Locations
\* check_num_points, without the special case of one point and gradients
ASSUME GivenAssumption ==
  \A g \in Given : /\ g.points \in Seq(Locations) /\ g.grads \in Seq(Locations)
                   /\ Len(g.points) >= BasisSize

\* A weight: the kind of its component, a place or number, a dimension, the model.
AnyWeight == {"zero", "value", "grad", "poly"} \X Int \X Int \X (ModelSet \cup {0})
Evaluators ==
  [centers : Seq(Locations), grad_centers : Seq(Locations), model : ModelSet,
   weights : Seq(AnyWeight), bbox : SUBSET Locations]
ASSUME NoneAssumption == None \notin Evaluators

VARIABLES
  inter, \* the fields of the interpolant
  file,  \* what save wrote last
  job,   \* the call under way
  interPc

interVars == <<inter, file, job, interPc>>

Zero == <<"zero", 0, 0, 0>>
\* The component at position k of the weights of these centers.
Own(model, points, grads, k) ==
  LET mu == Len(points)
      sigma == Len(grads)
  IN  IF k <= mu THEN <<"value", points[k], 0, model>>
      ELSE IF k <= mu + GradDim * sigma
        THEN <<"grad", grads[(k - mu - 1) \div GradDim + 1], (k - mu - 1) % GradDim, model>>
      ELSE <<"poly", k - mu - GradDim * sigma, 0, model>>
WeightCount(points, grads) == Len(points) + GradDim * Len(grads) + BasisSize
Fitted(model, points, grads) ==
  [k \in 1..WeightCount(points, grads) |-> Own(model, points, grads, k)]

\* Bbox::from_points, convex_hull: an interval, empty for no point.
Hull(S) == {x \in Locations : \E a, b \in S : a <= x /\ x <= b}
Bbox(points, grads) == Hull(Range(points) \cup Range(grads))

Fields(m, f, points, grads, w) ==
  [model |-> m, fitted |-> f, centers |-> points, grad_centers |-> grads,
   bbox |-> Bbox(points, grads), weights |-> w, evaluator |-> None]
Unfitted(m) == Fields(m, FALSE, <<>>, <<>>, <<>>)
\* clear(): the evaluator is left alone.
Cleared(obj) == [Unfitted(obj.model) EXCEPT !.evaluator = obj.evaluator]

InterpInit ==
  /\ inter \in {Unfitted(m) : m \in ModelSet}
  /\ file = None /\ job = None /\ interPc = "idle"

\* The first of equal points, which unordered_map::emplace keeps.
IndexIn(s, x) == CHOOSE i \in 1..Len(s) : s[i] = x /\ \A j \in 1..(i - 1) : s[j] # x

\* build_initial_weights that looks for the gradients right behind the first center.
InitialWeightsWrongOffset(model, points, grads, ini) ==
  LET mu == Len(points)
      Value(p) == IF p \in Range(ini.centers) THEN ini.weights[IndexIn(ini.centers, p)] ELSE Zero
      Gradient(p, j) ==
        IF p \in Range(ini.grad_centers)
          THEN ini.weights[1 + GradDim * (IndexIn(ini.grad_centers, p) - 1) + j] ELSE Zero
      Poly(j) == ini.weights[Len(ini.weights) - BasisSize + j]
  IN  [k \in 1..WeightCount(points, grads) |->
         IF model # ini.model THEN Zero
         ELSE IF k <= mu THEN Value(points[k])
         ELSE IF k <= mu + GradDim * Len(grads)
           THEN Gradient(grads[(k - mu - 1) \div GradDim + 1], (k - mu - 1) % GradDim)
         ELSE Poly(k - mu - GradDim * Len(grads))]

\* build_initial_weights: the weights of the initial interpolant's centers at the
\* same places, zero for the others.
InitialWeights(model, points, grads, ini) ==
  LET mu == Len(points)
      iniMu == Len(ini.centers)
      Value(p) == IF p \in Range(ini.centers) THEN ini.weights[IndexIn(ini.centers, p)] ELSE Zero
      Gradient(p, j) ==
        IF p \in Range(ini.grad_centers)
          THEN ini.weights[iniMu + GradDim * (IndexIn(ini.grad_centers, p) - 1) + j + 1] ELSE Zero
      Poly(j) == ini.weights[Len(ini.weights) - BasisSize + j]
  IN  [k \in 1..WeightCount(points, grads) |->
         IF model # ini.model THEN Zero
         ELSE IF k <= mu THEN Value(points[k])
         ELSE IF k <= mu + GradDim * Len(grads)
           THEN Gradient(grads[(k - mu - 1) \div GradDim + 1], (k - mu - 1) % GradDim)
         ELSE Poly(k - mu - GradDim * Len(grads))]

ZeroWeights(points, grads) == [k \in 1..WeightCount(points, grads) |-> Zero]
\* What InequalityFitter returns for centers that are too few for the polynomial.
FewWeights == [k \in 1..BasisSize |-> Zero]

\* initial.weights() throws for an interpolant that is not fitted, but is not
\* called when the models differ.
Initials ==
  {None} \cup {ini \in {inter, file} \ {None} : ini.fitted \/ ini.model # inter.model}

Job(how, g, ini) ==
  [how |-> how, points |-> g.points, grads |-> g.grads,
   initial |-> IF ini = None THEN ZeroWeights(g.points, g.grads)
               ELSE InitialWeights(inter.model, g.points, g.grads, ini),
   had |-> IF ini = None THEN {} ELSE Range(ini.weights)]  \* history

\* fit, fit_incrementally and fit_inequality up to the fitter: the initial weights
\* are built before the interpolant is cleared, since it may be the initial one.
BeginFit(how, g) ==
  /\ interPc = "idle"
  /\ how = "inequality" => g.grads = <<>>
  /\ \E ini \in IF how = "incremental" THEN {None} ELSE Initials : job' = Job(how, g, ini)
  /\ inter' = Cleared(inter)
  /\ interPc' = "solving"
  /\ UNCHANGED file

\* points(center_indices, kAll) for the indices that a fitter returns.
Chosen(s, how) ==
  IF how = "fit" THEN {s}
  ELSE {[i \in 1..Len(idx) |-> s[idx[i]]] :
          idx \in UNION {SetToSeqs(I) : I \in SUBSET (1..Len(s))}}

\* The weights that a fitter returns for its centers: zeros if these are too few for
\* the polynomial, and then of the incremental fitter as many as for any centers, of
\* the one with bounds as many as the polynomial has terms.
Returned(how, c, g) ==
  IF Len(c) >= BasisSize THEN Fitted(inter.model, c, g)
  ELSE IF how = "inequality" THEN FewWeights ELSE ZeroWeights(c, g)

\* The fitter returns; fit_inequality has no gradients.
EndFit ==
  /\ interPc = "solving"
  /\ \E c \in Chosen(job.points, job.how),
        g \in IF job.how = "inequality" THEN {<<>>} ELSE Chosen(job.grads, job.how) :
       inter' = [Fields(inter.model, TRUE, c, g, Returned(job.how, c, g))
                   EXCEPT !.evaluator = inter.evaluator]
  /\ job' = None /\ interPc' = "idle"
  /\ UNCHANGED file

\* The fitter throws, and the interpolant is left cleared.
FailFit ==
  /\ interPc = "solving"
  /\ job' = None /\ interPc' = "idle"
  /\ UNCHANGED <<inter, file>>

NewEvaluator(box) ==
  [centers |-> inter.centers, grad_centers |-> inter.grad_centers, model |-> inter.model,
   weights |-> inter.weights, bbox |-> Hull(box \cup inter.bbox)]

\* set_evaluation_bbox_impl that keeps an evaluator whose box is large enough.
BeginEvaluateKept(box) ==
  /\ interPc = "idle" /\ inter.fitted
  /\ inter' = IF inter.evaluator = None THEN [inter EXCEPT !.evaluator = NewEvaluator(box)]
              ELSE IF box \subseteq inter.evaluator.bbox THEN inter
              ELSE [inter EXCEPT !.evaluator = NewEvaluator(box)]
  /\ job' = [box |-> box] /\ interPc' = "evaluating"
  /\ UNCHANGED file

\* set_evaluation_bbox_impl, called by evaluate for its points, and by an
\* isosurface for the box of its field function.
BeginEvaluate(box) ==
  /\ interPc = "idle" /\ inter.fitted
  /\ inter' = [inter EXCEPT !.evaluator = NewEvaluator(box)]
  /\ job' = [box |-> box] /\ interPc' = "evaluating"
  /\ UNCHANGED file

\* evaluate_impl has been called, by the isosurface as often as it does.
EndEvaluate ==
  /\ interPc = "evaluating"
  /\ job' = None /\ interPc' = "idle"
  /\ UNCHANGED <<inter, file>>

\* Write: all fields but the evaluator.
Save ==
  /\ interPc = "idle"
  /\ file' = [inter EXCEPT !.evaluator = None]
  /\ UNCHANGED <<inter, job, interPc>>

\* Read: a new interpolant.
Load ==
  /\ interPc = "idle" /\ file # None
  /\ inter' = file
  /\ UNCHANGED <<file, job, interPc>>

New(m) ==
  /\ interPc = "idle"
  /\ inter' = Unfitted(m)
  /\ UNCHANGED <<file, job, interPc>>

Hows == {"fit", "incremental", "inequality"}
InterpNext ==
  \/ \E how \in Hows, g \in Given : BeginFit(how, g)
  \/ EndFit \/ FailFit
  \/ \E a, b \in Locations : BeginEvaluate(a..b)
  \/ EndEvaluate \/ Save \/ Load
  \/ \E m \in ModelSet : New(m)

InterpSpec == InterpInit /\ [][InterpNext]_interVars

-----------------------------------------------------------------------------
\* The centers of a fit with bounds that are too few to be fitted.
FewCenters(obj) == Len(obj.centers) < BasisSize /\ obj.grad_centers = <<>>

\* The type of every variable; an interpolant has as many weights as its centers
\* and its polynomial ask for, but only those of the polynomial if a fit with bounds
\* ended with too few centers, and none before it is fitted.
InterpTypeOK ==
  /\ inter.model \in ModelSet /\ inter.fitted \in BOOLEAN
  /\ inter.centers \in Seq(Locations) /\ inter.grad_centers \in Seq(Locations)
  /\ IF inter.fitted
       THEN \/ Len(inter.weights) = WeightCount(inter.centers, inter.grad_centers)
            \/ FewCenters(inter) /\ Len(inter.weights) = BasisSize
       ELSE inter.weights = <<>>
  /\ inter.evaluator # None => inter.evaluator.bbox \subseteq Locations
  /\ file # None => file.evaluator = None
  /\ interPc \in {"idle", "solving", "evaluating"}

\* Every weight that a fit starts from was computed for the component it stands
\* at, of the same model, whatever the initial interpolant was fitted to and how,
\* and no weight that the initial interpolant has for a component is lost, not even
\* when it is the one that is fitted and cleared.
InitialWeightsPlaced ==
  interPc = "solving" =>
    \A k \in 1..Len(job.initial) :
      LET own == Own(inter.model, job.points, job.grads, k) IN
      job.initial[k] = IF own \in job.had THEN own ELSE Zero

\* Points are evaluated with the centers and weights of the last fit, inside the
\* box of the evaluator, however many fits, failures and loads came before.
EvaluationCurrent ==
  interPc = "evaluating" =>
    LET e == inter.evaluator IN
    /\ e # None
    /\ <<e.centers, e.grad_centers, e.model, e.weights>>
         = <<inter.centers, inter.grad_centers, inter.model, inter.weights>>
    /\ job.box \cup inter.bbox \subseteq e.bbox

\* Every weight that a fit starts from was computed for the component it stands at, and
\* none that the initial interpolant has is lost.  Points are evaluated with the centers
\* and weights of the last fit.
InterpolantCurrent == InitialWeightsPlaced /\ EvaluationCurrent
=============================================================================
