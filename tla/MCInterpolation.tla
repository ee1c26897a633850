--------------------------- MODULE MCInterpolation ---------------------------
(***************************************************************************)
(* From points to an interpolant, each part for itself: normals, points    *)
(* with offsets and variograms of a point cloud; models fitted to these,   *)
(* described and cross validated; the interpolant, its two adaptive        *)
(* fitters and the solver they call.  Those that are not under check stay  *)
(* in an initial state.  The modules share no state in the code either:    *)
(* each takes what the one before it returns.                              *)
(***************************************************************************)
EXTENDS Interpolant, Solver, IncrementalFitter, VariogramCalculator, SdfDataGenerator,
        CrossValidation, TLC

CONSTANTS m, n, t1, t2

VARIABLE part

fitVars == <<interVars, boundVars, incVars, solverVars>>
dataVars == <<normalVars, sdfVars, varioVars>>
modelVars == <<fittingVars, descriptionVars, cvVars>>
allVars == <<part, fitVars, dataVars, modelVars>>

\* Who is near whom on a line, at half the distance after half.
NearOf(pos, S, halves) ==
  [h \in 0..halves |-> [i \in S |-> {j \in S : (pos[i] - pos[j]) * (2^h) \in -8..8}]]

\* Lists of two points, enough for the two terms of the polynomial; a fitter may return
\* one of them, or none.
GivenPoints ==
  {[points |-> <<2, 1>>, grads |-> <<2>>], [points |-> <<1, 2>>, grads |-> <<>>],
   [points |-> <<1, 1>>, grads |-> <<>>]}

\* Five points on a line: one with a value, three with bounds, one with neither.
MCBoundNear == NearOf(0 :> 0 @@ 1 :> 1 @@ 2 :> 2 @@ 3 :> 6 @@ 4 :> 8, 0..4, 3)
MCLb == 1 :> 1 @@ 2 :> 1
MCUb == 2 :> 1 @@ 3 :> -1
MCFitValues == {-1, 0, 2}

\* Four points and two gradients, on a line.
MCIncNear == NearOf(0 :> 0 @@ 1 :> 1 @@ 2 :> 3 @@ 3 :> 8, 0..3, 4)
MCIncGradNear == NearOf(0 :> 2 @@ 1 :> 4, 0..1, 4)

SomeSizes ==
  {[value |-> 1, grad |-> 0], [value |-> 2, grad |-> 1], [value |-> 3, grad |-> 0]}

\* A band of five points that comes back with the other side up, so that not all
\* neighbors can agree; three points and two that see them but are not seen; and two.
Sym(a) == [i \in DOMAIN a |-> [j \in DOMAIN a |-> IF i < j THEN a[i][j] ELSE IF j < i THEN a[j][i] ELSE 0]]
Band ==
  [knn |-> <<{2, 5}, {1, 3}, {2, 4}, {3, 5}, {1, 4}>>,
   axes |-> Sym(<<<<1, 1, 0, 0, -1>>, <<0, 1, -1, 0, 0>>, <<0, 0, 1, 1, 0>>, <<0, 0, 0, 1, -1>>, <<0, 0, 0, 0, 1>>>>),
   weight |-> Sym(<<<<9, 4, 0, 0, 1>>, <<0, 9, 2, 0, 0>>, <<0, 0, 9, 4, 0>>, <<0, 0, 0, 9, 3>>, <<0, 0, 0, 0, 9>>>>),
   height |-> <<1, 3, 2, 3, 0>>, up |-> <<1, -1, 0, 1, 1>>, views |-> {<<1, -1, 0, 1, 1>>, <<-1, 1, 1, 1, -1>>},
   within |-> [i \in 1..5 |-> IF i = 5 THEN <<1, 2>> ELSE <<2 + i \div 2, 5>>]]
Parts ==
  [knn |-> <<{1, 2, 3}, {1, 2, 3}, {1, 2, 3}, {3, 4, 5}, {3, 4, 5}>>,
   axes |-> Sym([i \in 1..5 |-> [j \in 1..5 |-> IF j = 3 THEN -1 ELSE 1]]),
   weight |-> Sym([i \in 1..5 |-> [j \in 1..5 |-> IF i = 4 THEN 3 ELSE i]]),
   height |-> <<0, 0, 1, 5, 5>>, up |-> <<1, -1, 1, -1, 1>>, views |-> {<<1, 1, 1, -1, -1>>},
   within |-> [i \in 1..5 |-> <<3, 3>>]]
Two ==
  [knn |-> <<{1, 2}, {1, 2}>>, axes |-> <<<<0, 1>>, <<1, 0>>>>, weight |-> <<<<0, 1>>, <<1, 0>>>>,
   height |-> <<1, 0>>, up |-> <<1, 1>>, views |-> {<<-1, 1>>}, within |-> [i \in 1..2 |-> <<1, 2>>]]
MCSurfaces == {Band, Parts, Two}

\* Three points, the third without a normal: on one side others are nearer than the
\* offset, a second one only after the first.
MCClouds ==
  {[normal |-> <<TRUE, TRUE, third>>, spacing |-> <<800, 700, 500>>,
    reach |-> [s \in {-1, 1} |->
      IF s = 1 THEN <<<<1000, 400, 300>>, <<600, 1000, 1000>>, <<200, 500, 1000>>>>
      ELSE <<<<1000, 1000, 1000>>, <<300, 1000, 297>>, <<1000, 400, 1000>>>>]] : third \in BOOLEAN}

\* Four points in two directions, pairs in one of them or in both, some at a distance
\* between two bins or beyond the last.
MCSamples ==
  {[size |-> 4, directions |-> 2,
    distance |-> <<<<0, 1, 2, 3>>, <<0, 0, 4, 5>>, <<0, 0, 0, 9>>, <<0, 0, 0, 0>>>>,
    along |-> [i \in 1..4 |-> [j \in 1..4 |->
                IF both THEN {1, 2} ELSE IF j = 4 THEN {2} ELSE {1}]]] : both \in BOOLEAN}
  \cup {[size |-> 0, directions |-> 1, distance |-> <<>>, along |-> <<>>]}

\* Models that are fitted: in one dimension, two and three, with enough variograms for an
\* anisotropy and without, from a range of zero, with a range beside zero, and from
\* parameters out of their bounds.
CovRbfs(dim, ranges) == [i \in DOMAIN ranges |-> make_rbf("cov", dim, <<1, ranges[i]>>)]
FitJob(dim, variograms, asked, rbfs, tries) ==
  [dim |-> dim, variograms |-> variograms, asked |-> asked,
   model |-> Model(rbfs, kMinRequiredPolyDegree), tries |-> tries]
Go(params, inv_major, inv_minor) ==
  [params |-> params, rot |-> 20, inv_major |-> inv_major, inv_minor |-> inv_minor]
BesideFew(p, names) ==
  p @@ [beside |-> {c \in Coordinates(p) : c[1] \in names /\ c[2] = 1}]
BesideAll(p) == p @@ [beside |-> Coordinates(p)]
Jobs ==
  {BesideAll(FitJob(1, 1, TRUE, CovRbfs(1, <<1>>), {Go(<<1, 2, 2>>, <<0>>, <<0>>)})),
   BesideAll(FitJob(1, 2, TRUE, CovRbfs(1, <<2>>), {Go(<<1, 2, 0>>, <<0>>, <<0>>)})),
   BesideAll(FitJob(2, 2, TRUE, CovRbfs(2, <<2, 1>>), {Go(<<1, 2, 2, 3, 2>>, <<0, 0>>, <<1, 2>>)})),
   BesideFew(FitJob(2, 2, TRUE, CovRbfs(2, <<2, 2>>), {Go(<<1, 2, 2, 3, 2>>, <<0, 0>>, <<1, 2>>)}),
       {"params", "rot", "inv_minor"}),
   BesideFew(FitJob(3, 3, TRUE, CovRbfs(3, <<2>>), {Go(<<0, 2, 2>>, <<-2>>, <<1>>)}),
       {"inv_major", "inv_minor"}),
   BesideFew(FitJob(3, 3, FALSE, CovRbfs(3, <<2>>), {}), {"params"}),
   BesideAll(FitJob(2, 2, TRUE, CovRbfs(2, <<-1>>), {Go(<<1, 2, 2>>, <<0>>, <<1>>)})),
   BesideAll(FitJob(3, 1, TRUE, <<make_rbf("bh3", 3, <<>>)>>, {}))}

\* All ways to put four points into up to three sets; two points are needed for a fit.
MCSetIds == [1..4 -> {3, 5, 8}]

MCInit ==
  /\ part \in {"interpolant", "bounds", "incremental", "solver", "normals", "sdf", "variogram",
               "fitting", "description", "validation"}
  /\ InterpInit /\ (part # "interpolant" => inter.model = m)
  /\ BoundInit /\ (part # "bounds" => \A i \in DOMAIN weight : weight[i] = 0)
  /\ IncInit
  /\ SolverInit /\ (part # "solver" => size.value = 1)
  /\ NormalInit /\ (part # "normals" => surface = Two)
  /\ SdfInit /\ (part # "sdf" => offset = 0 /\ cloud.normal[3])
  /\ VarioInit /\ (part # "variogram" => sample.size = 0)
  /\ FittingInit /\ (part # "fitting" => fit.dim = 1 /\ fit.variograms = 1)
  /\ DescriptionInit /\ (part # "description" => axes = [dim |-> 2, euler |-> <<0, 0, 0>>])
  /\ CrossInit /\ (part # "validation" => set_ids = <<3, 3, 3, 3>>)

\* A step of a call that nothing interrupts.
BoundsStep == part = "bounds" /\ BoundNext /\ UNCHANGED <<part, interVars, incVars, solverVars, dataVars, modelVars>>
IncStep == part = "incremental" /\ IncNext /\ UNCHANGED <<part, interVars, boundVars, solverVars, dataVars, modelVars>>
SolverStep == part = "solver" /\ SolverNext /\ UNCHANGED <<part, interVars, boundVars, incVars, dataVars, modelVars>>
NormalsStep == part = "normals" /\ NormalNext /\ UNCHANGED <<part, fitVars, modelVars, sdfVars, varioVars>>
SdfStep == part = "sdf" /\ SdfNext /\ UNCHANGED <<part, fitVars, modelVars, normalVars, varioVars>>
VarioStep == part = "variogram" /\ VarioNext /\ UNCHANGED <<part, fitVars, modelVars, normalVars, sdfVars>>
FittingStep == part = "fitting" /\ FittingNext /\ UNCHANGED <<part, fitVars, dataVars, descriptionVars, cvVars>>
CrossStep == part = "validation" /\ CrossNext /\ UNCHANGED <<part, fitVars, dataVars, fittingVars, descriptionVars>>
AnglesStep == part = "description" /\ DescriptionNext /\ UNCHANGED <<part, fitVars, dataVars, fittingVars, cvVars>>

MCNext ==
  \/ part = "interpolant" /\ InterpNext /\ UNCHANGED <<part, boundVars, incVars, solverVars, dataVars, modelVars>>
  \/ BoundsStep \/ IncStep \/ SolverStep
  \/ NormalsStep \/ SdfStep \/ VarioStep
  \/ FittingStep \/ AnglesStep \/ CrossStep
MCSpec == MCInit /\ [][MCNext]_allVars
MCFairSpec ==
  MCSpec /\ WF_allVars(BoundsStep) /\ WF_allVars(IncStep)
       /\ WF_allVars(solverPc # "idle" /\ SolverStep)
       /\ WF_allVars(normalPc # "idle" /\ NormalsStep)
       /\ WF_allVars(SdfStep) /\ WF_allVars(VarioStep)
       /\ WF_allVars(FittingStep) /\ WF_allVars(CrossStep)

-----------------------------------------------------------------------------
\* The types of all variables.
MCTypeOK ==
  /\ InterpTypeOK /\ BoundTypeOK /\ IncTypeOK /\ SolverTypeOK
  /\ NormalTypeOK /\ SdfTypeOK /\ VarioTypeOK
  /\ FittingTypeOK /\ DescriptionTypeOK /\ CrossTypeOK

\* A call of a fitter or of solve ends, with a result or an exception; so do the
\* orientation of normals, the shrinking of offsets, the count of pairs, the fit to
\* variograms and the cross validation.
CallsEnd ==
  /\ part = "bounds" => BoundTerminates
  /\ part = "incremental" => IncTerminates
  /\ SolveEnds
  /\ NormalTerminates
  /\ part = "sdf" => SdfTerminates
  /\ part = "variogram" => VarioTerminates
  /\ part = "fitting" => FittingTerminates
  /\ part = "validation" => CrossTerminates
==============================================================================
