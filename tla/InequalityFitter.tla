------------------------- MODULE InequalityFitter -------------------------
(***************************************************************************)
(* interpolation/inequality_fitter.hpp: points with given values are       *)
(* interpolated; points with bounds become centers while their bound is    *)
(* active.  The active set is updated after every fit.                     *)
(*                                                                         *)
(* What a fit makes of the points that are no centers, and the signs of    *)
(* the weights, are arbitrary.  The tolerance is zero, and a fit hits the  *)
(* values of its centers.                                                  *)
(***************************************************************************)
EXTENDS Integers, FiniteSets, FiniteSetsExt, SequencesExt, DistanceFilter

CONSTANTS
  NPoints,       \* n_points_; points are 0..NPoints-1
  NPoly,         \* n_poly_basis_
  Eq,            \* eq_idcs: the points with a value
  Lb, Ub,        \* values_lb, values_ub of the points that have one
  FitValues,     \* the values that a fit may take
  BoundNear,     \* BoundNear[h]: who is near to whom after h halvings of the distance
  BoundHalvings  \* how often the distance may be halved before it is too small

Index == 0..(NPoints - 1)
Ineq == DOMAIN Lb \cup DOMAIN Ub

ASSUME CountsAssumption == NPoints \in Nat /\ NPoly \in Nat /\ BoundHalvings \in Nat
ASSUME ConstraintsAssumption ==
  /\ Eq \subseteq Index /\ Ineq \subseteq Index \ Eq
  /\ \A i \in DOMAIN Lb : Lb[i] \in Int
  /\ \A i \in DOMAIN Ub : Ub[i] \in Int
  /\ \A i \in DOMAIN Lb \cap DOMAIN Ub : Lb[i] <= Ub[i]
  /\ 0 \in FitValues /\ FitValues \subseteq Int
ASSUME BoundNearAssumption ==
  \A h \in 0..BoundHalvings : \A i, j \in Index :
    /\ i \in BoundNear[h][i]
    /\ i \in BoundNear[h][j] <=> j \in BoundNear[h][i]

VARIABLES
  active_lb, active_ub,  \* the active sets
  centers,      \* the centers of this turn
  n_weights,    \* the size of center_weights
  weight,       \* the sign of the weight of each point with bounds
  values_fit,   \* the value of the fit at each point with bounds
  halved,       \* how often filtering_distance was halved
  boundPc

boundVars == <<active_lb, active_ub, centers, n_weights, weight, values_fit, halved, boundPc>>

IneqIdcs == SetToSortSeq(Ineq, <)

BoundInit ==
  /\ active_lb = {} /\ active_ub = {}
  /\ centers = {} /\ n_weights = 0
  /\ weight \in {[i \in Ineq |-> 0], [i \in Ineq |-> -1]}   \* zero, or initial weights
  /\ values_fit = [i \in Ineq |-> 0]
  /\ halved = 0
  /\ boundPc = "fit"

CenterValue(i) == IF i \in active_lb THEN Lb[i] ELSE Ub[i]

\* The centers are fitted if they are enough for the polynomial.
FitActive ==
  /\ boundPc = "fit"
  /\ LET C == Eq \cup active_lb \cup active_ub IN
       /\ centers' = C
       /\ IF Cardinality(C) >= NPoly
            THEN /\ n_weights' = Cardinality(C) + NPoly
                 /\ \E s \in [C \ Eq -> -1..1] :
                      weight' = [i \in Ineq |-> IF i \in C THEN s[i] ELSE weight[i]]
                 /\ \E v \in [Ineq \ C -> FitValues] :
                      values_fit' = [i \in Ineq |-> IF i \in C THEN CenterValue(i) ELSE v[i]]
            ELSE /\ n_weights' = NPoly
                 /\ values_fit' = [i \in Ineq |-> 0]
                 /\ UNCHANGED weight
  /\ boundPc' = "update"
  /\ UNCHANGED <<active_lb, active_ub, halved>>

\* By how much a value is outside the bounds of a point.
Excess(i, v) == Max({0} \cup (IF i \in DOMAIN Lb THEN {Lb[i] - v} ELSE {})
                        \cup (IF i \in DOMAIN Ub THEN {v - Ub[i]} ELSE {}))

\* The residual of a remaining point.  It is computed from values_fit(i), where i
\* counts the remaining points and values_fit the points with bounds; beyond the
\* last of these it is whatever is read.
Position(p, S) == Cardinality({q \in S : q < p}) + 1
Residual(p, read) ==
  LET i == Position(p, Index \ centers)
  IN  Excess(p, IF i <= Len(IneqIdcs) THEN values_fit[IneqIdcs[i]] ELSE read)

\* The orders in which the remaining points may be sorted by falling residuals.
Sortings ==
  {order \in SetToSeqs(Index \ centers) :
     \E read \in FitValues :
       \A k \in 2..Len(order) : Residual(order[k - 1], read) >= Residual(order[k], read)}

Below == {i \in DOMAIN Lb \ active_lb : values_fit[i] < Lb[i]}

Above == {i \in DOMAIN Ub \ active_ub : values_fit[i] > Ub[i]}

\* The active points that hold the fit back from the side their bound allows.
LbOut == {i \in active_lb : weight[i] <= 0}
UbOut == {i \in active_ub : weight[i] >= 0}

\* The update when active_set_changed is set only for points that are inserted.
UpdateInserted ==
  /\ boundPc = "update" /\ halved <= BoundHalvings
  /\ \E order \in Sortings :
       LET kept == Filtered(order, BoundNear[halved])
           lb == Below \cap kept
           ub == Above \cap kept
       IN  /\ active_lb' = (active_lb \ LbOut) \cup lb
           /\ active_ub' = (active_ub \ UbOut) \cup ub
           /\ weight' = [i \in Ineq |-> IF i \in lb \cup ub THEN 0 ELSE weight[i]]
           /\ IF lb \cup ub \cup LbOut \cup UbOut = {}
                THEN boundPc' = "done" /\ UNCHANGED halved
                ELSE boundPc' = "fit" /\ halved' = halved + 1
  /\ UNCHANGED <<centers, n_weights, values_fit>>

\* The remaining points are sorted and filtered, and the active set is updated;
\* a violated bound of a point that was filtered out asks for another turn too.
Update ==
  /\ boundPc = "update" /\ halved <= BoundHalvings
  /\ \E order \in Sortings :
       LET kept == Filtered(order, BoundNear[halved])
           lb == Below \cap kept
           ub == Above \cap kept
       IN  /\ active_lb' = (active_lb \ LbOut) \cup lb
           /\ active_ub' = (active_ub \ UbOut) \cup ub
           /\ weight' = [i \in Ineq |-> IF i \in lb \cup ub THEN 0 ELSE weight[i]]
           /\ IF Below \cup Above \cup LbOut \cup UbOut = {}
                THEN boundPc' = "done" /\ UNCHANGED halved
                ELSE boundPc' = "fit" /\ halved' = halved + 1
  /\ UNCHANGED <<centers, n_weights, values_fit>>

\* DistanceFilter::filter: the distance must be larger than kMinDistance.
BoundThrow ==
  /\ boundPc = "update" /\ halved > BoundHalvings
  /\ boundPc' = "thrown"
  /\ UNCHANGED <<active_lb, active_ub, centers, n_weights, weight, values_fit, halved>>

\* Solver::solve reaches the maximum number of iterations.
BoundSolverThrows ==
  /\ boundPc = "fit" /\ Cardinality(Eq \cup active_lb \cup active_ub) >= NPoly
  /\ boundPc' = "thrown"
  /\ UNCHANGED <<active_lb, active_ub, centers, n_weights, weight, values_fit, halved>>

BoundNext == FitActive \/ Update \/ BoundThrow \/ BoundSolverThrows

BoundSpec == BoundInit /\ [][BoundNext]_boundVars

-----------------------------------------------------------------------------
\* The type of every variable.
BoundTypeOK ==
  /\ active_lb \subseteq DOMAIN Lb /\ active_ub \subseteq DOMAIN Ub
  /\ centers \subseteq Index /\ n_weights \in Nat
  /\ weight \in [Ineq -> -1..1]
  /\ values_fit \in [Ineq -> Int]
  /\ halved \in 0..(BoundHalvings + 1)
  /\ boundPc \in {"fit", "update", "done", "thrown"}

\* What is returned satisfies all bounds, and rests only on active bounds that
\* push the fit back inside, though bounds are taken up a few at a time.  Centers
\* that are too few for the polynomial are not fitted: then nothing is promised.
BoundsMet ==
  boundPc = "done" /\ Cardinality(centers) >= NPoly =>
    /\ n_weights = Cardinality(centers) + NPoly
    /\ centers = Eq \cup active_lb \cup active_ub
    /\ \A i \in Ineq : Excess(i, values_fit[i]) = 0
    /\ \A i \in active_lb : weight[i] > 0
    /\ \A i \in active_ub : weight[i] < 0

\* The call ends, at the latest when the distance is too small: nothing else
\* stops an active set that comes and goes.
BoundTerminates == <>(boundPc \in {"done", "thrown"})

Violating == (Below \cup Above) \ centers
\* inequality_fitter.hpp:119 "Incorporate inactive inequality points with large
\* residuals": of the points outside their bounds, one that is farthest out.
LargestIncorporated ==
  [][boundPc = "update" /\ boundPc' = "fit" /\ Violating # {} =>
       \E i \in Violating :
         /\ \A j \in Violating : Excess(i, values_fit[i]) >= Excess(j, values_fit[j])
         /\ i \in active_lb' \cup active_ub']_boundVars
=============================================================================
