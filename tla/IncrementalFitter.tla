------------------------ MODULE IncrementalFitter ------------------------
(***************************************************************************)
(* interpolation/incremental_fitter.hpp: starting from no center, the      *)
(* points and gradients that the fit misses by the tolerance or more are   *)
(* made centers, thinned out at a distance that is halved every turn.      *)
(*                                                                         *)
(* The residuals of a fit are arbitrary.  An entry of the weights is the   *)
(* component that it was computed for.                                     *)
(***************************************************************************)
EXTENDS InequalityFitter

CONSTANTS
  Dim,         \* kDim
  MuFull,      \* mu_full_; points are 0..MuFull-1
  SigmaFull,   \* sigma_full_
  Terms,       \* l_
  Linear,      \* poly_degree() == 1
  IncNear,     \* IncNear[h]: which points are near each other after h halvings
  IncGradNear, \* the same of the points with gradients
  IncHalvings  \* how often the distance may be halved before it is too small

PointIndex == 0..(MuFull - 1)
GradIndex == 0..(SigmaFull - 1)
NearRelations(near, S) ==
  \A h \in 0..IncHalvings : \A i, j \in S :
    /\ i \in near[h][i]
    /\ i \in near[h][j] <=> j \in near[h][i]
    /\ h > 0 => near[h][i] \subseteq near[h - 1][i]

ASSUME SizesAssumption ==
  /\ Dim \in 1..3 /\ MuFull \in Nat /\ SigmaFull \in Nat /\ Terms \in Nat /\ IncHalvings \in Nat
  /\ Linear \in BOOLEAN /\ (Linear => Terms = Dim + 1)
ASSUME IncNearAssumption == NearRelations(IncNear, PointIndex) /\ NearRelations(IncGradNear, GradIndex)
\* Interpolant::check_num_points
ASSUME NumPointsAssumption == MuFull >= Terms \/ (Linear /\ MuFull = 1 /\ SigmaFull >= 1)

VARIABLES
  pointCenters, grad_centers,
  weights,   \* without the polynomial part
  halvings,  \* how often filtering_distance was halved
  incPc

incVars == <<pointCenters, grad_centers, weights, halvings, incPc>>

ZeroWeight == <<"zero", 0, 0>>
Value(i) == <<"value", i, 0>>
Component(i, j) == <<"grad", i, j>>

Mu == Len(pointCenters)
Sigma == Len(grad_centers)
\* The component at position k of the weights of these centers.
OwnComponent(k) ==
  IF k <= Mu THEN Value(pointCenters[k])
  ELSE Component(grad_centers[(k - Mu - 1) \div Dim + 1], (k - Mu - 1) % Dim)

IncInit ==
  /\ pointCenters = IF Linear /\ MuFull = 1 /\ SigmaFull >= 1 THEN <<0>> ELSE <<>>
  /\ grad_centers = <<>>
  /\ weights = [k \in 1..Len(pointCenters) |-> ZeroWeight]
  /\ halvings = 0
  /\ incPc = "fit"

Enough == Mu >= Terms \/ (Linear /\ Mu = 1 /\ Sigma >= 1)

\* The centers are fitted if they are enough for the polynomial.
FitCenters ==
  /\ incPc = "fit"
  /\ weights' = IF Enough THEN [k \in 1..(Mu + Dim * Sigma) |-> OwnComponent(k)] ELSE weights
  /\ incPc' = IF Mu = MuFull /\ Sigma = SigmaFull THEN "done" ELSE "select"
  /\ UNCHANGED <<pointCenters, grad_centers, halvings>>

\* Solver::solve reaches the maximum number of iterations.
IncSolverThrows ==
  /\ incPc = "fit" /\ Enough
  /\ incPc' = "thrown"
  /\ UNCHANGED <<pointCenters, grad_centers, weights, halvings>>

\* The entries of s that are in S, in their order.
Kept(s, S) ==
  LET some[k \in 0..Len(s)] ==
        IF k = 0 THEN <<>>
        ELSE IF s[k] \in S THEN Append(some[k - 1], s[k]) ELSE some[k - 1]
  IN  some[Len(s)]

\* The points of order, by falling residuals, of which the first need are missed.
AddedUnfiltered(old, order, need, near) ==
  Kept(SubSeq(order, 1, need), Filtered(order, near))

\* The points when one that is a center already is offered again.
AddedAgain(old, order, need, near) ==
  Kept(old \o SubSeq(order, 1, need), Filtered(old \o order, near))

\* The points that become centers: those that are missed and that the filter
\* keeps, which sees the centers first and then all the remaining points.
Added(old, order, need, near) ==
  Kept(SubSeq(order, 1, need), Filtered(old \o order, near))

\* The weights when the last ones are kept in their places.
CarriedInPlace(mu, sigma) ==
  [k \in 1..(mu + Dim * sigma) |-> IF k <= Mu + Dim * Sigma THEN weights[k] ELSE ZeroWeight]

\* The weights of mu centers and sigma with gradients, as the last ones, zero for the new.
Carried(mu, sigma) ==
  [k \in 1..(mu + Dim * sigma) |->
     IF k <= Mu THEN weights[k]
     ELSE IF k \in (mu + 1)..(mu + Dim * Sigma) THEN weights[k - mu + Mu]
     ELSE ZeroWeight]

\* The residuals of the remaining points are evaluated and sorted; none may be
\* missed, or some become centers.
SelectCenters ==
  /\ incPc = "select"
  /\ \E order \in SetToSeqs(PointIndex \ Range(pointCenters)),
        grad_order \in SetToSeqs(GradIndex \ Range(grad_centers)) :
     \E need \in 0..Len(order), grad_need \in 0..Len(grad_order) :
       IF need = 0 /\ grad_need = 0
         THEN incPc' = "done" /\ UNCHANGED <<pointCenters, grad_centers, weights, halvings>>
         ELSE /\ halvings <= IncHalvings
              /\ LET new == Added(pointCenters, order, need, IncNear[halvings])
                     grad_new == Added(grad_centers, grad_order, grad_need, IncGradNear[halvings])
                 IN  /\ pointCenters' = pointCenters \o new
                     /\ grad_centers' = grad_centers \o grad_new
                     /\ weights' = Carried(Mu + Len(new), Sigma + Len(grad_new))
              /\ halvings' = halvings + 1
              /\ incPc' = "fit"

\* DistanceFilter::filter: the distance must be larger than kMinDistance.
IncThrow ==
  /\ incPc = "select" /\ halvings > IncHalvings
  /\ incPc' = "thrown"
  /\ UNCHANGED <<pointCenters, grad_centers, weights, halvings>>

IncNext == FitCenters \/ SelectCenters \/ IncThrow \/ IncSolverThrows

IncSpec == IncInit /\ [][IncNext]_incVars

-----------------------------------------------------------------------------
\* The type of every variable; no center is taken twice, and the weights are as
\* many as the centers.
IncTypeOK ==
  /\ pointCenters \in Seq(PointIndex) /\ IsInjective(pointCenters)
  /\ grad_centers \in Seq(GradIndex) /\ IsInjective(grad_centers)
  /\ Len(weights) = Mu + Dim * Sigma
  /\ halvings \in 0..(IncHalvings + 1)
  /\ incPc \in {"fit", "select", "done", "thrown"}

\* However many centers are added in front of the weights of the gradients, each
\* weight that a fit starts from is that of its own component.
WeightsCarried == \A k \in 1..Len(weights) : weights[k] \in {ZeroWeight, OwnComponent(k)}

\* Centers keep the distance of the turn that added them to all earlier ones, of
\* all turns, and so the distance of the last turn from each other.
CentersApart ==
  halvings > 0 =>
    /\ \A i, j \in Range(pointCenters) : i # j => i \notin IncNear[halvings - 1][j]
    /\ \A i, j \in Range(grad_centers) : i # j => i \notin IncGradNear[halvings - 1][j]

\* The call ends, if only when the distance is too small.
IncTerminates == <>(incPc \in {"done", "thrown"})

\* What the inequality fitter returns satisfies all bounds and rests on bounds that push
\* the fit back inside.  Centers that the incremental fitter adds keep away from all
\* earlier ones, and weights stay with their components from fit to fit.
AdaptiveFits == BoundsMet /\ CentersApart /\ WeightsCarried

\* test_incremental_fitter.cpp:59: the fit meets the tolerance at all points, the
\* centers among them, for which it must have been computed.
WithinTolerance == incPc = "done" => \A k \in 1..Len(weights) : weights[k] = OwnComponent(k)
=============================================================================
