---------------------------- MODULE CoarsePoints ----------------------------
(***************************************************************************)
(* DomainDivider::choose_coarse_points: the points of the next coarser     *)
(* level.  The points of a level that do not fix the polynomial are split  *)
(* into clusters, the lowest level and then the widest first, until the    *)
(* centers of the clusters are enough.                                     *)
(*                                                                         *)
(* The coordinates are abstracted: any order of the points may be the one  *)
(* along the longest axis, any point the nearest to the middle, any        *)
(* cluster of the lowest level the widest.  Levels are counted from the    *)
(* lowest one in the queue, as only their comparison matters.              *)
(***************************************************************************)
EXTENDS Integers, FiniteSets, FiniteSetsExt

CONSTANTS
  GradMult,     \* kDim: a point with a gradient counts for as many
  CoarseSet,    \* point_idcs_ and grad_point_idcs_, told apart by a flag
  CoarsePoly,   \* the members of CoarseSet in poly_point_idcs_
  CoarseOrders, \* the orders in which the points can be sorted
  Wanted        \* the values of n_coarse_points

ASSUME GradMultAssumption == GradMult \in 1..3
ASSUME CoarseSetAssumption ==
  /\ IsFiniteSet(CoarseSet) /\ \A p \in CoarseSet : p.grad \in BOOLEAN
  /\ \A p \in CoarsePoly : p \in CoarseSet /\ ~p.grad
  /\ CoarsePoly # CoarseSet
ASSUME CoarseOrdersAssumption ==
  \A o \in CoarseOrders : \A p, q \in CoarseSet : o[p] \in Int /\ (o[p] = o[q] => p = q)
ASSUME WantedAssumption == Wanted \subseteq Nat

VARIABLES
  wanted,    \* n_coarse_points
  clusters,  \* the priority queue: [level, points, center]
  size,      \* current_size
  chosen,    \* the points returned
  coarsePc

coarseVars == <<wanted, clusters, size, chosen, coarsePc>>

\* MixedPoint::multiplicity, of a point and of a set of points
Multiplicity(p) == IF p.grad THEN GradMult ELSE 1
SizeOf(S) == Cardinality({p \in S : ~p.grad}) + GradMult * Cardinality({p \in S : p.grad})

\* The points of the root when the polynomial ones are not left out.
AllPoints == CoarseSet
RootPoints == CoarseSet \ CoarsePoly

Cluster(S, level, c) == [level |-> level, points |-> S, center |-> c]
\* The level of clusters.top().
Lowest(queue) == Min({c.level : c \in queue})
FromLowest(queue) == {[c EXCEPT !.level = c.level - Lowest(queue)] : c \in queue}

CoarseInit ==
  /\ wanted \in Wanted
  /\ \E c \in RootPoints :
       clusters = {Cluster(RootPoints, 0, c)} /\ size = Multiplicity(c)
  /\ chosen = {}
  /\ coarsePc = "split"

\* prefix_sum_mult at the position of p
Before(S, order, p) == SizeOf({q \in S : order[q] < order[p]})
Position(S, order, p) == Cardinality({q \in S : order[q] < order[p]})
\* The distance of the prefix sum from half of the whole, doubled.
Distance(S, order, p) ==
  LET d == 2 * Before(S, order, p) - SizeOf(S) IN IF d < 0 THEN -d ELSE d

\* std::max_element for std::min_element.
MidPointFarthest(S, order) ==
  CHOOSE p \in S : \A q \in S : \/ Distance(S, order, p) > Distance(S, order, q)
                                \/ Distance(S, order, p) = Distance(S, order, q)
                                     /\ order[p] <= order[q]

\* The first point of the right half: where the prefix sum is nearest to half of
\* the whole; of two such points the one in an even position.
MidPoint(S, order) ==
  CHOOSE p \in S :
    \A q \in S : \/ Distance(S, order, p) < Distance(S, order, q)
                 \/ Distance(S, order, p) = Distance(S, order, q)
                      /\ (p = q \/ Position(S, order, p) % 2 = 0)

\* The last of the queue's array for its first.
LevelSeenLast(queue, popped) ==
  IF queue = {} THEN popped.level ELSE CHOOSE k \in {c.level : c \in queue} : \A c \in queue : c.level <= k

\* Where `cluster' refers to once the top has been popped: to the new top, or to
\* the popped cluster itself, still in its place, if the queue is empty.
LevelSeen(queue, popped) == IF queue = {} THEN popped.level ELSE Lowest(queue)

\* The clusters to be pushed for the points S: one with any center, none for no points.
Pushed(S, level) == IF S = {} THEN {{}} ELSE {{Cluster(S, level, c)} : c \in S}
\* The multiplicities of the centers, one for each cluster.
QueueSize(queue) ==
  Cardinality({c \in queue : ~c.center.grad}) + GradMult * Cardinality({c \in queue : c.center.grad})

\* The step when the size of the popped cluster is not taken off.
SplitWithoutSubtraction ==
  /\ coarsePc = "split" /\ size < wanted
  /\ \E top \in {c \in clusters : c.level = Lowest(clusters)}, order \in CoarseOrders :
       LET mid == MidPoint(top.points, order)
           left == {q \in top.points : order[q] < order[mid]}
           popped == clusters \ {top}
       IN  \E l \in Pushed(left, LevelSeen(popped, top) + 1) :
             \E r \in Pushed(top.points \ left, LevelSeen(popped \cup l, top) + 1) :
               /\ clusters' = FromLowest(popped \cup l \cup r)
               /\ size' = size + QueueSize(l) + QueueSize(r)
  /\ UNCHANGED <<wanted, chosen, coarsePc>>

\* One turn of the loop.  A cluster of one point goes back as its own right half.
Split ==
  /\ coarsePc = "split" /\ size < wanted
  /\ \E top \in {c \in clusters : c.level = Lowest(clusters)}, order \in CoarseOrders :
       LET mid == MidPoint(top.points, order)
           left == {q \in top.points : order[q] < order[mid]}
           popped == clusters \ {top}
       IN  \E l \in Pushed(left, LevelSeen(popped, top) + 1) :
             \E r \in Pushed(top.points \ left, LevelSeen(popped \cup l, top) + 1) :
               /\ clusters' = FromLowest(popped \cup l \cup r)
               /\ size' = size - Multiplicity(top.center) + QueueSize(l) + QueueSize(r)
  /\ UNCHANGED <<wanted, chosen, coarsePc>>

\* The centers are returned after the polynomial points.
Collect ==
  /\ coarsePc = "split" /\ size >= wanted
  /\ chosen' = CoarsePoly \cup {c.center : c \in clusters}
  /\ clusters' = {}
  /\ coarsePc' = "done"
  /\ UNCHANGED <<wanted, size>>

CoarseNext == Split \/ Collect

CoarseSpec == CoarseInit /\ [][CoarseNext]_coarseVars
\* The loop of a call that nothing interrupts.
CoarseFairSpec == CoarseSpec /\ WF_coarseVars(CoarseNext)

-----------------------------------------------------------------------------
\* The type of every variable.
CoarseTypeOK ==
  /\ wanted \in Wanted
  /\ \A c \in clusters : c.level \in Nat /\ c.points \subseteq CoarseSet /\ c.center \in c.points
  /\ size \in Nat
  /\ chosen \subseteq CoarseSet
  /\ coarsePc \in {"split", "done"}

\* The clusters are a partition of the points that do not fix the polynomial, so
\* that no point is chosen twice, and current_size is the size of their centers.
ClustersPartition ==
  coarsePc = "split" =>
    /\ UNION {c.points : c \in clusters} = CoarseSet \ CoarsePoly
    /\ \A c, d \in clusters : c # d => c.points \cap d.points = {}
    /\ size = QueueSize(clusters)

\* The level given to the halves is read where the top was before it was popped, and may be
\* that of another cluster; yet the clusters are split breadth first: no level
\* in the queue is more than two beyond the lowest.
LevelsClose == \A c, d \in clusters : c.level <= d.level + 2

\* What is returned: the polynomial points and between n_coarse_points and
\* n_coarse_points + 2 * kDim - 2 others; one split replaces a center by two, of which both
\* may have a gradient where the one had none (see ExcessBelowDim).
CoarseSize ==
  coarsePc = "done" =>
    /\ CoarsePoly \subseteq chosen
    /\ SizeOf(chosen) >= wanted + Cardinality(CoarsePoly)
    /\ wanted > 0 => SizeOf(chosen) <= wanted + Cardinality(CoarsePoly) + 2 * GradMult - 2

\* Clusters are a partition throughout, split level by level, and in the end as many points are
\* chosen as were asked for, up to the multiplicities of the last centers.
CoarsePointsChosen == ClustersPartition /\ LevelsClose /\ CoarseSize

\* test_domain_divider.cpp:85, EXPECT_GT(n_coarse_points + n_poly_points + Dim, ...): what is
\* chosen exceeds what was asked for by less than the multiplicity of a gradient.
ExcessBelowDim ==
  coarsePc = "done" => wanted + Cardinality(CoarsePoly) + GradMult > SizeOf(chosen)

\* The call returns.
CoarseTerminates == <>(coarsePc = "done")

\* test_domain_divider.cpp:83 of a call for more points than there are: the
\* caller is promised at least n_coarse_points besides the polynomial ones.
EnoughReturned == <>(coarsePc = "done" /\ SizeOf(chosen) >= wanted + Cardinality(CoarsePoly))
==============================================================================
