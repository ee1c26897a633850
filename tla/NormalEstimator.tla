--------------------------- MODULE NormalEstimator ---------------------------
(***************************************************************************)
(* src/point_cloud/normal_estimator.cpp: normals of a point cloud, known   *)
(* up to their sign once they are estimated, and the operations that       *)
(* choose the signs.  A normal is -1, 0 or 1 times a fixed axis; a surface *)
(* gives the signs of the products of axes and what the tree finds.        *)
(***************************************************************************)
EXTENDS Integers, Sequences, FiniteSets

CONSTANTS
  Surfaces,  \* records: see SurfaceType
  Ks,        \* the lists of k that are passed in, as sets
  Radii      \* the lists of radii, as sets

VARIABLES
  surface,    \* points_ and tree_
  estimated,  \* estimated_
  normals,    \* normals_: sign of each normal along its axis, 0 for none
  planes,     \* history: the numbers of points that planes were fitted to
  oriented,   \* the points that are marked so
  component,  \* connected_component
  queue,      \* queue: pairs of an oriented point and a neighbor
  normalPc,
  via,        \* history: the pair by which each point of a component was reached
  finished    \* history: the components that are done

normalVars == <<surface, estimated, normals, planes, oriented, component, queue, normalPc, via, finished>>
closedVars == <<oriented, component, queue, via, finished>>

PointCount == Len(surface.up)
Point == 1..PointCount
Sign == {-1, 0, 1}

\* What a surface tells: the neighbors that knn_search finds for orient_closed_surface,
\* the sign of the product of two axes, the weights of pairs, how far up a point is, the
\* sign of its axis' third coordinate, of its products with other directions or with the
\* way to other points, and how many points there are within a radius.
IsSurface(s) ==
  LET P == 1..Len(s.up)
  IN  /\ s.knn \in [P -> SUBSET P] /\ s.axes \in [P -> [P -> Sign]]
      /\ s.weight \in [P -> [P -> Nat]] /\ s.height \in [P -> Int] /\ s.up \in Seq(Sign)
      /\ s.views \subseteq [P -> Sign]
      /\ \A radii \in Radii : \A r \in radii : \A i \in P : s.within[i][r] \in 1..Len(s.up)
ASSUME NormalAssumption ==
  /\ \A s \in Surfaces : IsSurface(s)
  /\ \A ks \in Ks : ks # {} /\ \A k \in ks : k \in Nat /\ k >= 3
  /\ \A radii \in Radii : radii # {} /\ radii \subseteq Nat \ {0}

\* The sign of the product of two normals.
Dot(i, j) == normals[i] * normals[j] * surface.axes[i][j]
MaxOf(S) == CHOOSE x \in S : \A y \in S : y <= x
MinOf(S) == CHOOSE x \in S : \A y \in S : x <= y

Forget == oriented' = {} /\ component' = <<>> /\ queue' = {} /\ via' = <<>> /\ finished' = {}

NormalInit ==
  /\ surface \in Surfaces
  /\ estimated = FALSE /\ normals = <<>> /\ planes = {}
  /\ oriented = {} /\ component = <<>> /\ queue = {} /\ via = <<>> /\ finished = {}
  /\ normalPc = "idle"

-----------------------------------------------------------------------------
\* The sign of a plane's normal is whatever the decomposition gives.
Estimated(found) ==
  /\ normals' \in {s \in [Point -> Sign] : \A i \in Point : s[i] # 0 <=> i \in found}
  /\ estimated' = TRUE
  /\ Forget /\ UNCHANGED <<surface, normalPc>>

EstimateWithKnn(ks) ==
  /\ normalPc = "idle"
  /\ IF PointCount < 3
       THEN Estimated({}) /\ UNCHANGED planes
       ELSE Estimated(Point) /\ planes' = {IF k < PointCount THEN k ELSE PointCount : k \in ks}

\* A point with fewer than three others within the largest radius has no normal.
EstimateWithRadius(radii) ==
  LET found == {i \in Point : surface.within[i][MaxOf(radii)] >= 3}
  IN  /\ normalPc = "idle"
      /\ Estimated(found)
      /\ planes' = {surface.within[i][r] : i \in found, r \in radii}

\* Which planes are below the threshold depends on the points.
FilterByPlaneFactor(below) ==
  /\ normalPc = "idle" /\ estimated
  /\ normals' = [i \in Point |-> IF i \in below THEN 0 ELSE normals[i]]
  /\ Forget /\ UNCHANGED <<surface, estimated, planes, normalPc>>

\* orient_toward_direction, orient_toward_point: every normal that points away is turned.
OrientToward(view) ==
  /\ normalPc = "idle" /\ estimated
  /\ normals' = [i \in Point |-> IF normals[i] * view[i] < 0 THEN -normals[i] ELSE normals[i]]
  /\ Forget /\ UNCHANGED <<surface, estimated, planes, normalPc>>

-----------------------------------------------------------------------------
(* orient_closed_surface                                                   *)

OrientClosedSurface ==
  /\ normalPc = "idle" /\ estimated
  /\ oriented' = {i \in Point : normals[i] = 0}
  /\ component' = <<>> /\ queue' = {} /\ via' = <<>> /\ finished' = {}
  /\ normalPc' = "find"
  /\ UNCHANGED <<surface, estimated, normals, planes>>

\* The pairs that are put into the queue when i has become oriented.
Pairs(i, done) == {<<i, j>> : j \in surface.knn[i] \ done}

Seed ==
  /\ normalPc = "find" /\ oriented # Point
  /\ LET cur == MinOf(Point \ oriented)
     IN  /\ oriented' = oriented \cup {cur}
         /\ component' = <<cur>>
         /\ queue' = Pairs(cur, oriented \cup {cur})
  /\ normalPc' = "propagate"
  /\ UNCHANGED <<surface, estimated, normals, planes, via, finished>>

Weight(pair) == surface.weight[pair[1]][pair[2]]
\* queue.top(): one of the heaviest
Top == {e \in queue : \A f \in queue : Weight(f) <= Weight(e)}

Skip ==
  /\ normalPc = "propagate"
  /\ \E e \in Top : e[2] \in oriented /\ queue' = queue \ {e}
  /\ UNCHANGED <<surface, estimated, normals, planes, oriented, component, normalPc, via, finished>>

Pop ==
  /\ normalPc = "propagate"
  /\ \E e \in Top :
       LET cur == e[2]
       IN  /\ cur \notin oriented
           /\ normals' = [normals EXCEPT ![cur] = IF Dot(cur, e[1]) < 0 THEN -@ ELSE @]
           /\ oriented' = oriented \cup {cur}
           /\ component' = Append(component, cur)
           /\ via' = [i \in DOMAIN via \cup {cur} |-> IF i = cur THEN e ELSE via[i]]
           /\ queue' = (queue \ {e}) \cup Pairs(cur, oriented \cup {cur})
  /\ UNCHANGED <<surface, estimated, planes, normalPc, finished>>

\* max_element: the first of the highest points of the component
Highest(c) ==
  c[MinOf({a \in DOMAIN c : \A b \in DOMAIN c : surface.height[c[b]] <= surface.height[c[a]]})]

\* The turn of the component without all its points: the highest one only.
TurnHighest ==
  /\ normalPc = "propagate" /\ queue = {}
  /\ LET top == Highest(component)
     IN  normals' = [normals EXCEPT ![top] = IF @ * surface.up[top] < 0 THEN -@ ELSE @]
  /\ finished' = finished \cup {component}
  /\ normalPc' = "find"
  /\ UNCHANGED <<surface, estimated, planes, oriented, component, queue, via>>

TurnComponent ==
  /\ normalPc = "propagate" /\ queue = {}
  /\ LET top == Highest(component)
         turned == IF normals[top] * surface.up[top] < 0
                     THEN {component[a] : a \in DOMAIN component} ELSE {}
     IN  normals' = [i \in Point |-> IF i \in turned THEN -normals[i] ELSE normals[i]]
  /\ finished' = finished \cup {component}
  /\ normalPc' = "find"
  /\ UNCHANGED <<surface, estimated, planes, oriented, component, queue, via>>

Done ==
  /\ normalPc = "find" /\ oriented = Point
  /\ normalPc' = "idle" /\ oriented' = {} /\ component' = <<>>
  /\ UNCHANGED <<surface, estimated, normals, planes, queue, via, finished>>

ClosedStep == Seed \/ Skip \/ Pop \/ TurnComponent \/ Done
NormalNext ==
  \/ \E ks \in Ks : EstimateWithKnn(ks)
  \/ \E radii \in Radii : EstimateWithRadius(radii)
  \/ \E below \in SUBSET Point : FilterByPlaneFactor(below)
  \/ \E view \in surface.views : OrientToward(view)
  \/ OrientClosedSurface
  \/ ClosedStep
NormalSpec == NormalInit /\ [][NormalNext]_normalVars

-----------------------------------------------------------------------------
\* The types of the variables.
NormalTypeOK ==
  /\ surface \in Surfaces /\ estimated \in BOOLEAN
  /\ normals \in IF estimated THEN [Point -> Sign] ELSE {<<>>}
  /\ planes \subseteq Nat
  /\ oriented \subseteq Point /\ component \in Seq(Point) /\ queue \subseteq Point \X Point
  /\ normalPc \in {"idle", "find", "propagate"}
  /\ DOMAIN via \subseteq Point /\ finished \subseteq Seq(Point)

\* After orient_closed_surface and all the way through it, no normal turns its back on
\* the one it was oriented after, and the highest point of a finished component looks up.
NormalsAgree ==
  /\ \A i \in DOMAIN via : Dot(i, via[i][1]) >= 0
  /\ \A c \in finished : normals[Highest(c)] * surface.up[Highest(c)] >= 0

\* Orientation goes along the strongest links: between two neighbors of a component no
\* point is reached by a link weaker than their own.
StrongestFirst ==
  \A c \in finished \cup {component} : \A a, b \in DOMAIN c :
    a < b /\ c[b] \in surface.knn[c[a]] =>
      \A m \in (a + 1)..b : Weight(via[c[m]]) >= Weight(<<c[a], c[b]>>)

\* Every normal is in one component.
EachOrientedOnce ==
  normalPc = "find" /\ oriented = Point =>
    \A i \in Point : normals[i] # 0 =>
      /\ Cardinality({c \in finished : \E a \in DOMAIN c : c[a] = i}) = 1
      /\ \A c \in finished : Cardinality({a \in DOMAIN c : c[a] = i}) <= 1

\* orient_closed_surface ends.
NormalTerminates == normalPc # "idle" ~> normalPc = "idle"

\* plane_estimator.cpp:9: POLATORY_ASSERT(points.rows() >= 3)
PlanesOfThree == \A k \in planes : k >= 3
==============================================================================
