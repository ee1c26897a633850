--------------------------- MODULE PrimitiveLattice ---------------------------
(***************************************************************************)
(* rmt/primitive_lattice.hpp: where the nodes of the lattice are in space, *)
(* which of them are within reach of the bbox and which tetrahedron is     *)
(* around a point; and how add_all_nodes goes through the nodes.  An       *)
(* anisotropy makes any rows with a positive determinant of the basis of   *)
(* the body-centered lattice.  Coordinates in space are integers, lattice  *)
(* coordinates are fractions over the determinant.                         *)
(***************************************************************************)
EXTENDS Rmt, FiniteSetsExt

CONSTANTS
  Lattices,  \* records: min and max of the bbox, and the rows of basis_
  Margin,    \* 1.01 as a fraction
  Far        \* for the ends of int

VARIABLES
  lattice,   \* the object, as Constructed
  lc2,       \* the layer of add_all_nodes
  added      \* nodes of the layers before it
spaceVars == <<lattice, lc2, added>>

Dot(u, v) == (u[1] * v[1]) + (u[2] * v[2]) + (u[3] * v[3])
Cross(u, v) ==
  <<(u[2] * v[3]) - (u[3] * v[2]), (u[3] * v[1]) - (u[1] * v[3]), (u[1] * v[2]) - (u[2] * v[1])>>
Minus(u, v) == <<u[1] - v[1], u[2] - v[2], u[3] - v[3]>>
Plus(u, v) == <<u[1] + v[1], u[2] + v[2], u[3] + v[3]>>
\* A row times a matrix.
Times(p, m) == [i \in 1..3 |-> (p[1] * m[1][i]) + (p[2] * m[2][i]) + (p[3] * m[3][i])]

\* Fractions: n over d, d not zero; halves are rounded away from zero.
Floor(n, d) == IF d < 0 THEN (-n) \div (-d) ELSE n \div d
Ceil(n, d) == -Floor(-n, d)
Round(n, d) == IF n >= 0 THEN ((2 * n) + d) \div (2 * d) ELSE -((d - (2 * n)) \div (2 * d))

Determinant(m) == Dot(Cross(m[1], m[2]), m[3])
\* basis_inv_, times the determinant.
Inverse3(m) ==
  LET columns == <<Cross(m[2], m[3]), Cross(m[3], m[1]), Cross(m[1], m[2])>>
  IN [i \in 1..3 |-> [k \in 1..3 |-> columns[k][i]]]

compute_lattice_coordinates_origin(min, max, inv, det) ==
  LET twice == Times(Plus(min, max), inv) IN [i \in 1..3 |-> Round(twice[i], 2 * det)]

\* Each node as far as its neighbors, whatever the extension.
ExtendedOnce(min, max, extension, neigh) ==
  LET Wide(n) == (Margin[1] * n) \div Margin[2]
  IN [min |-> [i \in 1..3 |-> min[i] + Wide(Min({n[i] : n \in neigh}))],
      max |-> [i \in 1..3 |-> max[i] + Wide(Max({n[i] : n \in neigh}))]]
Extended(min, max, extension, neigh) ==
  LET Wide(n) == (extension * Margin[1] * n) \div Margin[2]
  IN [min |-> [i \in 1..3 |-> min[i] + Wide(Min({n[i] : n \in neigh}))],
      max |-> [i \in 1..3 |-> max[i] + Wide(Max({n[i] : n \in neigh}))]]
compute_extended_bbox(min, max, basis, extension) ==
  Extended(min, max, extension, {Times(Neighbor(<<0, 0, 0>>, ei), basis) : ei \in EdgeIndex})

\* The constructor.
Constructed(x) ==
  LET det == Determinant(x.basis)
      inv == Inverse3(x.basis)
  IN [min |-> x.min, max |-> x.max, basis |-> x.basis, det |-> det, inv |-> inv,
      origin |-> compute_lattice_coordinates_origin(x.min, x.max, inv, det),
      first |-> compute_extended_bbox(x.min, x.max, x.basis, 1),
      second |-> compute_extended_bbox(x.min, x.max, x.basis, 2)]
first_extended_bbox == lattice.first
second_extended_bbox == lattice.second

\* Times the determinant.
lattice_coordinates_unrounded(p) ==
  LET c == Times(p, lattice.inv) IN [i \in 1..3 |-> c[i] - (lattice.det * lattice.origin[i])]
lattice_coordinates_rounded(p) ==
  LET c == lattice_coordinates_unrounded(p) IN [i \in 1..3 |-> Round(c[i], lattice.det)]
position(lc) == Times(Plus(lattice.origin, lc), lattice.basis)

contains(bbox, p) == \A i \in 1..3 : bbox.min[i] <= p[i] /\ p[i] <= bbox.max[i]
StrictlyInside(bbox, p) == \A i \in 1..3 : bbox.min[i] < p[i] /\ p[i] < bbox.max[i]
corners(bbox) ==
  {<<x, y, z>> : x \in {bbox.min[1], bbox.max[1]}, y \in {bbox.min[2], bbox.max[2]}, z \in {bbox.min[3], bbox.max[3]}}

Assumptions ==
  \A x \in Lattices :
    /\ \A i \in 1..3 : x.min[i] <= x.max[i]
    /\ Determinant(x.basis) > 0
    /\ \A i, j \in 1..3 : (Margin[1] * x.basis[i][j]) % Margin[2] = 0

-----------------------------------------------------------------------------
(* The loops over the lattice coordinates                                   *)

\* Conversion of a double to int, of one that does not fit to what there is.
Cast(x) == IF x \in (-Far)..Far THEN x ELSE -Far

RangeOf(i, bbox) ==
  LET coordinates == {lattice_coordinates_unrounded(v)[i] : v \in corners(bbox)}
  IN <<Floor(Min(coordinates), lattice.det), Ceil(Max(coordinates), lattice.det)>>
third_lattice_coordinate_range == RangeOf(3, second_extended_bbox)

\* Where the plane of a layer meets the edges of a bbox with the corners v: the second
\* coordinate there, as a fraction.
Crossings(lc, v) ==
  LET normal == Cross(lattice.basis[1], lattice.basis[2])
      d == -((lattice.origin[3] + lc) * lattice.det)
      edges == {e \in v \X v : Cardinality({i \in 1..3 : e[1][i] # e[2][i]}) = 1}
      at == [e \in edges |-> [along |-> Dot(normal, Minus(e[2], e[1])), up |-> -(Dot(normal, e[1]) + d)]]
      meets(along, up) == \/ 0 <= up /\ up <= along /\ along # 0
                          \/ along <= up /\ up <= 0 /\ along # 0
      second(e, along, up) ==
        <<(lattice_coordinates_unrounded(e[1])[2] * along) + (up * Times(Minus(e[2], e[1]), lattice.inv)[2]),
          lattice.det * along>>
  IN {second(e, at[e].along, at[e].up) : e \in {x \in edges : meets(at[x].along, at[x].up)}}

\* Without a crossing, what an infinity is converted to: the least int on some
\* machines, the nearest int on others.
RangesOver(crossings) ==
  IF crossings = {} THEN {<<-Far, -Far>>, <<Far, -Far>>}
  ELSE {<<Min({Floor(x[1], x[2]) : x \in crossings}), Max({Ceil(x[1], x[2]) : x \in crossings})>>}
second_lattice_coordinate_ranges(lc) == RangesOver(Crossings(lc, corners(second_extended_bbox)))

\* Without the swap for a row that goes down.
first_range_unswapped(lc1, lc) ==
  LET point == Times(<<0, lattice.origin[2] + lc1, lattice.origin[3] + lc>>, lattice.basis)
      direction == lattice.basis[1]
      bbox == second_extended_bbox
      axes == {i \in 1..3 : direction[i] # 0}
  IN <<Cast(Max({Floor(bbox.min[i] - point[i], direction[i]) : i \in axes}) - lattice.origin[1]),
       Cast(Min({Ceil(bbox.max[i] - point[i], direction[i]) : i \in axes}) - lattice.origin[1])>>
\* Where the line of a row is within the bbox; axes that it is parallel to do not count.
first_lattice_coordinate_range(lc1, lc) ==
  LET point == Times(<<0, lattice.origin[2] + lc1, lattice.origin[3] + lc>>, lattice.basis)
      direction == lattice.basis[1]
      bbox == second_extended_bbox
      axes == {i \in 1..3 : direction[i] # 0}
      Enter(i) == IF direction[i] > 0 THEN bbox.min[i] ELSE bbox.max[i]
      Leave(i) == IF direction[i] > 0 THEN bbox.max[i] ELSE bbox.min[i]
  IN <<Cast(Max({Floor(Enter(i) - point[i], direction[i]) : i \in axes}) - lattice.origin[1]),
       Cast(Min({Ceil(Leave(i) - point[i], direction[i]) : i \in axes}) - lattice.origin[1])>>

Init ==
  /\ lattice \in {Constructed(x) : x \in Lattices}
  /\ lc2 = third_lattice_coordinate_range[1]
  /\ added = {}

\* The nodes of a layer that add_node_unchecked finds in the extended bbox.
Row(lc1, lc, range) == {n \in {<<x, lc1, lc>> : x \in range[1]..range[2]} : contains(second_extended_bbox, position(n))}
AddLayer ==
  /\ lc2 <= third_lattice_coordinate_range[2]
  /\ \E range \in second_lattice_coordinate_ranges(lc2) :
       added' = added \cup
         UNION {Row(lc1, lc2, first_lattice_coordinate_range(lc1, lc2)) : lc1 \in range[1]..range[2]}
  /\ lc2' = lc2 + 1
  /\ UNCHANGED lattice
Next == AddLayer

-----------------------------------------------------------------------------
(* The tetrahedron around a point                                           *)

\* By the axes (from 0) in the order of the fractional parts, the least first.
EdgesByRank ==
  <<2, 1, 0>> :> <<0, 3>> @@ <<2, 0, 1>> :> <<3, 6>> @@ <<0, 2, 1>> :> <<6, 5>> @@
  <<0, 1, 2>> :> <<5, 2>> @@ <<1, 0, 2>> :> <<2, 1>> @@ <<1, 2, 0>> :> <<1, 0>>
\* The greatest first.
Descending(frac, rank) == frac[rank[1] + 1] >= frac[rank[2] + 1] /\ frac[rank[2] + 1] >= frac[rank[3] + 1]
Ascending(frac, rank) == frac[rank[1] + 1] <= frac[rank[2] + 1] /\ frac[rank[2] + 1] <= frac[rank[3] + 1]
TetrahedronAt(lc, edges) == <<lc, Neighbor(lc, edges[1]), Neighbor(lc, edges[2]), Neighbor(lc, 4)>>
\* std::sort may leave equal ones in any order.
tetrahedra(p) ==
  LET lcd == lattice_coordinates_unrounded(p)
      lc == [i \in 1..3 |-> Floor(lcd[i], lattice.det)]
      frac == [i \in 1..3 |-> lcd[i] % lattice.det]
  IN {TetrahedronAt(lc, EdgesByRank[rank]) : rank \in {r \in DOMAIN EdgesByRank : Ascending(frac, r)}}

\* Six times the volumes; a weight is one of the four over their sum.
Volume(a, b, c, d) == Dot(Cross(Minus(b, a), Minus(c, a)), Minus(d, a))
barycentric_coordinates(p, a, b, c, d) ==
  <<Volume(b, d, c, p), Volume(a, c, d, p), Volume(a, d, b, p), Volume(a, b, c, p)>>

-----------------------------------------------------------------------------
TypeOK == lc2 \in Int /\ \A lc \in added : lc \in [1..3 -> Int]

\* The nodes in a bbox, among those in the range of each coordinate.
NodesWithin(bbox) ==
  LET r == [i \in 1..3 |-> RangeOf(i, bbox)]
  IN {lc \in {<<x, y, z>> : x \in r[1][1]..r[1][2], y \in r[2][1]..r[2][2], z \in r[3][1]..r[3][2]} :
        contains(bbox, position(lc))}

\* Whatever infinities are converted to, the loops come to all nodes of the extended
\* bbox, and the vertices of all nodes that are clustered lie on edges between these.
LayersFound ==
  lc2 > third_lattice_coordinate_range[2] =>
    /\ added = NodesWithin(second_extended_bbox)
    /\ \A lc \in added : StrictlyInside(first_extended_bbox, position(lc)) =>
         \A ei \in EdgeIndex : Neighbor(lc, ei) \in added

\* The corners around any point of the bbox are nodes of the lattice, positively
\* oriented, and the point is their mean with weights that are not negative.  They are
\* near the node where the tracking from a seed point starts, unless the point is in
\* the middle between nodes along two axes.
PointsOfBbox ==
  {<<x, y, z>> : x \in lattice.min[1]..lattice.max[1], y \in lattice.min[2]..lattice.max[2],
                 z \in lattice.min[3]..lattice.max[3]}
Halves(p) ==
  LET c == lattice_coordinates_unrounded(p)
  IN {i \in 1..3 : (2 * c[i]) % (2 * lattice.det) = lattice.det}
MeanOf(w, at) == [i \in 1..3 |-> (w[1] * at[1][i]) + (w[2] * at[2][i]) + (w[3] * at[3][i]) + (w[4] * at[4][i])]
AmongCorners(p, tet, at, weights, v) ==
  /\ v > 0 /\ weights[1] + weights[2] + weights[3] + weights[4] = v
  /\ \A k \in 1..4 : weights[k] >= 0 /\ contains(second_extended_bbox, at[k])
  /\ MeanOf(weights, at) = [i \in 1..3 |-> v * p[i]]
  /\ Cardinality(Halves(p)) < 2 =>
       LET start == lattice_coordinates_rounded(p)
       IN \A k \in 1..4 : tet[k] \in {start} \cup {Neighbor(start, ei) : ei \in EdgeIndex}
SurroundedBy(p, tet, at) ==
  AmongCorners(p, tet, at, barycentric_coordinates(p, at[1], at[2], at[3], at[4]),
               Volume(at[1], at[2], at[3], at[4]))
CornersAround(p, tet) == SurroundedBy(p, tet, [k \in 1..4 |-> position(tet[k])])
PointsSurrounded ==
  added = {} => \A p \in PointsOfBbox : \A tet \in tetrahedra(p) : CornersAround(p, tet)
==============================================================================
