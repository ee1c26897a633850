---------------------------- MODULE MCIsosurface ----------------------------
(***************************************************************************)
(* The isosurface in its parts, each for itself: the calls that build the  *)
(* lattice and the mesh, the lattice in space, the clipping of a mesh and  *)
(* the search for faces that intersect.  The parts that are not under      *)
(* check stay in an initial state.                                         *)
(*                                                                         *)
(* An anisotropy for which the basis of the lattice is the standard basis  *)
(* makes lattices that are boxes of nodes.                                 *)
(***************************************************************************)
EXTENDS Isosurface

CONSTANTS Parts

VARIABLES
  part,
  lattice, lc2, added,
  input, face, triangles,
  defectsOf, result, searched

spaceVars == <<lattice, lc2, added>>
clipVars == <<input, face, triangles>>
defectVars == <<defectsOf, result, searched>>

BoxOf(xs, ys, zs) == {<<x, y, z>> : x \in xs, y \in ys, z \in zs}
VerticesIn(box) == {v \in [node : box, ei : EdgeIndex] : Neighbor(v.node, v.ei) \in box}

\* A bbox within two cells next to each other: up to five nodes in each direction, the middle
\* ones clusterable.
MCBox == BoxOf(0..4, 0..3, 0..3)
MCClusterable == BoxOf(1..3, 1..2, 1..2)
MCIntersecting == {<<1, 1, 1>>, <<2, 2, 2>>}
\* Of the center of the bbox; of a seed whose node is one of the corners; and of one halfway
\* between nodes in two coordinates, which are rounded to <<3, 1>> and not to <<2, 2>>, for
\* which the tie between them is broken.
MCArb == ToSet(Corners(<<2, 1, 1>>, 1))
MCStarts == {{}, {<<2, 2, 2>>}, {<<3, 1, 2>>}}

\* Fields of either sign around some of the inner nodes and one outside.
Core == {<<1, 1, 1>>, <<2, 2, 2>>, <<1, 1, 2>>, <<2, 1, 3>>}
Size(lc) == 1 + ((lc[1] + 2 * lc[2] + 3 * lc[3] + 1) % 3)
MCFields ==
  {[lc \in MCBox |-> IF (lc \in S) = neg THEN -Size(lc) ELSE Size(lc)] :
     S \in SUBSET Core, neg \in BOOLEAN}
MCMoves == {{}, VerticesIn(MCBox), {v \in VerticesIn(MCBox) : v.ei \in 0..6}}
\* All but the vertices on the sides of the lattice, the ones in the bbox among them.
Sides(lc) == {c \in 1..6 : lc[1 + (c % 3)] = IF c <= 3 THEN 0 ELSE IF c = 6 THEN 4 ELSE 3}
MCInside == {v \in VerticesIn(MCBox) : Sides(v.node) \cap Sides(Neighbor(v.node, v.ei)) = {}}

\* A bbox of three nodes in a row, which ends just before the next nodes.  The outer
\* ones of the three are negative; vertices around them, nine tenths of the way to
\* the next nodes, are in the bbox.
RowBox == BoxOf(-2..4, -2..2, -2..2)
RowClusterable == BoxOf(-1..3, -1..1, -1..1)
Ends == {<<0, 0, 0>>, <<2, 0, 0>>}
Between == <<1, 0, 0>>
RowFields == {[lc \in RowBox |-> IF lc \in Ends THEN -9 ELSE 1]}
RowStarts == {{Between}}
RowMoves == {{}}
RowArb == ToSet(Corners(Between, 1))
RowInside == {v \in VerticesIn(RowBox) : v.node \in Ends \/ Neighbor(v.node, v.ei) \in Ends}

\* kNeighborMasks: two edges of a node are next to each other if their ends are.
ASSUME MasksAreAdjacency ==
  \A a, b \in EdgeIndex : b \in NeighborMasks[a] <=>
    \E e \in EdgeIndex : Neighbor(Neighbor(<<0, 0, 0>>, a), e) = Neighbor(<<0, 0, 0>>, b)

-----------------------------------------------------------------------------
\* A bbox and the basis of the lattice: the body-centered one, stretched so that it has
\* integer coordinates; two skew ones; and the standard one, with the bbox in two cells
\* and the row of nodes from above.
Cell(x, y, z) == <<<<x, 0, 0>>, <<0, y, 0>>, <<0, 0, z>>>>
BodyCentered == <<<<10, 10, 0>>, <<-10, 0, 10>>, <<10, -10, 0>>>>
Skew == <<<<20, 0, -10>>, <<10, 10, 0>>, <<0, -10, 10>>>>
Oblique == <<<<10, 10, 10>>, <<0, 10, -10>>, <<0, 0, 20>>>>
Space(min, max, basis) == [min |-> min, max |-> max, basis |-> basis]
TwoCells == Space(<<13, 13, 13>>, <<27, 17, 17>>, Cell(10, 10, 10))
InRow == Space(<<-7, -7, -7>>, <<27, 7, 7>>, Cell(10, 10, 10))
MCLattices ==
  {TwoCells, InRow, Space(<<1, 2, 3>>, <<5, 8, 9>>, Cell(30, 10, 20)),
   Space(<<0, 0, 0>>, <<12, 7, 10>>, BodyCentered), Space(<<-3, -2, -1>>, <<-3, 12, 5>>, BodyCentered),
   Space(<<-8, 5, 2>>, <<1, 9, 8>>, Skew), Space(<<20, -35, 7>>, <<29, -25, 10>>, Oblique)}
InSpace == INSTANCE PrimitiveLattice WITH Lattices <- MCLattices, Margin <- <<11, 10>>, Far <- 99

\* Meshes and how they lie at the bbox: cut by one side, by three at a corner, through
\* vertices, touching the sides from inside, outside; larger than the bbox; with one
\* vertex on a side, and almost an edge; with a side in a side.
Of(at, faces) == [i \in DOMAIN faces |-> <<at[faces[i][1]], at[faces[i][2]], at[faces[i][3]]>>]
Octahedron(r) ==
  Of(<<<<r, 0, 0>>, <<0, r, 0>>, <<-r, 0, 0>>, <<0, -r, 0>>, <<0, 0, r>>, <<0, 0, -r>>>>,
     <<<<1, 2, 5>>, <<2, 3, 5>>, <<3, 4, 5>>, <<4, 1, 5>>, <<2, 1, 6>>, <<3, 2, 6>>, <<4, 3, 6>>, <<1, 4, 6>>>>)
Tetrahedron(a, b, c, d) == Of(<<a, b, c, d>>, <<<<1, 3, 2>>, <<1, 2, 4>>, <<2, 3, 4>>, <<3, 1, 4>>>>)
Prism(r, h) ==
  Of(<<<<0, 0, 0>>, <<r, 0, 0>>, <<0, r, 0>>, <<0, 0, h>>, <<r, 0, h>>, <<0, r, h>>>>,
     <<<<1, 3, 2>>, <<4, 5, 6>>, <<1, 2, 5>>, <<1, 5, 4>>, <<2, 3, 6>>, <<2, 6, 5>>, <<3, 1, 4>>, <<3, 4, 6>>>>)
Clip(tris, min, max) == [triangles |-> tris, min |-> min, max |-> max]
MCInputs ==
  {Clip(Octahedron(5), <<-9, -9, -9>>, <<3, 9, 9>>), Clip(Octahedron(7), <<-2, -3, -9>>, <<9, 9, 4>>),
   Clip(Octahedron(5), <<0, -9, -9>>, <<9, 9, 9>>), Clip(Octahedron(5), <<-9, -1, -9>>, <<5, 5, 0>>),
   Clip(Octahedron(5), <<-5, -5, -5>>, <<5, 5, 5>>), Clip(Octahedron(5), <<6, 6, 6>>, <<9, 9, 9>>),
   Clip(Tetrahedron(<<-7, -8, -9>>, <<11, 1, 0>>, <<1, 13, 2>>, <<0, 3, 17>>), <<-3, -3, -3>>, <<4, 4, 4>>),
   Clip(Tetrahedron(<<3, 0, 1>>, <<-2, 1, 0>>, <<7, 5, 2>>, <<1, 9, 11>>), <<-4, -4, -4>>, <<3, 8, 8>>),
   Clip(Tetrahedron(<<3, 0, 1>>, <<7, -2, 1>>, <<-2, 1, 1>>, <<1, 9, 11>>), <<-4, -4, -4>>, <<3, 12, 12>>),
   Clip(Prism(7, 5), <<-2, -2, 0>>, <<4, 5, 3>>)}
Clipper == INSTANCE Clipping WITH Inputs <- MCInputs

\* Two triangles that share a vertex, one of some and one of many; and six around a
\* vertex, three of them as a fan that the others stand through.
Origin == <<0, 0, 0>>
Directions == [1..3 -> -1..1] \ {Origin}
Firsts == {<<<<1, 0, 0>>, <<0, 1, 0>>>>, <<<<0, 1, 1>>, <<1, -1, 0>>>>, <<<<1, 0, 0>>, <<-2, 1, 0>>>>}
Seconds == {<<1, 1, 0>>, <<-1, 0, 0>>, <<0, -1, 1>>, <<1, 1, -1>>, <<-2, 1, 1>>}
TwoFaces(ab, c, d) == [vertices |-> <<Origin, ab[1], ab[2], c, d>>, faces |-> <<<<1, 2, 3>>, <<5, 1, 4>>>>]
TwoFans(tilt) ==
  [vertices |-> <<Origin, <<2, 0, 0>>, <<1, 2, 0>>, <<-1, 2, 0>>, <<-2, 0, 0>>,
                  <<1, 1, -1>>, <<1, 1, 1>>, <<tilt, -1, 1>>, <<tilt, 1, 2>>>>,
   faces |-> <<<<1, 2, 3>>, <<3, 4, 1>>, <<4, 5, 1>>, <<7, 1, 6>>, <<1, 7, 8>>, <<8, 9, 1>>>>]
Parallel(u, v) == \E k \in {-2, -1, 1, 2} : \A i \in 1..3 : u[i] = k * v[i]
MCMeshes ==
  {TwoFaces(ab, c, d) : ab \in Firsts, c \in Directions, d \in Seconds} \cup {TwoFans(t) : t \in -1..1}
Defects == INSTANCE MeshDefects WITH
  Meshes <- {m \in MCMeshes : Len(m.vertices) = 5 => ~Parallel(m.vertices[5], m.vertices[4])}

ASSUME SpaceAssumptions == InSpace!Assumptions

-----------------------------------------------------------------------------
MCInit ==
  /\ part \in Parts
  /\ Init /\ (part # "lattice" => field = CHOOSE f \in Fields : TRUE)
  /\ Defects!Init /\ (part # "defects" => defectsOf = TwoFans(0))
  /\ Clipper!Init /\ (part # "clip" => input.max = <<3, 9, 9>>)
  /\ InSpace!Init /\ (part # "space" => lattice.min = TwoCells.min)
MCNext ==
  /\ \/ part = "lattice" /\ Next /\ UNCHANGED <<spaceVars, clipVars, defectVars>>
     \/ part = "space" /\ InSpace!Next /\ UNCHANGED <<vars, clipVars, defectVars>>
     \/ part = "clip" /\ Clipper!Next /\ UNCHANGED <<vars, spaceVars, defectVars>>
     \/ part = "defects" /\ Defects!Next /\ UNCHANGED <<vars, spaceVars, clipVars>>
  /\ UNCHANGED part
MCVars == <<part, vars, spaceVars, clipVars, defectVars>>
MCFairSpec == MCInit /\ [][MCNext]_MCVars /\ CallsGoOn

-----------------------------------------------------------------------------
\* The types of all variables.
MCTypeOK == TypeOK /\ InSpace!TypeOK /\ Clipper!TypeOK /\ Defects!TypeOK

\* The loops over lattice coordinates find all nodes, among them the corners around any
\* point of the bbox; for the two boxes of nodes above, exactly these.
IsBox(nodesOf, clusterable) ==
  LET at == [lc \in added |-> InSpace!position(lc)]
      Named(S) == {[i \in 1..3 |-> at[lc][i] \div 10] : lc \in S}
  IN /\ Named(added) = nodesOf
     /\ Named({lc \in added : InSpace!StrictlyInside(lattice.first, at[lc])}) = clusterable
NodesFound ==
  part = "space" =>
    /\ InSpace!LayersFound /\ InSpace!PointsSurrounded
    /\ lc2 > InSpace!third_lattice_coordinate_range[2] =>
         /\ lattice.max = TwoCells.max => IsBox(MCBox, MCClusterable)
         /\ lattice.max = InRow.max => IsBox(RowBox, RowClusterable)

\* The clipped mesh lies in the bbox and ends only on its sides.
ClippedAtBbox == Clipper!ClippedAtBbox

\* Faces are found to intersect if and only if they do.
IntersectionsFound == Defects!IntersectionsFound
=============================================================================
