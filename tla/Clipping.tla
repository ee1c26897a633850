------------------------------ MODULE Clipping ------------------------------
(***************************************************************************)
(* isosurface/clip.hpp: MeshClipper cuts a mesh at the six sides of a      *)
(* bbox, one after the other, as triangles that know nothing of each       *)
(* other; they become a mesh again where vertices are exactly the same.    *)
(* A point stands for the number of the vertex that vertex_map gives it.   *)
(*                                                                         *)
(* Coordinates are integers, and so are those of a cut, which are rounded  *)
(* towards the vertex where the cut starts: it matters where that is.      *)
(* Which diagonal halves a quadrilateral depends on a rounded determinant  *)
(* and is left open, for all of a side together.                           *)
(***************************************************************************)
EXTENDS Integers, Sequences, FiniteSets, SequencesExt

CONSTANTS
  Inputs  \* records: triangles of a mesh, and the bbox (min, max)

VARIABLES
  input,
  face,       \* the side at which to cut next, 7 after the last
  triangles   \* triples of points
clipVars == <<input, face, triangles>>

\* permutations: the axes, with their signs, of which the first is to be below the threshold.
permutations == <<<<1, 2, 3>>, <<-1, 3, 2>>, <<2, 3, 1>>, <<-2, 1, 3>>, <<3, 1, 2>>, <<-3, 2, 1>>>>
thresholds(x) == <<x.max[1], -x.min[1], x.max[2], -x.min[2], x.max[3], -x.min[3]>>
Signed(p, s) == IF s < 0 THEN -p[-s] ELSE p[s]
Permuted(perm, p) == <<Signed(p, perm[1]), Signed(p, perm[2]), Signed(p, perm[3])>>
Transpose(perm) ==
  LET To(i) == CHOOSE s \in {-3, -2, -1, 1, 2, 3} :
                 IF s < 0 THEN perm[-s] = -i ELSE perm[s] = i
  IN <<To(1), To(2), To(3)>>
transform_points(perm, tri) == <<Permuted(perm, tri[1]), Permuted(perm, tri[2]), Permuted(perm, tri[3])>>

-----------------------------------------------------------------------------
(* clip: a triangle at a threshold of the first coordinate                  *)

\* Where the edge from p to q passes the threshold, |threshold - p| / |q - p| of the way.
Part(n, num, den) == IF n < 0 THEN -((-n * num) \div den) ELSE (n * num) \div den
Rounded(p, q, i, threshold) ==
  p[i] + (IF p[1] < q[1] THEN Part(q[i] - p[i], threshold - p[1], q[1] - p[1])
          ELSE Part(q[i] - p[i], p[1] - threshold, p[1] - q[1]))
Cut(p, q, threshold) == <<threshold, Rounded(p, q, 2, threshold), Rounded(p, q, 3, threshold)>>
\* The triangle from its vertex i on.
From(tri, i) == <<tri[i], tri[1 + (i % 3)], tri[1 + ((i + 1) % 3)]>>
\* Two of three comparisons.
degenerateOfTwo(tri) == tri[1] = tri[2] \/ tri[2] = tri[3]
degenerate(tri) == tri[1] = tri[2] \/ tri[2] = tri[3] \/ tri[3] = tri[1]

Interior(tri, threshold) == {i \in 1..3 : tri[i][1] < threshold}
Boundary(tri, threshold) == {i \in 1..3 : tri[i][1] = threshold}
Exterior(tri, threshold) == {i \in 1..3 : tri[i][1] > threshold}
The(S) == CHOOSE i \in S : TRUE

\* (interior, exterior, exterior)
Tip(t, threshold) == <<<<t[1], Cut(t[1], t[2], threshold), Cut(t[1], t[3], threshold)>>>>
\* The cut always from the second vertex to the third.
HalfFromSecond(t, threshold) ==
  IF t[2][1] < t[3][1] THEN <<<<t[1], t[2], Cut(t[2], t[3], threshold)>>>>
  ELSE <<<<t[1], Cut(t[2], t[3], threshold), t[3]>>>>
\* (boundary, interior, exterior) or (boundary, exterior, interior)
Half(t, threshold) ==
  IF t[2][1] < t[3][1] THEN <<<<t[1], t[2], Cut(t[2], t[3], threshold)>>>>
  ELSE <<<<t[1], Cut(t[3], t[2], threshold), t[3]>>>>
\* The other half of the other diagonal.
HalvedMixed(a, b, c, d, ac) == IF ac THEN <<<<a, b, c>>, <<a, c, d>>>> ELSE <<<<a, b, d>>, <<a, c, d>>>>
\* (exterior, interior, interior)
Halved(a, b, c, d, ac) == IF ac THEN <<<<a, b, c>>, <<a, c, d>>>> ELSE <<<<a, b, d>>, <<b, c, d>>>>
Trunk(t, threshold, ac) == Halved(t[2], t[3], Cut(t[3], t[1], threshold), Cut(t[2], t[1], threshold), ac)

Pieces(tri, threshold, ac) ==
  LET interior == Interior(tri, threshold)
      boundary == Boundary(tri, threshold)
      exterior == Exterior(tri, threshold)
  IN IF interior = {} THEN <<>>
     ELSE IF exterior = {} THEN <<tri>>
     ELSE IF boundary # {} THEN Half(From(tri, The(boundary)), threshold)
     ELSE IF Cardinality(interior) = 1 THEN Tip(From(tri, The(interior)), threshold)
     ELSE Trunk(From(tri, The(exterior)), threshold, ac)
clip(tri, threshold, ac) == SelectSeq(Pieces(tri, threshold, ac), LAMBDA t : ~degenerate(t))

-----------------------------------------------------------------------------
(* The constructor                                                          *)

Init == input \in Inputs /\ face = 1 /\ triangles = input.triangles

ClipFace ==
  LET perm == permutations[face]
      Back(tri) == transform_points(Transpose(perm), tri)
      Clipped(tri, ac) == clip(transform_points(perm, tri), thresholds(input)[face], ac)
      Kept(tri, ac) == LET pieces == Clipped(tri, ac) IN [k \in DOMAIN pieces |-> Back(pieces[k])]
  IN /\ face <= 6 /\ face' = face + 1
     /\ \E ac \in BOOLEAN :
          triangles' = FoldLeft(LAMBDA clipped, tri : clipped \o Kept(tri, ac), <<>>, triangles)
     /\ UNCHANGED input
Next == ClipFace

-----------------------------------------------------------------------------
TypeOK ==
  /\ input \in Inputs /\ face \in 1..7
  /\ \A i \in DOMAIN triangles : triangles[i] \in [1..3 -> [1..3 -> Int]]

Within(x, p) == \A i \in 1..3 : x.min[i] <= p[i] /\ p[i] <= x.max[i]
StrictlyWithin(x, p) == \A i \in 1..3 : x.min[i] < p[i] /\ p[i] < x.max[i]
OnOneSide(x, p, q) == \E i \in 1..3 : p[i] = q[i] /\ p[i] \in {x.min[i], x.max[i]}
VerticesOf(tris) == UNION {ToSet(t) : t \in ToSet(tris)}
EdgesAt(tris) == {[from |-> tris[i][k], to |-> tris[i][1 + (k % 3)], face |-> i] : i \in DOMAIN tris, k \in 1..3}
Passed(edges, p, q) == Cardinality({e \in edges : e.from = p /\ e.to = q})

\* However the sides round the cuts and halve quadrilaterals, of a closed mesh there is
\* a mesh in the bbox that ends only on its sides: pieces of neighbors fit together
\* without a crack.  It has the vertices of the input inside the bbox and no others
\* there, and the faces that are wholly there.
ClippedAtBbox ==
  face = 7 =>
    LET edges == EdgesAt(triangles)
        vertices == VerticesOf(triangles)
    IN /\ \A t \in ToSet(triangles) : Cardinality(ToSet(t)) = 3
       /\ \A p \in vertices : Within(input, p)
       /\ \A e \in edges :
            OnOneSide(input, e.from, e.to) \/ Passed(edges, e.from, e.to) = Passed(edges, e.to, e.from)
       /\ {p \in vertices : StrictlyWithin(input, p)} = {p \in VerticesOf(input.triangles) : StrictlyWithin(input, p)}
       /\ \A t \in ToSet(input.triangles) :
            (\A k \in 1..3 : StrictlyWithin(input, t[k])) => t \in ToSet(triangles)
==============================================================================
