--------------------------------- MODULE Rmt ---------------------------------
(***************************************************************************)
(* isosurface/rmt: the regularized marching tetrahedra.  A node of the     *)
(* lattice is a triple of lattice coordinates; it has 14 edges, numbered   *)
(* 0 to 13, and is the first corner of six tetrahedra.                     *)
(***************************************************************************)
EXTENDS Integers, FiniteSets, Sequences, TLC

\* kNeighborLatticeCoordinatesDeltas of edges 0 to 6; edges 7 to 13 go back.
Deltas == <<<<1, 0, 0>>, <<1, 0, 1>>, <<0, 0, 1>>, <<1, 1, 0>>, <<1, 1, 1>>, <<0, 1, 1>>, <<0, 1, 0>>>>
EdgeIndex == 0..13
Opposite(ei) == (ei + 7) % 14
Neighbor(lc, ei) ==
  IF ei < 7 THEN [c \in 1..3 |-> lc[c] + Deltas[ei + 1][c]]
  ELSE [c \in 1..3 |-> lc[c] - Deltas[ei - 6][c]]

\* LatticeCoordinatesLess
Less(a, b) ==
  \/ a[1] < b[1]
  \/ a[1] = b[1] /\ a[2] < b[2]
  \/ a[1] = b[1] /\ a[2] = b[2] /\ a[3] < b[3]

\* kNeighborMasks, by edge: the edges next to it around a node.
NeighborMasks ==
  0 :> {1, 3, 4, 9, 12, 13} @@ 1 :> {0, 2, 4, 13} @@ 2 :> {1, 4, 5, 7, 10, 13} @@
  3 :> {0, 4, 6, 9} @@ 4 :> {0, 1, 2, 3, 5, 6} @@ 5 :> {2, 4, 6, 7} @@
  6 :> {3, 4, 5, 7, 8, 9} @@ 7 :> {2, 5, 6, 8, 10, 11} @@ 8 :> {6, 7, 9, 11} @@
  9 :> {0, 3, 6, 8, 11, 12} @@ 10 :> {2, 7, 11, 13} @@ 11 :> {7, 8, 9, 10, 12, 13} @@
  12 :> {0, 9, 11, 13} @@ 13 :> {0, 1, 2, 10, 11, 12}

\* What can be reached from a in S, along the edges that near gives.
Component(a, S, near) ==
  LET grown[k \in 0..Cardinality(S)] ==
        IF k = 0 THEN {a}
        ELSE LET before == grown[k - 1]
             IN before \cup (S \cap UNION {near[e] : e \in before})
  IN grown[Cardinality(S)]

\* Node::connected_components of some of the edges of a node.
ConnectedComponents(edges) == {Component(e, edges, NeighborMasks) : e \in edges}

-----------------------------------------------------------------------------
\* kEdgeIndices and kOuterEdgeIndices of the six tetrahedra.
InnerEdges == <<<<4, 5, 2>>, <<4, 2, 1>>, <<4, 1, 0>>, <<4, 0, 3>>, <<4, 3, 6>>, <<4, 6, 5>>>>
OuterEdges == <<<<7, 13, 3>>, <<10, 0, 6>>, <<13, 9, 5>>, <<12, 6, 2>>, <<9, 7, 1>>, <<8, 2, 0>>>>

\* The corners n, n0, n1, n2 of tetrahedron i at lc, and the six edges, in the
\* order of v0 to v5, as [node, ei].
Corners(lc, i) == <<lc>> \o [k \in 1..3 |-> Neighbor(lc, InnerEdges[i][k])]
TetEdges(lc, i) ==
  [k \in 1..3 |-> [node |-> lc, ei |-> InnerEdges[i][k]]]
    \o [k \in 1..3 |-> [node |-> Neighbor(lc, InnerEdges[i][k]), ei |-> OuterEdges[i][k]]]

\* The faces in a tetrahedron whose corners neg are negative, as numbers of edges;
\* turned around where the signs are, and not in TrianglesUnturned.
Base ==
  [neg \in {{1}, {2}, {3}, {4}, {1, 2}, {1, 3}, {1, 4}} |->
     CASE neg = {1} -> <<<<0, 1, 2>>>> [] neg = {2} -> <<<<0, 5, 3>>>> [] neg = {3} -> <<<<1, 3, 4>>>>
       [] neg = {4} -> <<<<2, 4, 5>>>> [] neg = {1, 2} -> <<<<5, 3, 1>>, <<5, 1, 2>>>>
       [] neg = {1, 3} -> <<<<0, 3, 4>>, <<0, 4, 2>>>> [] neg = {1, 4} -> <<<<5, 0, 1>>, <<5, 1, 4>>>>]
TrianglesUnturned(neg) ==
  IF neg \in {{}, 1..4} THEN <<>>
  ELSE IF neg \in DOMAIN Base THEN Base[neg] ELSE Base[(1..4) \ neg]
Triangles(neg) ==
  IF neg \in {{}, 1..4} THEN <<>>
  ELSE IF neg \in DOMAIN Base THEN Base[neg]
  ELSE LET turned == Base[(1..4) \ neg]
       IN [k \in DOMAIN turned |-> <<turned[k][1], turned[k][3], turned[k][2]>>]
==============================================================================
