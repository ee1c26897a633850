--------------------------- MODULE IsosurfaceProofs ---------------------------
(***************************************************************************)
(* Three theorems about the lattice and the mesh of Isosurface, for any box*)
(* of nodes, any field, any seeds and any order in which threads generate  *)
(* the vertices: when refining begins every edge across the surface has    *)
(* one vertex at the end where it says (LatticeIsComplete); the mesh is    *)
(* made of the triangles of all tetrahedra of the box that the surface     *)
(* crosses, or, from seeds, of some of them (MeshIsTheSurface); and what   *)
(* is returned without seeds ends nowhere in the bbox, however its         *)
(* vertices were clustered (EndsAtTheBbox).                                *)
(*                                                                         *)
(* First nodes: the packed list of vertices, and what folding the vertices *)
(* of one node into it gives.  Then the lattice as a whole: layers, and    *)
(* the pairs of nodes that are tracked.  Then LatticeInv, what holds at    *)
(* each pc, kept by each step.  Then the tetrahedra and their triangles,   *)
(* and last the halfedges of these: the opposite of each is in the same    *)
(* tetrahedron or over a face of it, and no two have the same.             *)
(***************************************************************************)
EXTENDS Isosurface, FiniteSetTheorems, SequenceTheorems, WellFoundedInduction, TLAPS

Coordinates == [1..3 -> Int]

\* An edge leads to another node and back; edges 0 to 6 lead to greater nodes, which are
\* in the same layer or the next.
LEMMA NeighborFacts ==
  ASSUME NEW lc \in Coordinates, NEW ei \in EdgeIndex
  PROVE  /\ Neighbor(lc, ei) \in Coordinates /\ Opposite(ei) \in EdgeIndex
         /\ Opposite(Opposite(ei)) = ei
         /\ Neighbor(Neighbor(lc, ei), Opposite(ei)) = lc
         /\ Neighbor(lc, ei) # lc
         /\ Less(lc, Neighbor(lc, ei)) <=> ei < 7
         /\ Less(Neighbor(lc, ei), lc) <=> ei >= 7
         /\ ei < 7 => Neighbor(lc, ei)[3] \in {lc[3], lc[3] + 1}
         /\ ei >= 7 => Neighbor(lc, ei)[3] \in {lc[3] - 1, lc[3]}
         /\ Opposite(ei) < 7 <=> ei >= 7
  <1>1. /\ Opposite(ei) \in EdgeIndex /\ Opposite(Opposite(ei)) = ei
        /\ Opposite(ei) = IF ei < 7 THEN ei + 7 ELSE ei - 7
    BY DEF Opposite, EdgeIndex
  <1>2. /\ Deltas = <<<<1, 0, 0>>, <<1, 0, 1>>, <<0, 0, 1>>, <<1, 1, 0>>, <<1, 1, 1>>, <<0, 1, 1>>, <<0, 1, 0>>>>
    BY DEF Deltas
  <1>3. ASSUME NEW d \in 1..7
        PROVE  /\ Deltas[d][1] \in 0..1 /\ Deltas[d][2] \in 0..1 /\ Deltas[d][3] \in 0..1
               /\ Deltas[d][1] = 1 \/ Deltas[d][2] = 1 \/ Deltas[d][3] = 1
    BY <1>2
  <1>. DEFINE n == Neighbor(lc, ei)
  <1>4. CASE ei < 7
    <2>1. ei + 1 \in 1..7 /\ Opposite(ei) - 6 = ei + 1 /\ ~(Opposite(ei) < 7)
      BY <1>1, <1>4 DEF EdgeIndex
    <2>2. n = [c \in 1..3 |-> lc[c] + Deltas[ei + 1][c]]
      BY <1>4 DEF Neighbor
    <2>3. PICK dx \in 0..1, dy \in 0..1, dz \in 0..1 :
            /\ dx = Deltas[ei + 1][1] /\ dy = Deltas[ei + 1][2] /\ dz = Deltas[ei + 1][3]
            /\ dx = 1 \/ dy = 1 \/ dz = 1
      BY <1>3, <2>1
    <2>4. n[1] = lc[1] + dx /\ n[2] = lc[2] + dy /\ n[3] = lc[3] + dz /\ n \in Coordinates
      <3>1. \A c \in 1..3 : Deltas[ei + 1][c] \in Int
        BY <2>3
      <3>. QED BY <2>2, <2>3, <3>1 DEF Coordinates
    <2>5. Neighbor(n, Opposite(ei)) = [c \in 1..3 |-> n[c] - Deltas[ei + 1][c]]
      BY <2>1 DEF Neighbor
    <2>6. Neighbor(n, Opposite(ei)) = lc
      <3>1. \A c \in 1..3 : n[c] - Deltas[ei + 1][c] = lc[c]
        <4>. TAKE c \in 1..3
        <4>. c = 1 \/ c = 2 \/ c = 3
          OBVIOUS
        <4>. QED BY <2>3, <2>4 DEF Coordinates
      <3>. QED BY <2>5, <3>1 DEF Coordinates
    <2>. HIDE DEF n
    <2>7. lc[1] \in Int /\ lc[2] \in Int /\ lc[3] \in Int
      BY DEF Coordinates
    <2>8. n # lc /\ Less(lc, n) /\ ~Less(n, lc) /\ n[3] \in {lc[3], lc[3] + 1}
      BY <2>3, <2>4, <2>7 DEF Less
    <2>. QED BY <1>1, <1>4, <2>1, <2>4, <2>6, <2>8 DEF n, EdgeIndex
  <1>5. CASE ~(ei < 7)
    <2>1. ei - 6 \in 1..7 /\ Opposite(ei) + 1 = ei - 6 /\ Opposite(ei) < 7 /\ ei >= 7
      BY <1>1, <1>5 DEF EdgeIndex
    <2>2. n = [c \in 1..3 |-> lc[c] - Deltas[ei - 6][c]]
      BY <1>5 DEF Neighbor
    <2>3. PICK dx \in 0..1, dy \in 0..1, dz \in 0..1 :
            /\ dx = Deltas[ei - 6][1] /\ dy = Deltas[ei - 6][2] /\ dz = Deltas[ei - 6][3]
            /\ dx = 1 \/ dy = 1 \/ dz = 1
      BY <1>3, <2>1
    <2>4. n[1] = lc[1] - dx /\ n[2] = lc[2] - dy /\ n[3] = lc[3] - dz /\ n \in Coordinates
      <3>1. \A c \in 1..3 : Deltas[ei - 6][c] \in Int
        BY <2>3
      <3>. QED BY <2>2, <2>3, <3>1 DEF Coordinates
    <2>5. Neighbor(n, Opposite(ei)) = [c \in 1..3 |-> n[c] + Deltas[ei - 6][c]]
      BY <2>1 DEF Neighbor
    <2>6. Neighbor(n, Opposite(ei)) = lc
      <3>1. \A c \in 1..3 : n[c] + Deltas[ei - 6][c] = lc[c]
        <4>. TAKE c \in 1..3
        <4>. c = 1 \/ c = 2 \/ c = 3
          OBVIOUS
        <4>. QED BY <2>3, <2>4 DEF Coordinates
      <3>. QED BY <2>5, <3>1 DEF Coordinates
    <2>. HIDE DEF n
    <2>7. lc[1] \in Int /\ lc[2] \in Int /\ lc[3] \in Int
      BY DEF Coordinates
    <2>8. n # lc /\ Less(n, lc) /\ ~Less(lc, n) /\ n[3] \in {lc[3], lc[3] - 1}
      BY <2>3, <2>4, <2>7 DEF Less
    <2>. QED BY <1>1, <1>5, <2>1, <2>4, <2>6, <2>8 DEF n
  <1>. QED BY <1>4, <1>5

-----------------------------------------------------------------------------
\* The vertices of a node are packed in the order of their edges.
Names == [node : Coordinates, ei : EdgeIndex]
GoodNode(n) ==
  /\ n = [near |-> n.near, all |-> n.all, vis |-> n.vis]
  /\ n.near \subseteq EdgeIndex /\ n.all \subseteq EdgeIndex
  /\ n.vis \in Seq(Names) /\ Len(n.vis) = Cardinality(n.near)
Below(S, e) == {a \in S : a < e}

\* Sets of edges are finite.
LEMMA EdgesFinite ==
  ASSUME NEW S \in SUBSET EdgeIndex
  PROVE  IsFiniteSet(S) /\ Cardinality(S) \in Nat
  <1>1. IsFiniteSet(EdgeIndex)
    <2>1. 0 \in Int /\ 13 \in Int
      OBVIOUS
    <2>2. IsFiniteSet(0..13)
      BY <2>1, FS_Interval
    <2>. QED BY <2>2 DEF EdgeIndex
  <1>2. IsFiniteSet(S)
    BY <1>1, FS_Subset
  <1>. QED BY <1>2, FS_CardinalityType

\* What one more edge does to the ranks of the others.
LEMMA Ranks ==
  ASSUME NEW S \in SUBSET EdgeIndex, NEW x \in EdgeIndex, x \notin S
  PROVE  LET T == S \cup {x}
             below(R, e) == Cardinality(Below(R, e))
         IN  /\ Cardinality(T) = Cardinality(S) + 1
             /\ below(S, x) \in Nat /\ below(S, x) <= Cardinality(S) /\ below(T, x) = below(S, x)
             /\ \A e \in S : below(S, e) \in Nat /\ below(S, e) < Cardinality(S)
             /\ \A e \in S : e < x => below(T, e) = below(S, e) /\ below(S, e) < below(S, x)
             /\ \A e \in S : ~(e < x) => below(T, e) = below(S, e) + 1 /\ below(S, x) <= below(S, e)
  <1>. DEFINE T == S \cup {x}
              below(R, e) == Cardinality(Below(R, e))
  <1>1. Cardinality(T) = Cardinality(S) + 1
    BY EdgesFinite, FS_AddElement
  <1>2. ASSUME NEW R \in SUBSET EdgeIndex, NEW e \in EdgeIndex
        PROVE  /\ Below(R, e) \in SUBSET R /\ IsFiniteSet(Below(R, e)) /\ below(R, e) \in Nat
               /\ below(R, e) <= Cardinality(R)
    <2>1. Below(R, e) \in SUBSET R /\ Below(R, e) \in SUBSET EdgeIndex
      BY DEF Below
    <2>. QED BY <2>1, EdgesFinite, FS_Subset
  <1>3. ASSUME NEW e \in S, NEW f \in EdgeIndex, e < f
        PROVE  below(S, e) < below(S, f)
    <2>1. Below(S, e) \cup {e} \in SUBSET Below(S, f) /\ e \notin Below(S, e) /\ e \in EdgeIndex
      <3>1. e \in Int /\ f \in Int /\ \A a \in S : a \in Int
        BY DEF EdgeIndex
      <3>2. e \in Below(S, f) /\ e \notin Below(S, e)
        BY <1>3, <3>1 DEF Below
      <3>3. \A a \in Below(S, e) : a \in Below(S, f)
        BY <1>3, <3>1 DEF Below
      <3>. QED BY <3>2, <3>3
    <2>2. Cardinality(Below(S, e) \cup {e}) = below(S, e) + 1
      BY <1>2, <2>1, FS_AddElement
    <2>3. Cardinality(Below(S, e) \cup {e}) <= below(S, f)
      BY <1>2, <2>1, FS_Subset
    <2>4. below(S, e) \in Nat /\ below(S, f) \in Nat
      BY <1>2, <2>1
    <2>. HIDE DEF below
    <2>. QED BY <2>2, <2>3, <2>4
  <1>4. ASSUME NEW e \in S PROVE below(S, e) < Cardinality(S)
    <2>1. Below(S, e) \cup {e} \in SUBSET S /\ e \notin Below(S, e)
      BY DEF Below, EdgeIndex
    <2>2. Cardinality(Below(S, e) \cup {e}) = below(S, e) + 1
      BY <1>2, <2>1, FS_AddElement
    <2>3. Cardinality(Below(S, e) \cup {e}) <= Cardinality(S)
      BY <2>1, EdgesFinite, FS_Subset
    <2>. QED BY <1>2, <2>2, <2>3, EdgesFinite
  <1>5. ASSUME NEW e \in EdgeIndex, e <= x PROVE Below(T, e) = Below(S, e)
    BY <1>5 DEF Below, EdgeIndex
  <1>6. ASSUME NEW e \in S, ~(e < x)
        PROVE  below(T, e) = below(S, e) + 1 /\ below(S, x) <= below(S, e)
    <2>0. e \in EdgeIndex /\ e # x
      OBVIOUS
    <2>1. e \in Int /\ x \in Int /\ x < e /\ \A a \in S : a \in Int
      BY <1>6, <2>0 DEF EdgeIndex
    <2>2. Below(T, e) = Below(S, e) \cup {x} /\ x \notin Below(S, e)
      BY <2>1 DEF Below
    <2>3. \A a \in Below(S, x) : a \in Below(S, e)
      BY <2>1 DEF Below
    <2>4. below(T, e) = below(S, e) + 1
      BY <1>2, <2>0, <2>2, FS_AddElement
    <2>5. below(S, x) <= below(S, e)
      BY <1>2, <2>0, <2>3, FS_Subset
    <2>. QED BY <2>4, <2>5
  <1>7. \A e \in S : e < x => e \in EdgeIndex /\ e <= x
    BY DEF EdgeIndex
  <1>8. x <= x
    BY DEF EdgeIndex
  <1>. QED BY <1>1, <1>2, <1>3, <1>4, <1>5, <1>6, <1>7, <1>8

\* The place of an edge in the packed list: behind the edges before it.
LEMMA RankIs == \A n, ei : Rank(n, ei) = 1 + Cardinality(Below(n.near, ei))
  BY DEF Rank, Below

\* An element that is put into a sequence, or taken out of it.
LEMMA PutIn ==
  ASSUME NEW S, NEW s \in Seq(S), NEW v \in S, NEW i \in 1..(Len(s) + 1)
  PROVE  LET t == InsertAt(s, i, v)
         IN  /\ t \in Seq(S) /\ Len(t) = Len(s) + 1 /\ t[i] = v
             /\ \A j \in 1..(i - 1) : t[j] = s[j]
             /\ \A j \in i..Len(s) : t[j + 1] = s[j]
  <1>. DEFINE a == SubSeq(s, 1, i - 1)
              b == SubSeq(s, i, Len(s))
              t == InsertAt(s, i, v)
  <1>0. Len(s) \in Nat /\ i \in Nat /\ 1 <= i /\ i <= Len(s) + 1
    OBVIOUS
  <1>1. a \in Seq(S) /\ Len(a) = i - 1 /\ \A j \in 1..(i - 1) : a[j] = s[j]
    BY <1>0
  <1>2. b \in Seq(S) /\ Len(b) = Len(s) - i + 1 /\ \A j \in 1..(Len(s) - i + 1) : b[j] = s[j + i - 1]
    BY <1>0
  <1>3. t = (a \o <<v>>) \o b
    BY DEF InsertAt
  <1>. HIDE DEF a, b, t
  <1>4. PICK c \in Seq(S) : c = a \o <<v>>
    <2>1. <<v>> \in Seq(S)
      OBVIOUS
    <2>. QED BY <1>1, <2>1, ConcatProperties
  <1>5. Len(c) = i /\ c[i] = v /\ \A j \in 1..(i - 1) : c[j] = s[j]
    BY <1>1, <1>4
  <1>6. t \in Seq(S) /\ Len(t) = Len(s) + 1
    <2>1. t \in Seq(S) /\ Len(t) = Len(c) + Len(b)
      BY <1>2, <1>3, <1>4, ConcatProperties
    <2>. QED BY <1>0, <1>2, <1>5, <2>1
  <1>7. /\ \A j \in 1..i : t[j] = c[j]
        /\ \A j \in (i + 1)..(Len(s) + 1) : t[j] = b[j - i]
    BY <1>0, <1>2, <1>3, <1>4, <1>5
  <1>8. \A j \in 1..(i - 1) : t[j] = s[j]
    BY <1>0, <1>5, <1>7
  <1>9. ASSUME NEW j \in i..Len(s) PROVE t[j + 1] = s[j]
    <2>1. t[j + 1] = b[j + 1 - i] /\ j + 1 - i \in 1..(Len(s) - i + 1)
      BY <1>0, <1>7
    <2>. QED BY <1>0, <1>2, <2>1
  <1>10. t[i] = v
    BY <1>5, <1>7
  <1>. QED BY <1>6, <1>8, <1>9, <1>10 DEF t

LEMMA TakenOut ==
  ASSUME NEW S, NEW s \in Seq(S), NEW i \in 1..Len(s)
  PROVE  LET t == RemoveAt(s, i)
         IN  /\ t \in Seq(S) /\ Len(t) = Len(s) - 1
             /\ \A j \in 1..Len(t) : j < i => t[j] = s[j]
             /\ \A j \in 1..Len(t) : ~(j < i) => t[j] = s[j + 1]
  <1>. DEFINE a == SubSeq(s, 1, i - 1)
              b == SubSeq(s, i + 1, Len(s))
              t == RemoveAt(s, i)
  <1>0. Len(s) \in Nat /\ i \in Nat /\ 1 <= i /\ i <= Len(s)
    OBVIOUS
  <1>1. a \in Seq(S) /\ Len(a) = i - 1 /\ \A j \in 1..(i - 1) : a[j] = s[j]
    BY <1>0
  <1>2. b \in Seq(S) /\ Len(b) = Len(s) - i /\ \A j \in 1..(Len(s) - i) : b[j] = s[j + i]
    BY <1>0
  <1>3. t = a \o b
    BY DEF RemoveAt
  <1>. HIDE DEF a, b, t
  <1>4. t \in Seq(S) /\ Len(t) = Len(s) - 1
    <2>1. a \in Seq(S) /\ b \in Seq(S) /\ Len(a) = i - 1 /\ Len(b) = Len(s) - i
      BY <1>1, <1>2
    <2>2. a \o b \in Seq(S) /\ Len(a \o b) = Len(a) + Len(b)
      BY <2>1, ConcatProperties, Zenon
    <2>. QED BY <1>0, <1>3, <2>1, <2>2
  <1>5. /\ \A j \in 1..(i - 1) : t[j] = a[j]
        /\ \A j \in i..(Len(s) - 1) : t[j] = b[j - i + 1]
    <2>1. \A j \in 1..(Len(a) + Len(b)) : t[j] = IF j <= Len(a) THEN a[j] ELSE b[j - Len(a)]
      <3>1. a \in Seq(S) /\ b \in Seq(S)
        BY <1>1, <1>2
      <3>. QED BY <1>3, <3>1, ConcatProperties, Zenon
    <2>2. \A j \in 1..(Len(s) - 1) : t[j] = IF j <= i - 1 THEN a[j] ELSE b[j - (i - 1)]
      BY <1>0, <1>1, <1>2, <2>1
    <2>3. \A j \in 1..(i - 1) : j \in 1..(Len(s) - 1) /\ j <= i - 1
      BY <1>0
    <2>4. \A j \in i..(Len(s) - 1) : j \in 1..(Len(s) - 1) /\ ~(j <= i - 1) /\ j - (i - 1) = j - i + 1
      BY <1>0
    <2>. QED BY <2>2, <2>3, <2>4
  <1>6. \A j \in 1..Len(t) : j < i => t[j] = s[j]
    BY <1>0, <1>1, <1>4, <1>5
  <1>7. ASSUME NEW j \in 1..Len(t), ~(j < i) PROVE t[j] = s[j + 1]
    <2>1. t[j] = b[j - i + 1] /\ j - i + 1 \in 1..(Len(s) - i)
      BY <1>0, <1>4, <1>5, <1>7
    <2>2. b[j - i + 1] = s[(j - i + 1) + i]
      BY <1>2, <2>1
    <2>3. (j - i + 1) + i = j + 1
      BY <1>0
    <2>. QED BY <2>1, <2>2, <2>3
  <1>. QED BY <1>4, <1>6, <1>7 DEF t

\* insert_vertex and remove_vertex leave the other vertices where they are found.
LEMMA Inserted ==
  ASSUME NEW n, GoodNode(n), NEW ei \in EdgeIndex, ei \notin n.near, NEW v \in Names
  PROVE  LET m == InsertVertex(n, v, ei)
         IN  /\ GoodNode(m) /\ m.near = n.near \cup {ei} /\ m.all = n.all
             /\ VertexAt(m, ei) = v
             /\ \A e \in n.near : VertexAt(m, e) = VertexAt(n, e)
  <1>. DEFINE m == InsertVertex(n, v, ei)
              i == Rank(n, ei)
  <1>1. n.near \in SUBSET EdgeIndex /\ Len(n.vis) = Cardinality(n.near) /\ n.vis \in Seq(Names)
    BY DEF GoodNode
  <1>2. /\ m.near = n.near \cup {ei} /\ m.all = n.all /\ m.vis = InsertAt(n.vis, i, v)
        /\ m = [near |-> m.near, all |-> m.all, vis |-> m.vis]
    <2>1. PICK a, b, c : n = [near |-> a, all |-> b, vis |-> c] /\ n.near = a /\ n.all = b /\ n.vis = c
      BY DEF GoodNode
    <2>2. PICK w : w = InsertAt(c, i, v)
      OBVIOUS
    <2>. HIDE DEF i
    <2>3. m = [n EXCEPT !.near = @ \cup {ei}, !.vis = w]
      BY <2>1, <2>2 DEF InsertVertex, i
    <2>. HIDE DEF m
    <2>4. m = [near |-> a \cup {ei}, all |-> b, vis |-> w]
      BY <2>1, <2>3
    <2>. QED BY <2>1, <2>2, <2>4
  <1>. DEFINE S == n.near
              below(R, e) == Cardinality(Below(R, e))
  <1>r. /\ \A e : Rank(n, e) = 1 + below(S, e)
        /\ \A e : Rank(m, e) = 1 + below(S \cup {ei}, e)
        /\ S \in SUBSET EdgeIndex /\ ei \notin S /\ Len(n.vis) = Cardinality(S) /\ i = Rank(n, ei)
    BY <1>1, <1>2, RankIs
  <1>. HIDE DEF m, i, S
  <1>s. /\ Cardinality(S \cup {ei}) = Cardinality(S) + 1
        /\ below(S, ei) \in Nat /\ below(S, ei) <= Cardinality(S)
        /\ below(S \cup {ei}, ei) = below(S, ei)
        /\ \A e \in S : below(S, e) \in Nat /\ below(S, e) < Cardinality(S)
        /\ \A e \in S : e < ei => below(S \cup {ei}, e) = below(S, e) /\ below(S, e) < below(S, ei)
        /\ \A e \in S : ~(e < ei) => below(S \cup {ei}, e) = below(S, e) + 1
                                     /\ below(S, ei) <= below(S, e)
    BY <1>r, Ranks
  <1>. HIDE DEF below
  <1>3. i \in Int /\ 1 <= i /\ i <= Len(n.vis) + 1 /\ Rank(m, ei) = i
    BY <1>r, <1>s
  <1>4. ASSUME NEW e \in S
        PROVE  /\ Rank(n, e) \in 1..Len(n.vis)
               /\ e < ei => Rank(m, e) = Rank(n, e) /\ Rank(n, e) < i
               /\ ~(e < ei) => Rank(m, e) = Rank(n, e) + 1 /\ ~(Rank(n, e) < i)
    <2>1. Cardinality(S) \in Nat /\ below(S, e) \in Nat /\ below(S, ei) \in Nat
      BY <1>r, <1>s, EdgesFinite
    <2>2. Rank(n, e) = 1 + below(S, e) /\ i = 1 + below(S, ei) /\ Rank(m, e) = 1 + below(S \cup {ei}, e)
      BY <1>r
    <2>3. Rank(n, e) \in 1..Len(n.vis)
      BY <1>r, <1>s, <2>1, <2>2
    <2>4. /\ e < ei => below(S \cup {ei}, e) = below(S, e) /\ below(S, e) < below(S, ei)
          /\ ~(e < ei) => below(S \cup {ei}, e) = below(S, e) + 1 /\ below(S, ei) <= below(S, e)
      BY <1>s
    <2>. HIDE DEF below
    <2>. QED BY <2>1, <2>2, <2>3, <2>4
  <1>5. /\ m.vis \in Seq(Names) /\ Len(m.vis) = Len(n.vis) + 1 /\ m.vis[i] = v
        /\ \A j \in 1..(i - 1) : m.vis[j] = n.vis[j]
        /\ \A j \in i..Len(n.vis) : m.vis[j + 1] = n.vis[j]
    <2>1. PICK s : s = n.vis /\ s \in Seq(Names)
      BY <1>1
    <2>2. m.vis = InsertAt(s, i, v) /\ i \in 1..(Len(s) + 1)
      BY <1>2, <1>3, <2>1
    <2>3. PICK t : t = InsertAt(s, i, v) /\ t = m.vis
      BY <2>2
    <2>4. v \in Names
      OBVIOUS
    <2>5. t \in Seq(Names) /\ Len(t) = Len(s) + 1
      BY <2>1, <2>2, <2>3, <2>4, PutIn
    <2>6. t[i] = v
      BY <2>1, <2>2, <2>3, <2>4, PutIn
    <2>7. \A j \in 1..(i - 1) : t[j] = s[j]
      BY <2>1, <2>2, <2>3, <2>4, PutIn
    <2>8. \A j \in i..Len(s) : t[j + 1] = s[j]
      BY <2>1, <2>2, <2>3, <2>4, PutIn
    <2>. QED BY <2>1, <2>3, <2>5, <2>6, <2>7, <2>8
  <1>6. GoodNode(m)
    BY <1>1, <1>2, <1>5, <1>r, <1>s DEF GoodNode, S
  <1>7. VertexAt(m, ei) = v
    BY <1>3, <1>5 DEF VertexAt
  <1>8. ASSUME NEW e \in n.near PROVE VertexAt(m, e) = VertexAt(n, e)
    <2>0. e \in S
      BY DEF S
    <2>1. PICK k \in 1..Len(n.vis) : k = Rank(n, e)
      BY <1>4, <2>0
    <2>2. k \in Nat /\ i \in Int /\ Len(n.vis) \in Nat
      BY <1>1, <1>3
    <2>3. CASE e < ei
      <3>1. Rank(m, e) = k /\ k \in 1..(i - 1)
        BY <1>4, <2>0, <2>1, <2>2, <2>3
      <3>. QED BY <1>5, <2>1, <3>1 DEF VertexAt
    <2>4. CASE ~(e < ei)
      <3>1. Rank(m, e) = k + 1 /\ k \in i..Len(n.vis)
        BY <1>4, <2>0, <2>1, <2>2, <2>4
      <3>. QED BY <1>5, <2>1, <3>1 DEF VertexAt
    <2>. QED BY <2>3, <2>4
  <1>. QED BY <1>2, <1>6, <1>7, <1>8 DEF m

\* remove_vertex: the other edges keep their vertices.
LEMMA RemovedVertex ==
  ASSUME NEW n, GoodNode(n), NEW ei \in n.near
  PROVE  LET m == RemoveVertex(n, ei)
         IN  /\ GoodNode(m) /\ m.near = n.near \ {ei} /\ m.all = n.all
             /\ \A e \in m.near : VertexAt(m, e) = VertexAt(n, e)
  <1>. DEFINE m == RemoveVertex(n, ei)
              i == Rank(n, ei)
              S == n.near \ {ei}
  <1>1. /\ n.near \in SUBSET EdgeIndex /\ Len(n.vis) = Cardinality(n.near) /\ n.vis \in Seq(Names)
        /\ S \in SUBSET EdgeIndex /\ ei \in EdgeIndex /\ ei \notin S /\ n.near = S \cup {ei}
    BY DEF GoodNode
  <1>2. /\ m.near = S /\ m.all = n.all /\ m.vis = RemoveAt(n.vis, i)
        /\ m = [near |-> m.near, all |-> m.all, vis |-> m.vis]
    <2>1. PICK a, b, c : n = [near |-> a, all |-> b, vis |-> c] /\ n.near = a /\ n.all = b /\ n.vis = c
      BY DEF GoodNode
    <2>2. PICK w : w = RemoveAt(c, i)
      OBVIOUS
    <2>. HIDE DEF i
    <2>3. m = [n EXCEPT !.near = @ \ {ei}, !.vis = w]
      BY <2>1, <2>2 DEF RemoveVertex, i
    <2>. HIDE DEF m
    <2>4. m = [near |-> a \ {ei}, all |-> b, vis |-> w]
      BY <2>1, <2>3
    <2>. QED BY <2>1, <2>2, <2>4
  <1>. HIDE DEF S
  <1>. DEFINE below(R, e) == Cardinality(Below(R, e))
  <1>r. /\ \A e : Rank(m, e) = 1 + below(S, e)
        /\ \A e : Rank(n, e) = 1 + below(S \cup {ei}, e)
        /\ i = Rank(n, ei) /\ Len(n.vis) = Cardinality(S \cup {ei})
    BY <1>1, <1>2, RankIs
  <1>. HIDE DEF m, i
  <1>s. /\ Cardinality(S \cup {ei}) = Cardinality(S) + 1
        /\ below(S, ei) \in Nat /\ below(S, ei) <= Cardinality(S)
        /\ below(S \cup {ei}, ei) = below(S, ei)
        /\ \A e \in S : below(S, e) \in Nat /\ below(S, e) < Cardinality(S)
        /\ \A e \in S : e < ei => below(S \cup {ei}, e) = below(S, e) /\ below(S, e) < below(S, ei)
        /\ \A e \in S : ~(e < ei) => below(S \cup {ei}, e) = below(S, e) + 1
                                     /\ below(S, ei) <= below(S, e)
    BY <1>1, Ranks
  <1>t. Cardinality(S) \in Nat
    BY <1>1, EdgesFinite
  <1>. HIDE DEF below
  <1>3. i \in 1..Len(n.vis) /\ Cardinality(S) \in Nat /\ Len(n.vis) = Cardinality(S) + 1
    <2>1. i = 1 + below(S, ei)
      BY <1>r, <1>s
    <2>. QED BY <1>r, <1>s, <1>t, <2>1
  <1>4. ASSUME NEW e \in S
        PROVE  /\ Rank(m, e) \in 1..Cardinality(S)
               /\ e < ei => Rank(m, e) = Rank(n, e) /\ Rank(m, e) < i
               /\ ~(e < ei) => Rank(n, e) = Rank(m, e) + 1 /\ ~(Rank(m, e) < i)
    <2>1. Cardinality(S) \in Nat /\ below(S, e) \in Nat /\ below(S, ei) \in Nat
      BY <1>s, <1>t
    <2>2. Rank(m, e) = 1 + below(S, e) /\ i = 1 + below(S, ei) /\ Rank(n, e) = 1 + below(S \cup {ei}, e)
      BY <1>r, <1>s
    <2>3. Rank(m, e) \in 1..Cardinality(S)
      BY <1>s, <2>1, <2>2
    <2>4. /\ e < ei => below(S \cup {ei}, e) = below(S, e) /\ below(S, e) < below(S, ei)
          /\ ~(e < ei) => below(S \cup {ei}, e) = below(S, e) + 1 /\ below(S, ei) <= below(S, e)
      BY <1>s
    <2>. HIDE DEF below
    <2>. QED BY <2>1, <2>2, <2>3, <2>4
  <1>5. /\ m.vis \in Seq(Names) /\ Len(m.vis) = Len(n.vis) - 1
        /\ \A j \in 1..Len(m.vis) : j < i => m.vis[j] = n.vis[j]
        /\ \A j \in 1..Len(m.vis) : ~(j < i) => m.vis[j] = n.vis[j + 1]
    <2>1. PICK s : s = n.vis /\ s \in Seq(Names)
      BY <1>1
    <2>2. m.vis = RemoveAt(s, i) /\ i \in 1..Len(s)
      BY <1>2, <1>3, <2>1
    <2>. QED BY <2>1, <2>2, TakenOut
  <1>6. GoodNode(m)
    BY <1>1, <1>2, <1>3, <1>5 DEF GoodNode
  <1>7. \A e \in S : VertexAt(m, e) = VertexAt(n, e)
    BY <1>3, <1>4, <1>5 DEF VertexAt
  <1>. QED BY <1>2, <1>6, <1>7 DEF m, S

-----------------------------------------------------------------------------
\* A set of natural numbers that is not empty has a least one.
LEMMA LeastNumber ==
  ASSUME NEW S \in SUBSET Nat, S # {}
  PROVE  \E i \in S : \A j \in S : i <= j
  <1>. DEFINE R == {p \in Nat \X Nat : p[1] < p[2]}
  <1>1. IsWellFoundedOn(R, Nat)
    BY NatLessThanWellFounded DEF OpToRel, R
  <1>. HIDE DEF R
  <1>2. PICK i \in S : \A j \in S : ~(<<j, i>> \in R)
    BY <1>1, WFMin
  <1>3. \A j \in S : ~(j < i)
    BY <1>2 DEF R
  <1>. QED BY <1>3

\* Of the two ends of an edge one is nearer to the surface.
LEMMA OneIsNear ==
  ASSUME field \in Fields, NEW lc \in Box, NEW ei \in EdgeIndex, Neighbor(lc, ei) \in Box
  PROVE  IsNear(lc, Neighbor(lc, ei)) <=> ~IsNear(Neighbor(lc, ei), lc)
  <1>1. PICK n \in Box : n = Neighbor(lc, ei)
    OBVIOUS
  <1>2. Less(n, lc) <=> ~Less(lc, n)
    <2>1. lc \in Coordinates /\ (ei >= 7 <=> ~(ei < 7))
      BY BoxAssumption DEF Coordinates, EdgeIndex
    <2>. QED BY <1>1, <2>1, NeighborFacts
  <1>3. PICK x \in Int, y \in Int : x = Abs(field[lc]) /\ y = Abs(field[n])
    <2>1. field[lc] \in Int /\ field[n] \in Int
      BY FieldsAssumption
    <2>. QED BY <2>1 DEF Abs
  <1>. QED BY <1>1, <1>2, <1>3 DEF IsNear

\* All edges come once in a schedule.
LEMMA ScheduleFacts ==
  ASSUME NEW schedule \in Schedules
  PROVE  /\ \A k \in 1..14 : schedule[k] \in EdgeIndex
         /\ \A k \in 1..14, j \in 1..14 : schedule[k] = schedule[j] => k = j
         /\ \A ei \in EdgeIndex : \E k \in 1..14 : schedule[k] = ei
  <1>1. CASE schedule = <<0, 1, 2, 3, 4, 5, 6, 7, 8, 9, 10, 11, 12, 13>>
    <2>1. \A k \in 1..14 : schedule[k] = k - 1
      BY <1>1
    <2>2. \A ei \in EdgeIndex : ei + 1 \in 1..14 /\ schedule[ei + 1] = ei
      BY <2>1 DEF EdgeIndex
    <2>. QED BY <2>1, <2>2 DEF EdgeIndex
  <1>2. CASE schedule = <<7, 8, 9, 10, 6, 5, 4, 3, 2, 1, 0, 11, 12, 13>>
    <2>1. \A k \in 1..14 : schedule[k] = IF k <= 4 THEN k + 6 ELSE IF k <= 11 THEN 11 - k ELSE k - 1
      BY <1>2
    <2>2. ASSUME NEW ei \in EdgeIndex PROVE \E k \in 1..14 : schedule[k] = ei
      <3>1. CASE ei <= 6
        <4>1. 11 - ei \in 1..14 /\ schedule[11 - ei] = ei
          BY <2>1, <3>1 DEF EdgeIndex
        <4>. QED BY <4>1
      <3>2. CASE ei >= 7 /\ ei <= 10
        <4>1. ei - 6 \in 1..14 /\ schedule[ei - 6] = ei
          BY <2>1, <3>2 DEF EdgeIndex
        <4>. QED BY <4>1
      <3>3. CASE ei >= 11
        <4>1. ei + 1 \in 1..14 /\ schedule[ei + 1] = ei
          BY <2>1, <3>3 DEF EdgeIndex
        <4>. QED BY <4>1
      <3>. QED BY <3>1, <3>2, <3>3 DEF EdgeIndex
    <2>. QED BY <2>1, <2>2 DEF EdgeIndex
  <1>. QED BY <1>1, <1>2 DEF Schedules

\* A node that has a vertex, with its own name, on each of some edges.
Filled(lc, n) ==
  GoodNode(n) /\ n.near \subseteq n.all /\ \A e \in n.near : VertexAt(n, e) = [node |-> lc, ei |-> e]

\* generate_vertices for one node: in whatever order the vertices come, each is found on
\* its edge.
LEMMA IntersectionsPacked ==
  ASSUME NEW lc \in Coordinates, NEW n, Filled(lc, n), NEW edges \in SUBSET EdgeIndex,
         edges \cap n.all = {}, NEW schedule \in Schedules
  PROVE  LET m == WithIntersections(lc, n, edges, schedule)
         IN  Filled(lc, m) /\ m.all = n.all \cup edges /\ m.near = n.near \cup NearOnes(lc, edges)
  <1>. DEFINE base == [n EXCEPT !.all = @ \cup edges]
              near == NearOnes(lc, edges)
              Turn(k, m) == IF schedule[k] \in near
                            THEN InsertVertex(m, [node |-> lc, ei |-> schedule[k]], schedule[k]) ELSE m
              Rec(f, j) == f = [k \in 0..j |-> IF k = 0 THEN base ELSE Turn(k, f[k - 1])]
  <1>1. near \in SUBSET EdgeIndex /\ near \subseteq edges
    BY DEF NearOnes
  <1>2. ASSUME NEW j \in Nat PROVE \E f : Rec(f, j)
    <2>. DEFINE Bad == {k \in Nat : ~\E f : Rec(f, k)}
    <2>1. SUFFICES ASSUME Bad # {} PROVE FALSE
      OBVIOUS
    <2>2. PICK k \in Bad : \A i \in Bad : k <= i
      BY <2>1, LeastNumber
    <2>. HIDE DEF Turn, base
    <2>3. CASE k = 0
      <3>1. Rec([i \in 0..0 |-> base], 0)
        OBVIOUS
      <3>. QED BY <2>2, <2>3, <3>1
    <2>4. CASE k # 0
      <3>1. k - 1 \in Nat /\ k - 1 \notin Bad
        <4>1. k \in Nat /\ \A i \in Bad : i \in Nat
          BY <2>2
        <4>. HIDE DEF Bad
        <4>. QED BY <2>2, <2>4, <4>1
      <3>2. PICK f : Rec(f, k - 1)
        BY <3>1
      <3>. DEFINE g == [i \in 0..k |-> IF i < k THEN f[i] ELSE Turn(k, f[k - 1])]
      <3>3. ASSUME NEW i \in 0..k PROVE g[i] = IF i = 0 THEN base ELSE Turn(i, g[i - 1])
        <4>1. CASE i = 0
          BY <3>2, <4>1, <2>4, <2>2
        <4>2. CASE i # 0 /\ i < k
          <5>1. i \in 0..(k - 1) /\ i - 1 \in 0..k /\ i - 1 < k
            BY <4>2, <3>1
          <5>. QED BY <3>2, <4>2, <5>1
        <4>3. CASE i = k
          <5>1. i - 1 \in 0..k /\ i - 1 < k /\ i # 0
            BY <4>3, <3>1, <2>4
          <5>. QED BY <4>3, <5>1
        <4>. QED BY <4>1, <4>2, <4>3
      <3>4. Rec(g, k)
        BY <3>3
      <3>. QED BY <2>2, <3>4
    <2>. QED BY <2>3, <2>4
  <1>3. PICK upTo : upTo = (CHOOSE f : Rec(f, 14))
    OBVIOUS
  <1>4. Rec(upTo, 14)
    BY <1>2, <1>3
  <1>5. WithIntersections(lc, n, edges, schedule) = upTo[14]
    BY <1>3 DEF WithIntersections
  <1>6. upTo[0] = base /\ \A k \in 1..14 : upTo[k] = Turn(k, upTo[k - 1])
    <2>. HIDE DEF base, Turn
    <2>1. \A k \in 0..14 : upTo[k] = IF k = 0 THEN base ELSE Turn(k, upTo[k - 1])
      BY <1>4
    <2>. QED BY <2>1
  <1>. DEFINE some(k) == {ei \in near : \E j \in 1..k : schedule[j] = ei}
              Right(k) == /\ Filled(lc, upTo[k]) /\ upTo[k].all = n.all \cup edges
                          /\ upTo[k].near = n.near \cup some(k)
  <1>7. Right(0)
    <2>1. PICK a, b, c : n = [near |-> a, all |-> b, vis |-> c] /\ n.near = a /\ n.all = b /\ n.vis = c
      BY DEF Filled, GoodNode
    <2>2. base = [near |-> a, all |-> b \cup edges, vis |-> c]
      BY <2>1
    <2>3. PICK m : m = base
      OBVIOUS
    <2>4. m.near = n.near /\ m.vis = n.vis /\ m.all = n.all \cup edges
      BY <2>1, <2>2, <2>3
    <2>5. GoodNode(m)
      BY <2>1, <2>2, <2>3, <2>4 DEF Filled, GoodNode
    <2>6. \A e : VertexAt(m, e) = VertexAt(n, e)
      BY <2>4 DEF VertexAt, Rank
    <2>7. Filled(lc, m)
      BY <2>4, <2>5, <2>6 DEF Filled
    <2>8. some(0) = {}
      OBVIOUS
    <2>. QED BY <1>6, <2>3, <2>4, <2>7, <2>8
  <1>8. ASSUME NEW k \in 1..14, Right(k - 1) PROVE Right(k)
    <2>1. PICK p, m, ei : p = upTo[k - 1] /\ m = upTo[k] /\ ei = schedule[k]
      OBVIOUS
    <2>2. ei \in EdgeIndex /\ m = IF ei \in near THEN InsertVertex(p, [node |-> lc, ei |-> ei], ei) ELSE p
      BY <1>6, <2>1, ScheduleFacts
    <2>3. Filled(lc, p) /\ p.all = n.all \cup edges /\ p.near = n.near \cup some(k - 1)
      BY <1>8, <2>1
    <2>4. some(k) = IF ei \in near THEN some(k - 1) \cup {ei} ELSE some(k - 1)
      <3>1. \A j \in Int : j \in 1..k <=> j \in 1..(k - 1) \/ j = k
        OBVIOUS
      <3>. QED BY <2>1, <3>1
    <2>5. ei \notin some(k - 1)
      <3>1. \A j \in 1..(k - 1) : j \in 1..14 /\ j # k
        OBVIOUS
      <3>. QED BY <2>1, <3>1, ScheduleFacts
    <2>6. CASE ei \in near
      <3>1. ei \notin p.near
        BY <1>1, <2>3, <2>5, <2>6 DEF Filled
      <3>2. [node |-> lc, ei |-> ei] \in Names
        BY <2>2 DEF Names
      <3>3. PICK v : v = [node |-> lc, ei |-> ei]
        OBVIOUS
      <3>4. m = InsertVertex(p, v, ei)
        BY <2>2, <2>6, <3>3
      <3>5. /\ GoodNode(m) /\ m.near = p.near \cup {ei} /\ m.all = p.all /\ VertexAt(m, ei) = v
            /\ \A e \in p.near : VertexAt(m, e) = VertexAt(p, e)
        BY <2>2, <2>3, <3>1, <3>2, <3>3, <3>4, Inserted DEF Filled
      <3>6. Filled(lc, m)
        BY <1>1, <2>3, <2>6, <3>3, <3>5 DEF Filled
      <3>. QED BY <2>1, <2>3, <2>4, <2>6, <3>5, <3>6
    <2>7. CASE ei \notin near
      BY <2>1, <2>2, <2>3, <2>4, <2>7
    <2>. QED BY <2>6, <2>7
  <1>9. Right(14)
    <2>. DEFINE Bad == {k \in 0..14 : ~Right(k)}
    <2>. HIDE DEF Right
    <2>1. SUFFICES ASSUME Bad # {} PROVE FALSE
      OBVIOUS
    <2>2. PICK k \in Bad : \A i \in Bad : k <= i
      <3>1. Bad \in SUBSET Nat
        OBVIOUS
      <3>. QED BY <2>1, <3>1, LeastNumber
    <2>3. k \in 1..14
      BY <1>7, <2>2
    <2>4. Right(k - 1)
      BY <2>2, <2>3
    <2>. QED BY <1>8, <2>2, <2>3, <2>4
  <1>10. some(14) = near
    BY <1>1, ScheduleFacts
  <1>. QED BY <1>5, <1>9, <1>10

-----------------------------------------------------------------------------
\* The edges of a node across the surface that lead to nodes in D.
EdgesAcross(D, lc) == {ei \in EdgeIndex : Neighbor(lc, ei) \in D /\ Crossed(lc, Neighbor(lc, ei))}

\* What holds of the lattice when all vertices are there: the nodes know their edges
\* across the surface, and each such edge has its vertex at one end, whichever it is.
PlacedAt(ns, lc) ==
  /\ GoodNode(ns[lc]) /\ ns[lc].all = EdgesAcross(DOMAIN ns, lc) /\ ns[lc].near \subseteq ns[lc].all
  /\ \A ei \in ns[lc].near : VertexAt(ns[lc], ei) = VertexOf([node |-> lc, ei |-> ei])
  /\ \A ei \in ns[lc].all : ei \in ns[lc].near <=> Opposite(ei) \notin ns[Neighbor(lc, ei)].near
Placed(ns, vs) ==
  /\ ns = [lc \in DOMAIN ns |-> ns[lc]] /\ DOMAIN ns \subseteq Box
  /\ vs = {v \in Names : /\ v.node \in DOMAIN ns /\ v.ei \in EdgesAcross(DOMAIN ns, v.node)
                         /\ IsNear(v.node, Neighbor(v.node, v.ei))}
  /\ \A lc \in DOMAIN ns : PlacedAt(ns, lc)

\* A vertex that changes over to the other end of its edge.
LEMMA Moved ==
  ASSUME field \in Fields, NEW ns, NEW vs, Placed(ns, vs), NEW v \in vs, v.ei \in ns[v.node].near
  PROVE  LET ms == MoveVertex(v, ns)
         IN  /\ Placed(ms, vs) /\ DOMAIN ms = DOMAIN ns
             /\ \A w \in vs \ {v} : w.ei \in ns[w.node].near => w.ei \in ms[w.node].near
  <1>1. PICK a, e, b, f : /\ a = v.node /\ e = v.ei /\ b = Neighbor(a, e) /\ f = Opposite(e)
    OBVIOUS
  <1>. DEFINE D == DOMAIN ns
              na == RemoveVertex(ns[a], e)
              nb == InsertVertex(ns[b], v, f)
              ms == MoveVertex(v, ns)
  <1>2. /\ v \in Names /\ v = [node |-> a, ei |-> e] /\ a \in D /\ e \in EdgesAcross(D, a)
        /\ IsNear(a, b)
    BY <1>1 DEF Placed, Names
  <1>3. \A lc \in D : lc \in Box /\ lc \in Coordinates
    BY BoxAssumption DEF Placed, Coordinates
  <1>4. e \in EdgeIndex /\ b \in D /\ Crossed(a, b)
    BY <1>1, <1>2 DEF EdgesAcross
  <1>5. f \in EdgeIndex /\ Opposite(f) = e /\ Neighbor(b, f) = a /\ b # a
    BY <1>1, <1>2, <1>3, <1>4, NeighborFacts
  <1>6. \A lc \in D : PlacedAt(ns, lc)
    BY DEF Placed
  <1>7. e \in ns[a].near /\ e \in ns[a].all /\ f \notin ns[b].near
    BY <1>1, <1>2, <1>6 DEF PlacedAt
  <1>8. OtherEnd(v) = [node |-> b, ei |-> f] /\ OtherEnd(v).node = b
    BY <1>1 DEF OtherEnd
  <1>9. /\ ms = [lc \in D |-> IF lc = a THEN na ELSE IF lc = b THEN nb ELSE ns[lc]]
    <2>1. ms = [ns EXCEPT ![a] = na, ![b] = nb]
      BY <1>1, <1>5, <1>8 DEF MoveVertex
    <2>2. ns = [lc \in D |-> ns[lc]]
      BY DEF Placed
    <2>. HIDE DEF ms, na, nb
    <2>. QED BY <1>2, <1>4, <1>5, <2>1, <2>2
  <1>10. /\ GoodNode(na) /\ na.near = ns[a].near \ {e} /\ na.all = ns[a].all
         /\ \A ei \in na.near : VertexAt(na, ei) = VertexAt(ns[a], ei)
    <2>1. GoodNode(ns[a])
      BY <1>2, <1>6 DEF PlacedAt
    <2>. QED BY <1>7, <2>1, RemovedVertex
  <1>11. /\ GoodNode(nb) /\ nb.near = ns[b].near \cup {f} /\ nb.all = ns[b].all
         /\ VertexAt(nb, f) = v
         /\ \A ei \in ns[b].near : VertexAt(nb, ei) = VertexAt(ns[b], ei)
    <2>1. GoodNode(ns[b])
      BY <1>4, <1>6 DEF PlacedAt
    <2>. QED BY <1>2, <1>5, <1>7, <2>1, Inserted
  <1>. HIDE DEF na, nb, ms
  <1>12. DOMAIN ms = D /\ ms[a] = na /\ ms[b] = nb /\ \A lc \in D \ {a, b} : ms[lc] = ns[lc]
    BY <1>2, <1>4, <1>5, <1>9
  <1>13. \A lc \in D : \A ei : ei \in ms[lc].near <=>
           \/ lc = b /\ ei = f
           \/ ei \in ns[lc].near /\ ~(lc = a /\ ei = e)
    BY <1>5, <1>10, <1>11, <1>12
  <1>14. \A lc \in D : ms[lc].all = ns[lc].all /\ GoodNode(ms[lc])
    BY <1>6, <1>10, <1>11, <1>12 DEF PlacedAt
  <1>15. ASSUME NEW lc \in D PROVE PlacedAt(ms, lc)
    <2>0. PlacedAt(ns, lc)
      BY <1>6
    <2>1. ms[lc].all = EdgesAcross(DOMAIN ms, lc)
      BY <1>12, <1>14, <2>0 DEF PlacedAt
    <2>2. f \in ns[b].all
      <3>1. Crossed(b, a)
        BY <1>4 DEF Crossed
      <3>2. f \in EdgesAcross(D, b)
        BY <1>2, <1>5, <3>1 DEF EdgesAcross
      <3>. QED BY <1>4, <1>6, <3>2 DEF PlacedAt
    <2>3. ms[lc].near \subseteq ms[lc].all
      BY <1>13, <1>14, <2>0, <2>2 DEF PlacedAt
    <2>4. ASSUME NEW ei \in ms[lc].near PROVE VertexAt(ms[lc], ei) = VertexOf([node |-> lc, ei |-> ei])
      <3>1. CASE lc = b /\ ei = f
        <4>1. ~IsNear(b, a)
          BY <1>1, <1>2, <1>3, <1>4, OneIsNear
        <4>2. PICK w : w = [node |-> b, ei |-> f]
          OBVIOUS
        <4>3. OtherEnd(w) = v /\ OtherEnd(w).node = a /\ w.node = b
          BY <1>2, <1>5, <4>2 DEF OtherEnd
        <4>4. VertexOf(w) = v
          BY <4>1, <4>3 DEF VertexOf
        <4>. QED BY <1>11, <1>12, <3>1, <4>2, <4>4
      <3>2. CASE ~(lc = b /\ ei = f)
        <4>1. ei \in ns[lc].near /\ ~(lc = a /\ ei = e)
          BY <1>13, <3>2
        <4>2. VertexAt(ms[lc], ei) = VertexAt(ns[lc], ei)
          <5>1. CASE lc = a
            BY <1>10, <1>12, <4>1, <5>1
          <5>2. CASE lc = b
            BY <1>11, <1>12, <4>1, <5>2
          <5>3. CASE lc \notin {a, b}
            BY <1>12, <5>3
          <5>. QED BY <5>1, <5>2, <5>3
        <4>. QED BY <2>0, <4>1, <4>2 DEF PlacedAt
      <3>. QED BY <3>1, <3>2
    <2>5. ASSUME NEW ei \in ms[lc].all
          PROVE  ei \in ms[lc].near <=> Opposite(ei) \notin ms[Neighbor(lc, ei)].near
      <3>1. PICK lc1, ei1 : lc1 = Neighbor(lc, ei) /\ ei1 = Opposite(ei)
        OBVIOUS
      <3>2. /\ ei \in ns[lc].all /\ ei \in EdgeIndex /\ lc1 \in D
            /\ ei \in ns[lc].near <=> ei1 \notin ns[lc1].near
        BY <1>14, <2>0, <3>1 DEF PlacedAt, EdgesAcross
      <3>3. Opposite(ei1) = ei /\ Neighbor(lc1, ei1) = lc
        BY <1>3, <3>1, <3>2, NeighborFacts
      <3>4. lc = a /\ ei = e <=> lc1 = b /\ ei1 = f
        BY <1>1, <1>5, <3>1, <3>3
      <3>5. lc = b /\ ei = f <=> lc1 = a /\ ei1 = e
        BY <1>1, <1>5, <3>1, <3>3
      <3>. QED BY <1>5, <1>13, <3>1, <3>2, <3>4, <3>5
    <2>. QED BY <1>14, <2>1, <2>3, <2>4, <2>5 DEF PlacedAt
  <1>16. ms = [lc \in DOMAIN ms |-> ms[lc]]
    BY <1>9, <1>12
  <1>17. Placed(ms, vs)
    BY <1>12, <1>15, <1>16 DEF Placed
  <1>18. ASSUME NEW w \in vs \ {v}, w.ei \in ns[w.node].near PROVE w.ei \in ms[w.node].near
    <2>1. w \in Names /\ w.node \in D
      BY DEF Placed
    <2>2. ~(w.node = a /\ w.ei = e)
      BY <1>2, <2>1 DEF Names
    <2>. QED BY <1>13, <1>18, <2>1, <2>2
  <1>. QED BY <1>12, <1>17, <1>18 DEF ms

\* refine_vertices moves vertices one after the other, each at most once.
LEMMA Refined ==
  ASSUME field \in Fields, NEW ns, NEW vs, Placed(ns, vs), \A v \in vs : v.ei \in ns[v.node].near,
         NEW M \in SUBSET vs, IsFiniteSet(M)
  PROVE  LET r == FoldSet(MoveVertex, ns, M)
         IN  Placed(r, vs) /\ DOMAIN r = DOMAIN ns
  <1>. DEFINE first(S) == CHOOSE x \in S : TRUE
              Turn(S, f) == IF S = {} THEN ns ELSE MoveVertex(first(S), f[S \ {first(S)}])
              Small(n) == {S \in SUBSET M : Cardinality(S) <= n}
              Rec(f, n) == f = [S \in Small(n) |-> Turn(S, f)]
  <1>1. ASSUME NEW S \in SUBSET M
        PROVE  /\ IsFiniteSet(S) /\ Cardinality(S) \in Nat /\ Cardinality(S) <= Cardinality(M)
               /\ S = {} <=> Cardinality(S) = 0
               /\ S # {} => /\ first(S) \in S /\ S \ {first(S)} \in SUBSET M
                            /\ Cardinality(S \ {first(S)}) = Cardinality(S) - 1
    <2>1. IsFiniteSet(S) /\ Cardinality(S) \in Nat /\ Cardinality(S) <= Cardinality(M)
      BY FS_Subset, FS_CardinalityType
    <2>2. S = {} <=> Cardinality(S) = 0
      BY <2>1, FS_EmptySet
    <2>3. S # {} => first(S) \in S
      OBVIOUS
    <2>4. \A x \in S : Cardinality(S \ {x}) = Cardinality(S) - 1
      BY <2>1, FS_RemoveElement
    <2>. QED BY <2>1, <2>2, <2>3, <2>4
  <1>. HIDE DEF first
  <1>2. ASSUME NEW n \in Nat PROVE \E f : Rec(f, n)
    <2>. DEFINE Bad == {k \in Nat : ~\E f : Rec(f, k)}
    <2>1. SUFFICES ASSUME Bad # {} PROVE FALSE
      OBVIOUS
    <2>2. PICK k \in Bad : \A i \in Bad : k <= i
      BY <2>1, LeastNumber
    <2>3. k \in Nat /\ ~\E f : Rec(f, k)
      BY <2>2
    <2>. HIDE DEF Turn
    <2>4. CASE k = 0
      <3>1. ASSUME NEW S \in Small(0) PROVE S = {}
        <4>1. S \in SUBSET M /\ Cardinality(S) <= 0
          OBVIOUS
        <4>2. Cardinality(S) \in Nat
          BY <1>1, <4>1
        <4>3. Cardinality(S) = 0
          BY <4>1, <4>2
        <4>. QED BY <1>1, <4>1, <4>3
      <3>2. Rec([S \in Small(0) |-> ns], 0)
        BY <3>1 DEF Turn
      <3>. QED BY <2>3, <2>4, <3>2
    <2>5. CASE k # 0
      <3>1. PICK f : Rec(f, k - 1)
        <4>1. k - 1 \in Nat /\ k - 1 \notin Bad
          <5>1. \A i \in Bad : i \in Nat
            OBVIOUS
          <5>. HIDE DEF Bad
          <5>. QED BY <2>2, <2>3, <2>5, <5>1
        <4>. QED BY <4>1
      <3>. DEFINE g == [S \in Small(k) |-> IF Cardinality(S) < k THEN f[S] ELSE Turn(S, f)]
      <3>2. ASSUME NEW S \in Small(k) PROVE g[S] = Turn(S, g)
        <4>1. S \in SUBSET M /\ Cardinality(S) <= k
          OBVIOUS
        <4>2. g[S] = Turn(S, f)
          <5>1. CASE Cardinality(S) < k
            <6>0. Cardinality(S) \in Nat
              BY <1>1, <4>1
            <6>1. Cardinality(S) <= k - 1
              BY <2>3, <5>1, <6>0
            <6>. S \in Small(k - 1)
              BY <4>1, <6>1
            <6>. HIDE DEF Small
            <6>2. f[S] = Turn(S, f)
              BY <3>1
            <6>. QED BY <5>1, <6>2
          <5>2. CASE ~(Cardinality(S) < k)
            BY <5>2
          <5>. QED BY <5>1, <5>2
        <4>3. S # {} => g[S \ {first(S)}] = f[S \ {first(S)}]
          <5>1. SUFFICES ASSUME S # {} PROVE g[S \ {first(S)}] = f[S \ {first(S)}]
            OBVIOUS
          <5>2. PICK R : R = S \ {first(S)}
            OBVIOUS
          <5>3. R \in SUBSET M /\ Cardinality(R) = Cardinality(S) - 1 /\ Cardinality(S) \in Nat
            BY <1>1, <4>1, <5>1, <5>2
          <5>4. R \in Small(k) /\ Cardinality(R) < k
            BY <2>3, <4>1, <5>3
          <5>. HIDE DEF Small
          <5>. QED BY <5>2, <5>4
        <4>. HIDE DEF g
        <4>. QED BY <4>2, <4>3 DEF Turn
      <3>3. g = [S \in Small(k) |-> g[S]]
        OBVIOUS
      <3>4. Rec(g, k)
        <4>. HIDE DEF g, Small
        <4>. QED BY <3>2, <3>3
      <3>. QED BY <2>3, <3>4
    <2>. QED BY <2>4, <2>5
  <1>3. Small(Cardinality(M)) = SUBSET M
    BY <1>1
  <1>4. PICK iter : iter = (CHOOSE f : f = [S \in SUBSET M |-> Turn(S, f)])
    OBVIOUS
  <1>5. iter = [S \in SUBSET M |-> Turn(S, iter)]
    <2>1. Cardinality(M) \in Nat
      BY <1>1
    <2>2. \E f : Rec(f, Cardinality(M))
      BY <1>2, <2>1
    <2>. HIDE DEF Turn
    <2>3. \E f : f = [S \in SUBSET M |-> Turn(S, f)]
      BY <1>3, <2>2
    <2>. QED BY <1>4, <2>3
  <1>6. FoldSet(MoveVertex, ns, M) = iter[M]
    BY <1>4 DEF FoldSet, MapThenFoldSet, first
  <1>. DEFINE Right(S) == /\ Placed(iter[S], vs) /\ DOMAIN iter[S] = DOMAIN ns
                          /\ \A v \in vs \ S : v.ei \in iter[S][v.node].near
  <1>7. ASSUME NEW S \in SUBSET M, S # {}, Right(S \ {first(S)}) PROVE Right(S)
    <2>1. PICK v, R, rs : v = first(S) /\ R = S \ {v} /\ rs = iter[R]
      OBVIOUS
    <2>2. iter[S] = MoveVertex(v, rs)
      BY <1>5, <1>7, <2>1
    <2>3. v \in vs /\ v \in S /\ v \notin R
      BY <1>1, <1>7, <2>1
    <2>4. /\ Placed(rs, vs) /\ DOMAIN rs = DOMAIN ns
          /\ \A w \in vs \ R : w.ei \in rs[w.node].near
      BY <1>7, <2>1
    <2>5. PICK ms : ms = MoveVertex(v, rs)
      OBVIOUS
    <2>6. /\ Placed(ms, vs) /\ DOMAIN ms = DOMAIN rs
          /\ \A w \in vs \ {v} : w.ei \in rs[w.node].near => w.ei \in ms[w.node].near
      BY <2>3, <2>4, <2>5, Moved
    <2>7. \A w \in vs \ S : w \in vs \ R /\ w \in vs \ {v}
      BY <2>1, <2>3
    <2>. QED BY <2>2, <2>4, <2>5, <2>6, <2>7
  <1>8. Right(M)
    <2>. DEFINE Bad == {n \in Nat : \E S \in SUBSET M : Cardinality(S) = n /\ ~Right(S)}
    <2>. HIDE DEF Right
    <2>1. SUFFICES ASSUME ~Right(M) PROVE FALSE
      OBVIOUS
    <2>2. Bad # {} /\ Bad \in SUBSET Nat
      BY <1>1, <2>1
    <2>3. PICK n \in Bad : \A i \in Bad : n <= i
      BY <2>2, LeastNumber
    <2>4. PICK S \in SUBSET M : Cardinality(S) = n /\ ~Right(S)
      BY <2>3
    <2>5. S # {}
      <3>1. iter[{}] = ns
        BY <1>5
      <3>2. Right({})
        BY <3>1 DEF Right
      <3>. QED BY <2>4, <3>2
    <2>6. PICK R : R = S \ {first(S)}
      OBVIOUS
    <2>7. R \in SUBSET M /\ Cardinality(R) \in Nat /\ Cardinality(R) = n - 1 /\ n \in Nat
      BY <1>1, <2>4, <2>5, <2>6
    <2>8. Right(R)
      <3>1. Cardinality(R) \notin Bad
        <4>. HIDE DEF Bad
        <4>. QED BY <2>3, <2>7
      <3>. QED BY <2>7, <3>1
    <2>. QED BY <1>7, <2>4, <2>5, <2>6, <2>8
  <1>. QED BY <1>6, <1>8

\* A lattice with all its vertices has what get_mesh asks for.
LEMMA PlacedVertices ==
  ASSUME field \in Fields, pc \in {"refine", "cluster"} => Placed(nodes, vertices)
  PROVE  EdgesHaveTheirVertex
  <1>. SUFFICES ASSUME Placed(nodes, vertices), NEW lc \in DOMAIN nodes
                PROVE  /\ Len(nodes[lc].vis) = Cardinality(nodes[lc].near)
                       /\ nodes[lc].near \subseteq nodes[lc].all
                       /\ \A ei \in EdgeIndex :
                            LET e == [node |-> lc, ei |-> ei]
                                here == HasVertex(nodes[lc], ei)
                            IN /\ here => VertexAt(nodes[lc], ei) \in vertices \cap {e, OtherEnd(e)}
                               /\ OtherEnd(e).node \in DOMAIN nodes =>
                                    /\ Crossed(lc, OtherEnd(e).node) <=>
                                         (here # HasVertex(nodes[OtherEnd(e).node], Opposite(ei)))
                                    /\ ~(here /\ HasVertex(nodes[OtherEnd(e).node], Opposite(ei)))
    BY DEF EdgesHaveTheirVertex
  <1>. DEFINE D == DOMAIN nodes
  <1>1. PlacedAt(nodes, lc) /\ D \subseteq Box
    BY DEF Placed
  <1>2. ASSUME NEW ei \in EdgeIndex
        PROVE LET e == [node |-> lc, ei |-> ei]
                  here == HasVertex(nodes[lc], ei)
              IN /\ here => VertexAt(nodes[lc], ei) \in vertices \cap {e, OtherEnd(e)}
                 /\ OtherEnd(e).node \in DOMAIN nodes =>
                      /\ Crossed(lc, OtherEnd(e).node) <=>
                           (here # HasVertex(nodes[OtherEnd(e).node], Opposite(ei)))
                      /\ ~(here /\ HasVertex(nodes[OtherEnd(e).node], Opposite(ei)))
    <2>1. PICK lc1, ei1, e, o : /\ lc1 = Neighbor(lc, ei) /\ ei1 = Opposite(ei)
                                /\ e = [node |-> lc, ei |-> ei] /\ o = [node |-> lc1, ei |-> ei1]
      OBVIOUS
    <2>2. OtherEnd(e) = o /\ o.node = lc1 /\ o.ei = ei1 /\ e.node = lc /\ e.ei = ei
      BY <2>1 DEF OtherEnd
    <2>3. lc \in Coordinates /\ lc \in Box
      BY <1>1, BoxAssumption DEF Coordinates
    <2>4. ei1 \in EdgeIndex /\ Opposite(ei1) = ei /\ Neighbor(lc1, ei1) = lc /\ lc1 \in Coordinates
      BY <2>1, <2>3, NeighborFacts
    <2>5. ASSUME ei \in nodes[lc].near PROVE VertexAt(nodes[lc], ei) \in vertices \cap {e, o}
      <3>1. lc1 \in D /\ Crossed(lc, lc1) /\ VertexAt(nodes[lc], ei) = VertexOf(e)
        BY <1>1, <2>1, <2>5 DEF PlacedAt, EdgesAcross
      <3>2. Crossed(lc1, lc)
        BY <3>1 DEF Crossed
      <3>3. e \in Names /\ o \in Names
        BY <2>1, <2>3, <2>4 DEF Names
      <3>4. ei \in EdgesAcross(D, lc) /\ ei1 \in EdgesAcross(D, lc1)
        BY <2>1, <2>4, <3>1, <3>2 DEF EdgesAcross
      <3>5. IsNear(lc, lc1) <=> ~IsNear(lc1, lc)
        BY <1>1, <2>1, <2>3, <3>1, OneIsNear
      <3>6. CASE IsNear(lc, lc1)
        <4>1. e \in vertices
          BY <2>1, <2>2, <3>3, <3>4, <3>6 DEF Placed
        <4>2. VertexOf(e) = e
          BY <2>2, <3>6 DEF VertexOf
        <4>. QED BY <3>1, <4>1, <4>2
      <3>7. CASE ~IsNear(lc, lc1)
        <4>1. o \in vertices
          BY <2>1, <2>2, <2>4, <3>1, <3>3, <3>4, <3>5, <3>7 DEF Placed
        <4>2. VertexOf(e) = o
          BY <2>2, <3>7 DEF VertexOf
        <4>. QED BY <3>1, <4>1, <4>2
      <3>. QED BY <3>6, <3>7
    <2>6. ASSUME lc1 \in D
          PROVE  /\ Crossed(lc, lc1) <=> ((ei \in nodes[lc].near) # (ei1 \in nodes[lc1].near))
                 /\ ~(ei \in nodes[lc].near /\ ei1 \in nodes[lc1].near)
      <3>1. PlacedAt(nodes, lc1)
        BY <2>6 DEF Placed
      <3>2. Crossed(lc1, lc) <=> Crossed(lc, lc1)
        BY DEF Crossed
      <3>3. ei \in nodes[lc].all <=> Crossed(lc, lc1)
        BY <1>1, <2>1, <2>6 DEF PlacedAt, EdgesAcross
      <3>4. ei1 \in nodes[lc1].all <=> Crossed(lc1, lc)
        BY <2>4, <3>1 DEF PlacedAt, EdgesAcross
      <3>5. CASE Crossed(lc, lc1)
        <4>1. ei \in nodes[lc].near <=> ei1 \notin nodes[lc1].near
          BY <1>1, <2>1, <3>3, <3>5 DEF PlacedAt
        <4>. QED BY <3>5, <4>1
      <3>6. CASE ~Crossed(lc, lc1)
        <4>1. ei \notin nodes[lc].near /\ ei1 \notin nodes[lc1].near
          BY <1>1, <3>1, <3>2, <3>3, <3>4, <3>6 DEF PlacedAt
        <4>. QED BY <3>6, <4>1
      <3>. QED BY <3>5, <3>6
    <2>. QED BY <2>1, <2>2, <2>5, <2>6 DEF HasVertex
  <1>3. Len(nodes[lc].vis) = Cardinality(nodes[lc].near) /\ nodes[lc].near \subseteq nodes[lc].all
    BY <1>1 DEF PlacedAt, GoodNode
  <1>. QED BY <1>2, <1>3

-----------------------------------------------------------------------------
\* Numbers have a greatest and a least one; so have the layers of the lattice.
LEMMA GreatestAndLeast ==
  ASSUME NEW S \in SUBSET Int, IsFiniteSet(S), S # {}
  PROVE  (\E x \in S : \A y \in S : x >= y) /\ (\E x \in S : \A y \in S : x <= y)
  <1>. DEFINE Ends(T) == (\E x \in T : \A y \in T : x >= y) /\ (\E x \in T : \A y \in T : x <= y)
              Bad == {T \in FiniteSubsetsOf(S) : T # {} /\ ~Ends(T)}
  <1>1. FiniteSubsetsOf(S) = SUBSET S
    BY FS_FiniteSubsetsOfFinite
  <1>. SUFFICES ASSUME Bad # {} PROVE FALSE
    BY <1>1
  <1>2. Bad \in SUBSET FiniteSubsetsOf(S)
    OBVIOUS
  <1>3. PICK T \in Bad : \A U \in Bad : ~(<<U, T>> \in StrictSubsetOrdering(S))
    <2>1. IsWellFoundedOn(StrictSubsetOrdering(S), FiniteSubsetsOf(S))
      BY FS_StrictSubsetOrderingWellFounded
    <2>. HIDE DEF Bad
    <2>. QED BY <1>2, <2>1, WFMin
  <1>4. PICK x \in T : TRUE
    OBVIOUS
  <1>5. T \in SUBSET S /\ T \ {x} \in SUBSET S /\ x \in Int /\ \A y \in T : y \in Int
    BY <1>1
  <1>6. CASE T \ {x} = {}
    BY <1>3, <1>5, <1>6
  <1>7. CASE T \ {x} # {}
    <2>1. <<T \ {x}, T>> \in StrictSubsetOrdering(S)
      BY <1>5 DEF StrictSubsetOrdering
    <2>2. T \ {x} \notin Bad
      BY <1>3, <2>1
    <2>3. Ends(T \ {x})
      BY <1>1, <1>5, <1>7, <2>2
    <2>4. PICK a \in T \ {x} : \A y \in T \ {x} : a >= y
      BY <2>3
    <2>5. PICK b \in T \ {x} : \A y \in T \ {x} : b <= y
      BY <2>3
    <2>6. \E z \in T : \A y \in T : z >= y
      <3>1. CASE a >= x
        BY <2>4, <3>1
      <3>2. CASE ~(a >= x)
        BY <1>5, <2>4, <3>2
      <3>. QED BY <3>1, <3>2
    <2>7. \E z \in T : \A y \in T : z <= y
      <3>1. CASE b <= x
        BY <2>5, <3>1
      <3>2. CASE ~(b <= x)
        BY <1>5, <2>5, <3>2
      <3>. QED BY <3>1, <3>2
    <2>8. Ends(T)
      BY <2>6, <2>7
    <2>. HIDE DEF Ends
    <2>. QED BY <1>3, <2>8
  <1>. QED BY <1>6, <1>7

\* The layers are those from the least to the greatest third coordinate.
LEMMA LayerNumbers ==
  /\ Top \in Int /\ \A lc \in Box : lc[3] \in Int /\ lc[3] <= Top
  /\ Min({lc[3] : lc \in Box}) \in Int /\ Min({lc[3] : lc \in Box}) <= Top
  /\ \A n \in Box : Min({lc[3] : lc \in Box}) <= n[3]
  <1>. DEFINE S == {lc[3] : lc \in Box}
              f == [lc \in Box |-> lc[3]]
  <1>1. S \in SUBSET Int /\ S # {}
    <2>1. 3 \in 1..3
      OBVIOUS
    <2>. QED BY <2>1, BoxAssumption
  <1>2. IsFiniteSet(S)
    <2>1. f \in Surjection(Box, S)
      BY DEF Surjection
    <2>. QED BY <2>1, FS_Surjection, BoxAssumption
  <1>3. \A lc \in Box : lc[3] \in S
    OBVIOUS
  <1>4. Top = Max(S)
    BY DEF Top
  <1>. HIDE DEF S
  <1>5. Max(S) \in S /\ \A y \in S : Max(S) >= y
    BY <1>1, <1>2, GreatestAndLeast DEF Max
  <1>6. Min(S) \in S /\ \A y \in S : Min(S) <= y
    BY <1>1, <1>2, GreatestAndLeast DEF Min
  <1>7. Max(S) \in Int /\ Min(S) \in Int /\ Min(S) <= Max(S)
    BY <1>1, <1>5, <1>6
  <1>8. \A lc \in Box : lc[3] \in Int /\ lc[3] <= Max(S) /\ Min(S) <= lc[3]
    BY <1>1, <1>3, <1>5, <1>6
  <1>. QED BY <1>4, <1>7, <1>8 DEF S

\* Dropping the nodes without an edge across the surface drops no such edge.
LEMMA AcrossKept ==
  ASSUME NEW D \in SUBSET Box,
         NEW K, K = {lc \in D : EdgesAcross(D, lc) # {}}
  PROVE  \A lc \in K : EdgesAcross(K, lc) = EdgesAcross(D, lc)
  <1>1. SUFFICES ASSUME NEW lc \in K, NEW ei \in EdgesAcross(D, lc) PROVE Neighbor(lc, ei) \in K
    BY DEF EdgesAcross
  <1>2. PICK n, oi : n = Neighbor(lc, ei) /\ oi = Opposite(ei)
    OBVIOUS
  <1>3. ei \in EdgeIndex /\ n \in D /\ Crossed(lc, n) /\ lc \in Coordinates
    BY <1>2, BoxAssumption DEF EdgesAcross, Coordinates
  <1>4. oi \in EdgeIndex /\ Neighbor(n, oi) = lc
    BY <1>2, <1>3, NeighborFacts
  <1>5. Crossed(n, lc)
    BY <1>3 DEF Crossed
  <1>6. oi \in EdgesAcross(D, n)
    BY <1>4, <1>5 DEF EdgesAcross
  <1>. QED BY <1>2, <1>3, <1>6

\* A lattice whose nodes have all their edges, with the vertices at the nearer ends.
LEMMA FilledIsPlaced ==
  ASSUME field \in Fields, NEW ns, NEW vs,
         ns = [lc \in DOMAIN ns |-> ns[lc]], DOMAIN ns \subseteq Box,
         \A lc \in DOMAIN ns : /\ Filled(lc, ns[lc]) /\ ns[lc].all = EdgesAcross(DOMAIN ns, lc)
                               /\ ns[lc].near = NearOnes(lc, EdgesAcross(DOMAIN ns, lc)),
         vs = {v \in Names : v.node \in DOMAIN ns /\ v.ei \in NearOnes(v.node, EdgesAcross(DOMAIN ns, v.node))}
  PROVE  Placed(ns, vs) /\ \A v \in vs : v.ei \in ns[v.node].near
  <1>. DEFINE D == DOMAIN ns
  <1>1. ASSUME NEW lc \in D PROVE PlacedAt(ns, lc)
    <2>1. /\ Filled(lc, ns[lc]) /\ ns[lc].all = EdgesAcross(D, lc)
          /\ ns[lc].near = NearOnes(lc, EdgesAcross(D, lc))
      OBVIOUS
    <2>2. GoodNode(ns[lc]) /\ ns[lc].near \subseteq ns[lc].all
      BY <2>1 DEF Filled
    <2>3. ASSUME NEW ei \in ns[lc].near PROVE VertexAt(ns[lc], ei) = VertexOf([node |-> lc, ei |-> ei])
      <3>1. VertexAt(ns[lc], ei) = [node |-> lc, ei |-> ei] /\ IsNear(lc, Neighbor(lc, ei))
        BY <2>1 DEF Filled, NearOnes
      <3>2. PICK e : e = [node |-> lc, ei |-> ei]
        OBVIOUS
      <3>3. e.node = lc /\ e.ei = ei
        BY <3>2
      <3>4. OtherEnd(e).node = Neighbor(lc, ei)
        BY <3>3 DEF OtherEnd
      <3>5. VertexOf(e) = e
        BY <3>1, <3>3, <3>4 DEF VertexOf
      <3>. QED BY <3>1, <3>2, <3>5
    <2>4. ASSUME NEW ei \in ns[lc].all
          PROVE  ei \in ns[lc].near <=> Opposite(ei) \notin ns[Neighbor(lc, ei)].near
      <3>1. PICK n, oi : n = Neighbor(lc, ei) /\ oi = Opposite(ei)
        OBVIOUS
      <3>2. ei \in EdgeIndex /\ n \in D /\ Crossed(lc, n) /\ lc \in Coordinates /\ lc \in Box /\ n \in Box
        BY <2>1, <3>1, BoxAssumption DEF EdgesAcross, Coordinates
      <3>3. oi \in EdgeIndex /\ Neighbor(n, oi) = lc
        BY <3>1, <3>2, NeighborFacts
      <3>4. Crossed(n, lc)
        BY <3>2 DEF Crossed
      <3>5. oi \in EdgesAcross(D, n) /\ ns[n].near = NearOnes(n, EdgesAcross(D, n))
        BY <3>2, <3>3, <3>4 DEF EdgesAcross
      <3>6. IsNear(lc, n) <=> ~IsNear(n, lc)
        BY <3>1, <3>2, OneIsNear
      <3>7. ei \in ns[lc].near <=> IsNear(lc, n)
        BY <2>1, <3>1 DEF NearOnes
      <3>8. oi \in ns[n].near <=> IsNear(n, lc)
        BY <3>3, <3>5 DEF NearOnes
      <3>. QED BY <3>1, <3>6, <3>7, <3>8
    <2>. QED BY <2>1, <2>2, <2>3, <2>4 DEF PlacedAt
  <1>2. vs = {v \in Names : /\ v.node \in D /\ v.ei \in EdgesAcross(D, v.node)
                            /\ IsNear(v.node, Neighbor(v.node, v.ei))}
    BY DEF NearOnes
  <1>3. \A v \in vs : v.ei \in ns[v.node].near
    OBVIOUS
  <1>. QED BY <1>1, <1>2, <1>3 DEF Placed

\* What generate_vertices adds to a node.
LEMMA NodeGenerated ==
  ASSUME NEW lc \in Coordinates, NEW n, Filled(lc, n), NEW edges \in SUBSET EdgeIndex,
         edges \cap n.all = {}, n.near = NearOnes(lc, n.all), NEW schedule \in Schedules
  PROVE  LET m == WithIntersections(lc, n, edges, schedule)
         IN  Filled(lc, m) /\ m.all = n.all \cup edges /\ m.near = NearOnes(lc, m.all)
  <1>1. PICK m : m = WithIntersections(lc, n, edges, schedule)
    OBVIOUS
  <1>2. Filled(lc, m) /\ m.all = n.all \cup edges /\ m.near = n.near \cup NearOnes(lc, edges)
    BY <1>1, IntersectionsPacked
  <1>3. NearOnes(lc, n.all \cup edges) = NearOnes(lc, n.all) \cup NearOnes(lc, edges)
    BY DEF NearOnes
  <1>. QED BY <1>1, <1>2, <1>3

\* A node starts without vertices.
LEMMA NewNodeFilled == \A lc : Filled(lc, NewNode) /\ NewNode.all = {} /\ NewNode.near = NearOnes(lc, {})
  <1>1. NewNode.near = {} /\ NewNode.all = {} /\ NewNode.vis = <<>>
    BY DEF NewNode
  <1>2. <<>> \in Seq(Names) /\ Len(<<>>) = 0
    OBVIOUS
  <1>3. Cardinality({}) = 0
    BY FS_EmptySet
  <1>4. NewNode = [near |-> NewNode.near, all |-> NewNode.all, vis |-> NewNode.vis]
    BY <1>1 DEF NewNode
  <1>5. GoodNode(NewNode)
    BY <1>1, <1>2, <1>3, <1>4 DEF GoodNode
  <1>. QED BY <1>1, <1>5 DEF Filled, NearOnes

-----------------------------------------------------------------------------
\* The end of an edge whose layer, when it is built, has the edge.
Later(lc, ei) == IF Less(Neighbor(lc, ei), lc) THEN lc ELSE Neighbor(lc, ei)
Past(lc, k) == {ei \in Across(lc) : Later(lc, ei)[3] < k}

\* The lattice with the edges of the layers before k, and the nodes of those before m:
\* all of the last two layers, before that only the ones with an edge across the surface.
Layered(k, m) ==
  /\ nodes = [lc \in DOMAIN nodes |-> nodes[lc]]
  /\ DOMAIN nodes = {lc \in Box : lc[3] < m /\ (lc[3] < k - 1 => Across(lc) # {})}
  /\ \A lc \in DOMAIN nodes : /\ Filled(lc, nodes[lc]) /\ nodes[lc].all = Past(lc, k)
                              /\ nodes[lc].near = NearOnes(lc, Past(lc, k))
  /\ vertices = {v \in Names : v.node \in Box /\ v.ei \in NearOnes(v.node, Past(v.node, k))}

\* An edge is generated with the layer of its later end, which is that of the other end or
\* the next.
LEMMA EdgeLayers ==
  ASSUME NEW lc \in Box, NEW ei \in EdgeIndex, Neighbor(lc, ei) \in Box, NEW z, z = Later(lc, ei)[3]
  PROVE  /\ Later(lc, ei) \in {lc, Neighbor(lc, ei)} /\ Later(lc, ei) \in Box
         /\ z \in Int /\ z <= Top
         /\ lc[3] \in {z - 1, z} /\ Neighbor(lc, ei)[3] \in {z - 1, z}
  <1>1. PICK n : n = Neighbor(lc, ei)
    OBVIOUS
  <1>2. lc \in Coordinates /\ lc[3] \in Int /\ n[3] \in Int /\ lc[3] <= Top /\ n[3] <= Top
    BY <1>1, BoxAssumption, LayerNumbers DEF Coordinates
  <1>3. CASE ei < 7
    <2>1. ~(ei >= 7) /\ Less(lc, n) /\ ~Less(n, lc) /\ n[3] \in {lc[3], lc[3] + 1}
      BY <1>1, <1>2, <1>3, NeighborFacts DEF EdgeIndex
    <2>2. Later(lc, ei) = n
      BY <1>1, <2>1 DEF Later
    <2>. QED BY <1>1, <1>2, <2>1, <2>2
  <1>4. CASE ~(ei < 7)
    <2>1. ei >= 7 /\ Less(n, lc) /\ n[3] \in {lc[3], lc[3] - 1}
      BY <1>1, <1>2, <1>4, NeighborFacts DEF EdgeIndex
    <2>2. Later(lc, ei) = lc
      BY <1>1, <2>1 DEF Later
    <2>. QED BY <1>1, <1>2, <2>1, <2>2
  <1>. QED BY <1>3, <1>4

\* The edges that a layer brings, at its nodes and those of the layer before.
LEMMA EdgesOfLayer ==
  ASSUME NEW k \in Int, Layered(k, k + 1), NEW lc \in Box
  PROVE  LET new == IF lc \in DOMAIN nodes THEN NewIntersections(nodes, Layer(k), lc) ELSE {}
         IN  Past(lc, k + 1) = Past(lc, k) \cup new /\ new \cap Past(lc, k) = {}
  <1>1. ASSUME NEW ei \in EdgeIndex, Neighbor(lc, ei) \in Box, Crossed(lc, Neighbor(lc, ei))
        PROVE  /\ ei \in Past(lc, k + 1) <=> Later(lc, ei)[3] < k + 1
               /\ ei \in Past(lc, k) <=> Later(lc, ei)[3] < k
               /\ lc \in DOMAIN nodes /\ ei \in NewIntersections(nodes, Layer(k), lc)
                    <=> Later(lc, ei)[3] = k
    <2>1. PICK n, l, z : n = Neighbor(lc, ei) /\ l = Later(lc, ei) /\ z = l[3]
      OBVIOUS
    <2>2. l \in {lc, n} /\ l \in Box /\ z \in Int /\ lc[3] \in {z - 1, z} /\ n[3] \in {z - 1, z} /\ n \in Box
      BY <1>1, <2>1, EdgeLayers
    <2>3. ei \in Across(lc)
      BY <1>1 DEF Across
    <2>4. z = k => lc \in DOMAIN nodes /\ n \in DOMAIN nodes
      BY <2>2 DEF Layered
    <2>5. ei \in NewIntersections(nodes, Layer(k), lc) <=> n \in DOMAIN nodes /\ l \in Layer(k)
      BY <1>1, <2>1 DEF NewIntersections, Later
    <2>6. l \in Layer(k) <=> z = k
      BY <2>1, <2>2 DEF Layer
    <2>. QED BY <2>1, <2>3, <2>4, <2>5, <2>6 DEF Past
  <1>2. \A ei : ei \in Past(lc, k) \/ ei \in Past(lc, k + 1) =>
          ei \in EdgeIndex /\ Neighbor(lc, ei) \in Box /\ Crossed(lc, Neighbor(lc, ei))
    BY DEF Past, Across
  <1>3. \A ei : ei \in NewIntersections(nodes, Layer(k), lc) =>
          ei \in EdgeIndex /\ Neighbor(lc, ei) \in Box /\ Crossed(lc, Neighbor(lc, ei))
    BY DEF NewIntersections, Layered
  <1>4. \A ei \in EdgeIndex : Neighbor(lc, ei) \in Box => Later(lc, ei)[3] \in Int
    BY EdgeLayers
  <1>. QED BY <1>1, <1>2, <1>3, <1>4

\* The end of a layer: the lattice has the edges of one layer more.
LEMMA LayerEnded ==
  ASSUME NEW k \in Int, k <= Top, Layered(k, k + 1), NEW schedule \in Schedules,
         NEW ns, ns = WithoutFree(Generated(nodes, Layer(k), schedule), Finished(k))
  PROVE  /\ ns = [lc \in DOMAIN ns |-> ns[lc]]
         /\ DOMAIN ns = {lc \in Box : /\ lc[3] < k + 1
                                      /\ lc[3] < (IF k = Top THEN k + 1 ELSE k) => Across(lc) # {}}
         /\ \A lc \in DOMAIN ns : /\ Filled(lc, ns[lc]) /\ ns[lc].all = Past(lc, k + 1)
                                  /\ ns[lc].near = NearOnes(lc, Past(lc, k + 1))
         /\ vertices \cup NewVertices(nodes, Layer(k)) =
              {v \in Names : v.node \in Box /\ v.ei \in NearOnes(v.node, Past(v.node, k + 1))}
  <1>. DEFINE D == DOMAIN nodes
              New(lc) == NewIntersections(nodes, Layer(k), lc)
              gs == Generated(nodes, Layer(k), schedule)
  <1>1. /\ D = {lc \in Box : lc[3] < k + 1 /\ (lc[3] < k - 1 => Across(lc) # {})}
        /\ \A lc \in D : /\ Filled(lc, nodes[lc]) /\ nodes[lc].all = Past(lc, k)
                         /\ nodes[lc].near = NearOnes(lc, Past(lc, k))
        /\ vertices = {v \in Names : v.node \in Box /\ v.ei \in NearOnes(v.node, Past(v.node, k))}
    BY DEF Layered
  <1>2. \A lc \in Box : lc \in Coordinates /\ lc[3] \in Int /\ lc[3] <= Top
    BY BoxAssumption, LayerNumbers DEF Coordinates
  <1>3. ASSUME NEW lc \in Box
        PROVE  /\ lc \in D => Past(lc, k + 1) = Past(lc, k) \cup New(lc) /\ New(lc) \cap Past(lc, k) = {}
               /\ lc \notin D => Past(lc, k + 1) = Past(lc, k)
    BY EdgesOfLayer
  <1>4. DOMAIN gs = D /\ gs = [lc \in D |-> gs[lc]]
    BY DEF Generated
  <1>5. ASSUME NEW lc \in D
        PROVE  Filled(lc, gs[lc]) /\ gs[lc].all = Past(lc, k + 1) /\ gs[lc].near = NearOnes(lc, Past(lc, k + 1))
    <2>1. PICK n, m, edges : n = nodes[lc] /\ edges = New(lc) /\ m = WithIntersections(lc, n, edges, schedule)
      OBVIOUS
    <2>2. gs[lc] = m
      BY <2>1 DEF Generated
    <2>3. lc \in Box /\ lc \in Coordinates
      BY <1>1, <1>2
    <2>4. /\ Filled(lc, n) /\ n.all = Past(lc, k) /\ n.near = NearOnes(lc, n.all)
          /\ edges \in SUBSET EdgeIndex /\ edges \cap n.all = {} /\ n.all \cup edges = Past(lc, k + 1)
      BY <1>1, <1>3, <2>1, <2>3 DEF NewIntersections
    <2>5. Filled(lc, m) /\ m.all = n.all \cup edges /\ m.near = NearOnes(lc, m.all)
      <3>1. m = WithIntersections(lc, n, edges, schedule) /\ edges \cap n.all = {}
        BY <2>1, <2>4
      <3>. HIDE DEF New, gs, D
      <3>2. LET w == WithIntersections(lc, n, edges, schedule)
            IN  Filled(lc, w) /\ w.all = n.all \cup edges /\ w.near = NearOnes(lc, w.all)
        BY <2>3, <2>4, <3>1, NodeGenerated
      <3>. QED BY <3>1, <3>2
    <2>. QED BY <2>2, <2>4, <2>5
  <1>6. /\ DOMAIN ns = {c \in D : c \notin Finished(k) \/ Past(c, k + 1) # {}}
        /\ ns = [lc \in DOMAIN ns |-> gs[lc]]
    <2>1. ns = [lc \in {c \in D : c \notin Finished(k) \/ ~IsFree(gs[c])} |-> gs[lc]]
      BY <1>4 DEF WithoutFree
    <2>2. \A c \in D : IsFree(gs[c]) <=> Past(c, k + 1) = {}
      BY <1>5 DEF IsFree
    <2>. HIDE DEF gs, D
    <2>. QED BY <2>1, <2>2
  <1>7. ASSUME NEW lc \in Box, lc[3] < k \/ (lc[3] = k /\ k = Top) PROVE Past(lc, k + 1) = Across(lc)
    <2>1. SUFFICES ASSUME NEW ei \in Across(lc) PROVE Later(lc, ei)[3] < k + 1
      BY DEF Past
    <2>2. ei \in EdgeIndex /\ Neighbor(lc, ei) \in Box
      BY DEF Across
    <2>3. PICK z : z = Later(lc, ei)[3]
      OBVIOUS
    <2>4. z \in Int /\ z <= Top /\ lc[3] \in {z - 1, z}
      BY <2>2, <2>3, EdgeLayers
    <2>. QED BY <1>7, <2>3, <2>4
  <1>8. DOMAIN ns = {lc \in Box : /\ lc[3] < k + 1
                                  /\ lc[3] < (IF k = Top THEN k + 1 ELSE k) => Across(lc) # {}}
    <2>1. ASSUME NEW lc \in Box, lc[3] < k + 1
          PROVE  lc \in DOMAIN ns <=> (lc[3] < (IF k = Top THEN k + 1 ELSE k) => Across(lc) # {})
      <3>1. lc[3] \in Int
        BY <1>2
      <3>2. lc \in D <=> (lc[3] < k - 1 => Across(lc) # {})
        BY <1>1, <2>1
      <3>3. lc \in Finished(k) <=> lc[3] = k - 1 \/ (k = Top /\ lc[3] = k)
        BY DEF Finished, Layer
      <3>4. lc \in DOMAIN ns <=> lc \in D /\ (lc \notin Finished(k) \/ Past(lc, k + 1) # {})
        BY <1>6
      <3>5. lc[3] < k \/ (lc[3] = k /\ k = Top) => Past(lc, k + 1) = Across(lc)
        BY <1>7
      <3>. QED BY <2>1, <3>1, <3>2, <3>3, <3>4, <3>5
    <2>2. \A lc \in DOMAIN ns : lc \in Box /\ lc[3] < k + 1
      BY <1>1, <1>6
    <2>. QED BY <2>1, <2>2
  <1>9. vertices \cup NewVertices(nodes, Layer(k)) =
          {v \in Names : v.node \in Box /\ v.ei \in NearOnes(v.node, Past(v.node, k + 1))}
    <2>1. \A v : v \in NewVertices(nodes, Layer(k)) <=>
            v \in Names /\ v.node \in D /\ v.ei \in NearOnes(v.node, New(v.node))
      <3>1. \A v : v \in NewVertices(nodes, Layer(k)) <=>
              \E lc \in D : \E ei \in NearOnes(lc, New(lc)) : v = [node |-> lc, ei |-> ei]
        BY DEF NewVertices
      <3>2. \A lc \in D : lc \in Coordinates /\ NearOnes(lc, New(lc)) \subseteq EdgeIndex
        BY <1>1, <1>2 DEF NearOnes, NewIntersections
      <3>3. \A v \in Names : v = [node |-> v.node, ei |-> v.ei]
        BY DEF Names
      <3>4. \A lc \in D : \A ei \in NearOnes(lc, New(lc)) : [node |-> lc, ei |-> ei] \in Names
        BY <3>2 DEF Names
      <3>. HIDE DEF New, D
      <3>. QED BY <3>1, <3>3, <3>4
    <2>2. \A lc \in Box : NearOnes(lc, Past(lc, k + 1)) =
            NearOnes(lc, Past(lc, k)) \cup (IF lc \in D THEN NearOnes(lc, New(lc)) ELSE {})
      <3>. HIDE DEF New, D
      <3>. QED BY <1>3 DEF NearOnes
    <2>3. D \subseteq Box
      BY <1>1
    <2>. HIDE DEF New, D
    <2>. QED BY <1>1, <2>1, <2>2, <2>3
  <1>. QED BY <1>5, <1>6, <1>8, <1>9

\* A new node gets the vertices of all edges that it is asked for.
LEMMA NewNodeGenerated ==
  ASSUME NEW lc \in Coordinates, NEW edges \in SUBSET EdgeIndex, NEW schedule \in Schedules
  PROVE  LET m == WithIntersections(lc, NewNode, edges, schedule)
         IN  Filled(lc, m) /\ m.all = edges /\ m.near = NearOnes(lc, edges)
  <1>1. PICK n : n = NewNode
    OBVIOUS
  <1>2. Filled(lc, n) /\ n.near = NearOnes(lc, n.all) /\ edges \cap n.all = {}
    BY <1>1, NewNodeFilled
  <1>3. LET m == WithIntersections(lc, n, edges, schedule)
        IN  Filled(lc, m) /\ m.all = n.all \cup edges /\ m.near = NearOnes(lc, m.all)
    BY <1>2, NodeGenerated
  <1>4. n.all = {}
    BY <1>1, NewNodeFilled
  <1>. QED BY <1>1, <1>3, <1>4

\* generate_vertices for all nodes, which have no edges yet.
LEMMA AllGenerated ==
  ASSUME field \in Fields, nodes = [lc \in DOMAIN nodes |-> NewNode], DOMAIN nodes \subseteq Box,
         NEW schedule \in Schedules,
         NEW ns, ns = WithoutFree(Generated(nodes, DOMAIN nodes, schedule), DOMAIN nodes),
         NEW vs, vs = NewVertices(nodes, DOMAIN nodes)
  PROVE  Placed(ns, vs) /\ \A v \in vs : v.ei \in ns[v.node].near
  <1>1. PICK D : D = DOMAIN nodes
    OBVIOUS
  <1>. DEFINE New(lc) == NewIntersections(nodes, D, lc)
              gs == Generated(nodes, D, schedule)
  <1>2. \A lc \in D : lc \in Box /\ lc \in Coordinates /\ nodes[lc] = NewNode
    BY <1>1, BoxAssumption DEF Coordinates
  <1>3. ASSUME NEW lc \in D PROVE New(lc) = EdgesAcross(D, lc)
    BY <1>1 DEF NewIntersections, EdgesAcross
  <1>4. DOMAIN gs = D /\ gs = [lc \in D |-> gs[lc]]
    BY <1>1 DEF Generated
  <1>5. ASSUME NEW lc \in D
        PROVE  /\ Filled(lc, gs[lc]) /\ gs[lc].all = EdgesAcross(D, lc)
               /\ gs[lc].near = NearOnes(lc, EdgesAcross(D, lc))
    <2>1. PICK m, edges : edges = EdgesAcross(D, lc) /\ m = WithIntersections(lc, NewNode, edges, schedule)
      OBVIOUS
    <2>2. gs[lc] = m
      BY <1>1, <1>2, <1>3, <2>1 DEF Generated
    <2>3. lc \in Coordinates /\ edges \in SUBSET EdgeIndex
      BY <1>2, <2>1 DEF EdgesAcross
    <2>4. Filled(lc, m) /\ m.all = edges /\ m.near = NearOnes(lc, edges)
      BY <2>1, <2>3, NewNodeGenerated
    <2>. QED BY <2>1, <2>2, <2>4
  <1>6. PICK K : K = {lc \in D : EdgesAcross(D, lc) # {}}
    OBVIOUS
  <1>7. \A lc \in K : EdgesAcross(K, lc) = EdgesAcross(D, lc)
    BY <1>2, <1>6, AcrossKept
  <1>8. DOMAIN ns = K /\ ns = [lc \in K |-> gs[lc]]
    <2>1. ns = [lc \in {c \in D : c \notin D \/ ~IsFree(gs[c])} |-> gs[lc]]
      BY <1>1, <1>4 DEF WithoutFree
    <2>2. \A c \in D : IsFree(gs[c]) <=> EdgesAcross(D, c) = {}
      BY <1>5 DEF IsFree
    <2>. HIDE DEF gs
    <2>. QED BY <1>6, <2>1, <2>2
  <1>9. vs = {v \in Names : v.node \in K /\ v.ei \in NearOnes(v.node, EdgesAcross(K, v.node))}
    <2>1. \A v : v \in vs <=>
            \E lc \in D : \E ei \in NearOnes(lc, EdgesAcross(D, lc)) : v = [node |-> lc, ei |-> ei]
      <3>1. vs = UNION {{[node |-> lc, ei |-> ei] : ei \in NearOnes(lc, New(lc))} : lc \in D}
        BY <1>1 DEF NewVertices
      <3>. HIDE DEF New
      <3>. QED BY <1>3, <3>1
    <2>2. \A lc \in D : \A ei \in NearOnes(lc, EdgesAcross(D, lc)) :
            lc \in K /\ [node |-> lc, ei |-> ei] \in Names
      BY <1>2, <1>6 DEF NearOnes, EdgesAcross, Names
    <2>3. \A v \in Names : v = [node |-> v.node, ei |-> v.ei]
      BY DEF Names
    <2>. QED BY <1>6, <1>7, <2>1, <2>2, <2>3
  <1>. HIDE DEF gs
  <1>10. \A lc \in K : /\ Filled(lc, ns[lc]) /\ ns[lc].all = EdgesAcross(K, lc)
                       /\ ns[lc].near = NearOnes(lc, EdgesAcross(K, lc))
    BY <1>5, <1>6, <1>7, <1>8
  <1>11. K \subseteq Box /\ ns = [lc \in K |-> ns[lc]]
    BY <1>2, <1>6, <1>8
  <1>. QED BY <1>8, <1>9, <1>10, <1>11, FilledIsPlaced

\* The nodes that can be reached in one step.
LEMMA RingOne ==
  ASSUME NEW lc
  PROVE  Ring(lc, 1) = {n \in Box : n # lc /\ \E ei \in EdgeIndex : n = Neighbor(lc, ei)}
  <1>. DEFINE Around(last) == (Box \cap {Neighbor(n, ei) : n \in last.ring, ei \in EdgeIndex}) \ last.seen
              Turn(last) == [seen |-> last.seen \cup Around(last), ring |-> Around(last)]
              first == [seen |-> {lc}, ring |-> {lc}]
              Rec(f) == f = [i \in 0..1 |-> IF i = 0 THEN first ELSE Turn(f[i - 1])]
  <1>1. \E f : Rec(f)
    <2>. DEFINE g == [i \in 0..1 |-> IF i = 0 THEN first ELSE Turn(first)]
    <2>. HIDE DEF Turn, first
    <2>1. g[0] = first /\ g[1] = Turn(first)
      OBVIOUS
    <2>2. \A i \in 0..1 : g[i] = IF i = 0 THEN first ELSE Turn(g[i - 1])
      <3>1. \A i \in 0..1 : i = 0 \/ (i = 1 /\ i - 1 = 0)
        OBVIOUS
      <3>. QED BY <2>1, <3>1
    <2>. QED BY <2>2
  <1>2. PICK step : step = (CHOOSE f : Rec(f))
    OBVIOUS
  <1>3. Rec(step)
    <2>. HIDE DEF Turn, first
    <2>. QED BY <1>1, <1>2
  <1>4. Ring(lc, 1) = step[1].ring
    BY <1>2 DEF Ring
  <1>5. step[1] = Turn(first)
    <2>. HIDE DEF Turn, first
    <2>1. step[0] = first /\ step[1] = Turn(step[1 - 1]) /\ 1 - 1 = 0
      BY <1>3
    <2>. QED BY <2>1
  <1>6. Ring(lc, 1) = Around(first)
    <2>. HIDE DEF Around, first
    <2>. QED BY <1>4, <1>5
  <1>7. \A n : n \in Around(first) <=> n \in Box /\ n # lc /\ \E ei \in EdgeIndex : n = Neighbor(lc, ei)
    OBVIOUS
  <1>. QED BY <1>6, <1>7

-----------------------------------------------------------------------------
\* The inductive invariant, by what the call is at.
ClearedWhenIdle ==
  pc = "idle" => /\ nodes = <<>> /\ unevaluated = {} /\ told = {} /\ vertices = {}
                 /\ newSeeds = {} /\ pairs = {} /\ visited = {}
LayersBuilt ==
  pc \in {"layer", "evaluate layer", "end layer"} =>
    /\ start = {} /\ layer \in Int /\ layer <= Top
    /\ Layered(layer, IF pc = "layer" THEN layer ELSE layer + 1)
    /\ told = {lc \in Arb : lc[3] < IF pc = "end layer" THEN layer + 1 ELSE layer}
    /\ unevaluated = IF pc = "evaluate layer" THEN Layer(layer) ELSE {}
TrackedFromSeeds ==
  pc \in {"evaluate seeds", "track", "evaluate pairs", "propagate"} =>
    /\ start # {} /\ vertices = {}
    /\ nodes = [lc \in DOMAIN nodes |-> NewNode] /\ DOMAIN nodes \subseteq Box
    /\ unevaluated \subseteq DOMAIN nodes
    /\ told \subseteq Arb /\ Arb \cap FirstNodes(start) \subseteq told \cup unevaluated
    /\ pc \in {"evaluate seeds", "track"} => visited = {}
    /\ pc = "track" /\ newSeeds = {} => unevaluated = {}
    /\ pc = "propagate" => unevaluated = {}
    /\ \A p \in visited : (\E a, b \in p : Crossed(a, b)) =>
         \A n \in Common(p) : n \in DOMAIN nodes /\ \A a \in p : {a, n} \in visited \cup pairs
AllPlaced ==
  /\ pc \in {"refine", "cluster"} =>
       /\ Placed(nodes, vertices)
       /\ start = {} => DOMAIN nodes = {lc \in Box : Across(lc) # {}}
  /\ pc = "refine" => \A v \in vertices : v.ei \in nodes[v.node].near
  /\ pc \in {"refine", "cluster", "mesh"} => Arb \cap FirstNodes(start) \subseteq told
LatticeInv ==
  /\ field \in Fields
  /\ ClearedWhenIdle /\ LayersBuilt /\ TrackedFromSeeds /\ AllPlaced

\* What is said of the surface depends on the field alone.
LEMMA FieldKept ==
  ASSUME field' = field
  PROVE  /\ \A a, b : Crossed(a, b)' <=> Crossed(a, b)
         /\ \A lc : Across(lc)' = Across(lc)
         /\ \A lc, k : Past(lc, k)' = Past(lc, k)
         /\ \A lc, edges : NearOnes(lc, edges)' = NearOnes(lc, edges)
         /\ \A D, lc : EdgesAcross(D, lc)' = EdgesAcross(D, lc)
         /\ \A ns, vs : Placed(ns, vs)' <=> Placed(ns, vs)
  <1>1. \A a, b : Crossed(a, b)' <=> Crossed(a, b)
    BY DEF Crossed, Negative
  <1>2. \A lc : Across(lc)' = Across(lc)
    BY <1>1 DEF Across
  <1>3. \A lc, k : Past(lc, k)' = Past(lc, k)
    BY <1>2 DEF Past
  <1>4. \A a, b : IsNear(a, b)' <=> IsNear(a, b)
    BY DEF IsNear
  <1>5. \A lc, edges : NearOnes(lc, edges)' = NearOnes(lc, edges)
    BY <1>4 DEF NearOnes
  <1>6. \A D, lc : EdgesAcross(D, lc)' = EdgesAcross(D, lc)
    BY <1>1 DEF EdgesAcross
  <1>7. \A e : VertexOf(e)' = VertexOf(e)
    BY <1>4 DEF VertexOf
  <1>8. \A ns, lc : PlacedAt(ns, lc)' <=> PlacedAt(ns, lc)
    BY <1>6, <1>7 DEF PlacedAt
  <1>9. \A ns, vs : Placed(ns, vs)' <=> Placed(ns, vs)
    BY <1>4, <1>6, <1>8 DEF Placed
  <1>. QED BY <1>1, <1>2, <1>3, <1>5, <1>6, <1>9

\* What is said of the layers depends on the field and on the nodes and vertices.
LEMMA LayeredKept ==
  ASSUME field' = field, nodes' = nodes, vertices' = vertices
  PROVE  \A k, m : Layered(k, m)' <=> Layered(k, m)
  <1>1. \A lc, k : NearOnes(lc, Past(lc, k))' = NearOnes(lc, Past(lc, k)) /\ Past(lc, k)' = Past(lc, k)
    BY FieldKept
  <1>2. \A lc : Across(lc)' = Across(lc)
    BY FieldKept
  <1>. TAKE k, m
  <1>3. (DOMAIN nodes = {lc \in Box : lc[3] < m /\ (lc[3] < k - 1 => Across(lc) # {})})'
        <=> DOMAIN nodes = {lc \in Box : lc[3] < m /\ (lc[3] < k - 1 => Across(lc) # {})}
    BY <1>2
  <1>4. (vertices = {v \in Names : v.node \in Box /\ v.ei \in NearOnes(v.node, Past(v.node, k))})'
        <=> vertices = {v \in Names : v.node \in Box /\ v.ei \in NearOnes(v.node, Past(v.node, k))}
    BY <1>1
  <1>5. (\A lc \in DOMAIN nodes : /\ Filled(lc, nodes[lc]) /\ nodes[lc].all = Past(lc, k)
                                  /\ nodes[lc].near = NearOnes(lc, Past(lc, k)))'
        <=> \A lc \in DOMAIN nodes : /\ Filled(lc, nodes[lc]) /\ nodes[lc].all = Past(lc, k)
                                     /\ nodes[lc].near = NearOnes(lc, Past(lc, k))
    BY <1>1
  <1>. QED BY <1>3, <1>4, <1>5 DEF Layered

-----------------------------------------------------------------------------
\* Every step keeps the invariant.
LEMMA StartsIdle == Init => LatticeInv
  BY DEF Init, LatticeInit, LatticeInv, ClearedWhenIdle, LayersBuilt, TrackedFromSeeds, AllPlaced

\* Each step keeps the invariant. A call begins.
LEMMA GenerateKeeps ==
  ASSUME LatticeInv, Generate
  PROVE  LatticeInv'
  <1>1. /\ field \in Fields /\ field' = field /\ told' = told /\ vertices' = vertices
        /\ newSeeds' = newSeeds /\ pairs' = pairs /\ visited' = visited /\ start' \in Starts
        /\ nodes = <<>> /\ unevaluated = {} /\ told = {} /\ vertices = {}
        /\ newSeeds = {} /\ pairs = {} /\ visited = {}
    BY DEF Generate, LatticeInv, ClearedWhenIdle
  <1>2. DOMAIN nodes = {} /\ nodes = [lc \in {} |-> nodes[lc]]
    BY <1>1
  <1>3. CASE start' = {}
    <2>1. /\ pc' = "layer" /\ nodes' = nodes /\ unevaluated' = unevaluated
          /\ layer' = Min({lc[3] : lc \in Box})
      BY <1>3 DEF Generate
    <2>2. layer' \in Int /\ layer' <= Top /\ \A lc \in Box : lc[3] \in Int /\ ~(lc[3] < layer')
      <3>1. PICK z : z = Min({lc[3] : lc \in Box})
        OBVIOUS
      <3>2. z \in Int /\ z <= Top /\ \A lc \in Box : lc[3] \in Int /\ z <= lc[3]
        BY <3>1, LayerNumbers
      <3>3. layer' = z
        BY <2>1, <3>1
      <3>. QED BY <3>2, <3>3
    <2>3. \A lc \in Box : Past(lc, layer') = {}
      <3>1. SUFFICES ASSUME NEW lc \in Box, NEW ei \in Past(lc, layer') PROVE FALSE
        OBVIOUS
      <3>2. ei \in EdgeIndex /\ Neighbor(lc, ei) \in Box /\ Later(lc, ei)[3] < layer'
        BY DEF Past, Across
      <3>3. Later(lc, ei) \in Box
        BY <3>2, EdgeLayers
      <3>. QED BY <2>2, <3>2, <3>3
    <2>4. Layered(layer', layer')
      <3>1. DOMAIN nodes = {lc \in Box : lc[3] < layer' /\ (lc[3] < layer' - 1 => Across(lc) # {})}
        BY <1>2, <2>2
      <3>2. vertices = {v \in Names : v.node \in Box /\ v.ei \in NearOnes(v.node, Past(v.node, layer'))}
        BY <1>1, <2>3 DEF NearOnes
      <3>. QED BY <1>2, <3>1, <3>2 DEF Layered
    <2>5. Layered(layer, layer)'
      BY <1>1, <2>1, <2>4, LayeredKept
    <2>6. told' = {lc \in Arb : lc[3] < layer'}
      BY <1>1, <2>2, ArbAssumption
    <2>7. LayersBuilt'
      BY <1>1, <1>3, <2>1, <2>2, <2>5, <2>6 DEF LayersBuilt
    <2>8. ClearedWhenIdle' /\ TrackedFromSeeds' /\ AllPlaced'
      BY <2>1 DEF ClearedWhenIdle, TrackedFromSeeds, AllPlaced
    <2>. QED BY <1>1, <2>7, <2>8 DEF LatticeInv
  <1>4. CASE start' # {}
    <2>1. PICK S : S = FirstNodes(start')
      OBVIOUS
    <2>2. pc' = "evaluate seeds" /\ AddNodes(S)
      BY <1>4, <2>1 DEF Generate
    <2>3. /\ nodes' = [lc \in S \cap Box |-> NewNode] /\ unevaluated' = S \cap Box
      BY <1>1, <1>2, <2>2 DEF AddNodes, WithNodes
    <2>4. Arb \cap FirstNodes(start') \subseteq S \cap Box
      BY <2>1, ArbAssumption
    <2>5. DOMAIN nodes' = S \cap Box /\ nodes' = [lc \in DOMAIN nodes' |-> NewNode]
      BY <2>3
    <2>6. TrackedFromSeeds'
      <3>1. told' = {} /\ (Arb \cap FirstNodes(start))' = Arb \cap FirstNodes(start')
        BY <1>1
      <3>. QED BY <1>1, <1>4, <2>2, <2>3, <2>4, <2>5, <3>1 DEF TrackedFromSeeds
    <2>7. ClearedWhenIdle' /\ LayersBuilt' /\ AllPlaced'
      BY <2>2 DEF ClearedWhenIdle, LayersBuilt, AllPlaced
    <2>. QED BY <1>1, <2>6, <2>7 DEF LatticeInv
  <1>. QED BY <1>3, <1>4

\* Values are told: those of a layer, of seeds, of pairs.
LEMMA EvaluateKeeps ==
  ASSUME LatticeInv, Evaluate
  PROVE  LatticeInv'
  <1>1. /\ field \in Fields /\ field' = field /\ start' = start /\ nodes' = nodes /\ vertices' = vertices
        /\ layer' = layer /\ newSeeds' = newSeeds /\ pairs' = pairs /\ visited' = visited
        /\ told' = told \cup (unevaluated \cap Arb) /\ unevaluated' = {}
    BY DEF Evaluate, walkVars, LatticeInv
  <1>2. CASE pc = "evaluate layer"
    <2>1. pc' = "end layer"
      BY <1>2 DEF Evaluate
    <2>2. /\ start = {} /\ layer \in Int /\ layer <= Top /\ Layered(layer, layer + 1)
          /\ told = {lc \in Arb : lc[3] < layer} /\ unevaluated = Layer(layer)
      BY <1>2 DEF LatticeInv, LayersBuilt
    <2>3. told' = {lc \in Arb : lc[3] < layer + 1}
      <3>1. \A lc \in Arb : lc \in Box /\ lc[3] \in Int
        BY ArbAssumption, LayerNumbers
      <3>2. \A lc \in Arb : lc \in Layer(layer) <=> lc[3] = layer
        BY <3>1 DEF Layer
      <3>3. \A lc \in Arb : lc[3] < layer + 1 <=> lc[3] < layer \/ lc[3] = layer
        BY <2>2, <3>1
      <3>. QED BY <1>1, <2>2, <3>2, <3>3
    <2>4. Layered(layer, layer + 1)'
      BY <1>1, <2>2, LayeredKept
    <2>5. LayersBuilt'
      BY <1>1, <2>1, <2>2, <2>3, <2>4 DEF LayersBuilt
    <2>6. ClearedWhenIdle' /\ TrackedFromSeeds' /\ AllPlaced'
      BY <2>1 DEF ClearedWhenIdle, TrackedFromSeeds, AllPlaced
    <2>. QED BY <1>1, <2>5, <2>6 DEF LatticeInv
  <1>3. CASE pc \in {"evaluate seeds", "evaluate pairs"}
    <2>1. pc' = IF pc = "evaluate seeds" THEN "track" ELSE "propagate"
      BY <1>3 DEF Evaluate
    <2>2. TrackedFromSeeds'
      <3>1. TrackedFromSeeds
        BY DEF LatticeInv
      <3>2. /\ start # {} /\ vertices = {}
            /\ nodes = [lc \in DOMAIN nodes |-> NewNode] /\ DOMAIN nodes \subseteq Box
            /\ told \subseteq Arb /\ Arb \cap FirstNodes(start) \subseteq told \cup unevaluated
            /\ pc = "evaluate seeds" => visited = {}
            /\ \A p \in visited : (\E a, b \in p : Crossed(a, b)) =>
                 \A n \in Common(p) : n \in DOMAIN nodes /\ \A a \in p : {a, n} \in visited \cup pairs
        BY <1>3, <3>1 DEF TrackedFromSeeds
      <3>3. told' \subseteq Arb /\ Arb \cap FirstNodes(start') \subseteq told'
        BY <1>1, <3>2
      <3>4. (\A p \in visited : (\E a, b \in p : Crossed(a, b)) =>
               \A n \in Common(p) : n \in DOMAIN nodes /\ \A a \in p : {a, n} \in visited \cup pairs)'
        BY <1>1, <3>2, FieldKept
      <3>. QED BY <1>1, <1>3, <2>1, <3>2, <3>3, <3>4 DEF TrackedFromSeeds
    <2>3. ClearedWhenIdle' /\ LayersBuilt' /\ AllPlaced'
      BY <2>1 DEF ClearedWhenIdle, LayersBuilt, AllPlaced
    <2>. QED BY <1>1, <2>2, <2>3 DEF LatticeInv
  <1>. QED BY <1>2, <1>3 DEF Evaluate, Evaluating

\* A layer of nodes is added.
LEMMA AddLayerKeeps ==
  ASSUME LatticeInv, AddLayer
  PROVE  LatticeInv'
  <1>1. /\ field \in Fields /\ field' = field /\ start' = start /\ vertices' = vertices /\ layer' = layer
        /\ told' = told /\ AddNodes(Layer(layer)) /\ pc = "layer" /\ pc' = "evaluate layer"
    BY DEF AddLayer, walkVars, LatticeInv
  <1>2. /\ start = {} /\ layer \in Int /\ layer <= Top /\ Layered(layer, layer)
        /\ told = {lc \in Arb : lc[3] < layer} /\ unevaluated = {}
    BY <1>1 DEF LatticeInv, LayersBuilt
  <1>. DEFINE D == DOMAIN nodes
              L == Layer(layer)
  <1>3. /\ D = {lc \in Box : lc[3] < layer /\ (lc[3] < layer - 1 => Across(lc) # {})}
        /\ \A lc \in D : /\ Filled(lc, nodes[lc]) /\ nodes[lc].all = Past(lc, layer)
                         /\ nodes[lc].near = NearOnes(lc, Past(lc, layer))
        /\ vertices = {v \in Names : v.node \in Box /\ v.ei \in NearOnes(v.node, Past(v.node, layer))}
    BY <1>2 DEF Layered
  <1>4. /\ L = {lc \in Box : lc[3] = layer} /\ \A lc \in Box : lc[3] \in Int
        /\ L \subseteq Box /\ L \cap D = {}
    BY <1>3, LayerNumbers DEF Layer
  <1>5. /\ nodes' = [lc \in D \cup L |-> IF lc \in D THEN nodes[lc] ELSE NewNode]
        /\ unevaluated' = L
    <2>1. L \cap Box = L /\ L \ D = L
      BY <1>4
    <2>. HIDE DEF L
    <2>. QED BY <1>1, <1>2, <2>1 DEF AddNodes, WithNodes, L
  <1>6. \A lc \in L : Past(lc, layer) = {}
    <2>1. SUFFICES ASSUME NEW lc \in L, NEW ei \in Past(lc, layer) PROVE FALSE
      OBVIOUS
    <2>2. ei \in EdgeIndex /\ Neighbor(lc, ei) \in Box /\ Later(lc, ei)[3] < layer /\ lc \in Box
      BY <1>4 DEF Past, Across
    <2>3. PICK z : z = Later(lc, ei)[3]
      OBVIOUS
    <2>4. z \in Int /\ lc[3] \in {z - 1, z} /\ lc[3] = layer
      BY <1>4, <2>2, <2>3, EdgeLayers
    <2>. QED BY <1>2, <2>2, <2>3, <2>4
  <1>. HIDE DEF D
  <1>7. PICK ns : ns = nodes'
    OBVIOUS
  <1>8. /\ DOMAIN ns = D \cup L /\ ns = [lc \in DOMAIN ns |-> ns[lc]]
        /\ \A lc \in D : ns[lc] = nodes[lc]
        /\ \A lc \in L : ns[lc] = NewNode
    <2>. HIDE DEF L
    <2>1. ns = [lc \in D \cup L |-> IF lc \in D THEN nodes[lc] ELSE NewNode]
      BY <1>5, <1>7
    <2>2. L \cap D = {}
      BY <1>4
    <2>. QED BY <2>1, <2>2
  <1>9. DOMAIN ns = {lc \in Box : lc[3] < layer + 1 /\ (lc[3] < layer - 1 => Across(lc) # {})}
    <2>1. \A lc \in Box : lc[3] < layer + 1 <=> lc[3] < layer \/ lc[3] = layer
      BY <1>2, <1>4
    <2>2. \A lc \in Box : lc[3] = layer => ~(lc[3] < layer - 1)
      BY <1>2, <1>4
    <2>. QED BY <1>3, <1>4, <1>8, <2>1, <2>2
  <1>10. \A lc \in DOMAIN ns : /\ Filled(lc, ns[lc]) /\ ns[lc].all = Past(lc, layer)
                               /\ ns[lc].near = NearOnes(lc, Past(lc, layer))
    <2>1. \A lc \in L : /\ Filled(lc, ns[lc]) /\ ns[lc].all = Past(lc, layer)
                        /\ ns[lc].near = NearOnes(lc, Past(lc, layer))
      BY <1>6, <1>8, NewNodeFilled
    <2>. QED BY <1>3, <1>8, <2>1
  <1>11. Layered(layer, layer + 1)'
    <2>1. \A lc, k : NearOnes(lc, Past(lc, k))' = NearOnes(lc, Past(lc, k)) /\ Past(lc, k)' = Past(lc, k)
      BY <1>1, FieldKept
    <2>2. \A lc : Across(lc)' = Across(lc)
      BY <1>1, FieldKept
    <2>3. (DOMAIN nodes = {lc \in Box : lc[3] < layer + 1 /\ (lc[3] < layer - 1 => Across(lc) # {})})'
      BY <1>1, <1>7, <1>9, <2>2
    <2>4. (\A lc \in DOMAIN nodes : /\ Filled(lc, nodes[lc]) /\ nodes[lc].all = Past(lc, layer)
                                    /\ nodes[lc].near = NearOnes(lc, Past(lc, layer)))'
      BY <1>1, <1>7, <1>10, <2>1
    <2>5. (vertices = {v \in Names : v.node \in Box /\ v.ei \in NearOnes(v.node, Past(v.node, layer))})'
      BY <1>1, <1>3, <2>1
    <2>6. (nodes = [lc \in DOMAIN nodes |-> nodes[lc]])'
      BY <1>7, <1>8
    <2>. QED BY <2>3, <2>4, <2>5, <2>6 DEF Layered
  <1>12. LayersBuilt'
    BY <1>1, <1>2, <1>5, <1>11 DEF LayersBuilt
  <1>13. ClearedWhenIdle' /\ TrackedFromSeeds' /\ AllPlaced'
    BY <1>1 DEF ClearedWhenIdle, TrackedFromSeeds, AllPlaced
  <1>. QED BY <1>1, <1>12, <1>13 DEF LatticeInv

\* The vertices up to a layer are generated and free nodes of the layer before are removed.
LEMMA EndLayerKeeps ==
  ASSUME LatticeInv, EndLayer
  PROVE  LatticeInv'
  <1>1. /\ field \in Fields /\ field' = field /\ start' = start /\ told' = told /\ unevaluated' = unevaluated
        /\ pc = "end layer" /\ pc' = (IF layer = Top THEN "refine" ELSE "layer") /\ layer' = layer + 1
        /\ vertices' = vertices \cup NewVertices(nodes, Layer(layer))
    BY DEF EndLayer, LatticeInv
  <1>2. /\ start = {} /\ layer \in Int /\ layer <= Top /\ Layered(layer, layer + 1)
        /\ told = {lc \in Arb : lc[3] < layer + 1} /\ unevaluated = {}
    BY <1>1 DEF LatticeInv, LayersBuilt
  <1>3. PICK schedule \in Schedules :
          nodes' = WithoutFree(Generated(nodes, Layer(layer), schedule), Finished(layer))
    BY DEF EndLayer
  <1>4. PICK ns, vs, k : ns = nodes' /\ vs = vertices' /\ k = layer
    OBVIOUS
  <1>5. /\ ns = [lc \in DOMAIN ns |-> ns[lc]]
        /\ DOMAIN ns = {lc \in Box : /\ lc[3] < k + 1
                                     /\ lc[3] < (IF k = Top THEN k + 1 ELSE k) => Across(lc) # {}}
        /\ \A lc \in DOMAIN ns : /\ Filled(lc, ns[lc]) /\ ns[lc].all = Past(lc, k + 1)
                                 /\ ns[lc].near = NearOnes(lc, Past(lc, k + 1))
        /\ vs = {v \in Names : v.node \in Box /\ v.ei \in NearOnes(v.node, Past(v.node, k + 1))}
    <2>1. vs = vertices \cup NewVertices(nodes, Layer(k))
      BY <1>1, <1>4
    <2>2. ns = WithoutFree(Generated(nodes, Layer(k), schedule), Finished(k))
      BY <1>3, <1>4
    <2>3. k \in Int /\ k <= Top /\ Layered(k, k + 1)
      BY <1>2, <1>4
    <2>. QED BY <2>1, <2>2, <2>3, LayerEnded
  <1>6. k \in Int /\ k <= Top
    BY <1>2, <1>4
  <1>7. CASE layer = Top
    <2>1. pc' = "refine" /\ k = Top
      BY <1>1, <1>4, <1>7
    <2>2. \A lc \in Box : lc[3] \in Int /\ lc[3] < k + 1
      BY <1>6, <2>1, LayerNumbers
    <2>3. ASSUME NEW lc \in Box PROVE Past(lc, k + 1) = EdgesAcross(Box, lc) /\ Across(lc) = EdgesAcross(Box, lc)
      <3>1. Across(lc) = EdgesAcross(Box, lc)
        BY DEF Across, EdgesAcross
      <3>2. \A ei \in Across(lc) : Later(lc, ei)[3] < k + 1
        BY <2>2, EdgeLayers DEF Across
      <3>. QED BY <3>1, <3>2 DEF Past
    <2>4. DOMAIN ns = {lc \in Box : EdgesAcross(Box, lc) # {}}
      <3>1. DOMAIN ns = {lc \in Box : lc[3] < k + 1 /\ (lc[3] < k + 1 => Across(lc) # {})}
        BY <1>5, <2>1
      <3>. QED BY <2>2, <2>3, <3>1
    <2>5. \A lc \in DOMAIN ns : EdgesAcross(DOMAIN ns, lc) = EdgesAcross(Box, lc)
      <3>1. Box \in SUBSET Box
        OBVIOUS
      <3>. QED BY <2>4, <3>1, AcrossKept
    <2>6. \A lc \in DOMAIN ns : /\ Filled(lc, ns[lc]) /\ ns[lc].all = EdgesAcross(DOMAIN ns, lc)
                                /\ ns[lc].near = NearOnes(lc, EdgesAcross(DOMAIN ns, lc))
      BY <1>5, <2>3, <2>4, <2>5
    <2>7. vs = {v \in Names : v.node \in DOMAIN ns /\ v.ei \in NearOnes(v.node, EdgesAcross(DOMAIN ns, v.node))}
      <3>1. \A v \in Names : v.node \in Box /\ v.ei \in NearOnes(v.node, Past(v.node, k + 1)) <=>
              v.node \in DOMAIN ns /\ v.ei \in NearOnes(v.node, EdgesAcross(DOMAIN ns, v.node))
        BY <2>3, <2>4, <2>5 DEF NearOnes
      <3>. QED BY <1>5, <3>1
    <2>8. DOMAIN ns \subseteq Box
      BY <2>4
    <2>9. Placed(ns, vs) /\ \A v \in vs : v.ei \in ns[v.node].near
      BY <1>1, <1>5, <2>6, <2>7, <2>8, FilledIsPlaced
    <2>10. told' = Arb
      <3>1. \A lc \in Arb : lc[3] < layer + 1
        BY <1>4, <2>2, ArbAssumption
      <3>. QED BY <1>1, <1>2, <3>1
    <2>11. AllPlaced'
      <3>1. Placed(nodes, vertices)'
        BY <1>1, <1>4, <2>9, FieldKept
      <3>2. (DOMAIN nodes = {lc \in Box : Across(lc) # {}})'
        BY <1>1, <1>4, <2>3, <2>4, FieldKept
      <3>3. (Arb \cap FirstNodes(start) \subseteq told)'
        BY <2>10
      <3>. QED BY <1>4, <2>1, <2>9, <3>1, <3>2, <3>3 DEF AllPlaced
    <2>12. ClearedWhenIdle' /\ LayersBuilt' /\ TrackedFromSeeds'
      BY <2>1 DEF ClearedWhenIdle, LayersBuilt, TrackedFromSeeds
    <2>. QED BY <1>1, <2>11, <2>12 DEF LatticeInv
  <1>8. CASE layer # Top
    <2>1. pc' = "layer" /\ layer' \in Int /\ layer' <= Top /\ layer' = k + 1 /\ layer' - 1 = k
      <3>1. Top \in Int /\ k # Top /\ layer' = k + 1
        BY <1>1, <1>4, <1>8, LayerNumbers
      <3>2. pc' = "layer"
        BY <1>1, <1>8
      <3>3. k + 1 \in Int /\ k + 1 <= Top /\ (k + 1) - 1 = k
        BY <1>6, <3>1
      <3>. QED BY <3>1, <3>2, <3>3
    <2>2. DOMAIN ns = {lc \in Box : lc[3] < layer' /\ (lc[3] < layer' - 1 => Across(lc) # {})}
      BY <1>4, <1>5, <1>8, <2>1
    <2>3. Layered(layer, layer)'
      <3>1. \A lc, i : NearOnes(lc, Past(lc, i))' = NearOnes(lc, Past(lc, i)) /\ Past(lc, i)' = Past(lc, i)
        BY <1>1, FieldKept
      <3>2. \A lc : Across(lc)' = Across(lc)
        BY <1>1, FieldKept
      <3>3. (DOMAIN nodes = {lc \in Box : lc[3] < layer /\ (lc[3] < layer - 1 => Across(lc) # {})})'
        BY <1>4, <2>2, <3>2
      <3>4. (\A lc \in DOMAIN nodes : /\ Filled(lc, nodes[lc]) /\ nodes[lc].all = Past(lc, layer)
                                      /\ nodes[lc].near = NearOnes(lc, Past(lc, layer)))'
        BY <1>4, <1>5, <2>1, <3>1
      <3>5. (vertices = {v \in Names : v.node \in Box /\ v.ei \in NearOnes(v.node, Past(v.node, layer))})'
        BY <1>4, <1>5, <2>1, <3>1
      <3>6. (nodes = [lc \in DOMAIN nodes |-> nodes[lc]])'
        BY <1>4, <1>5
      <3>. QED BY <3>3, <3>4, <3>5, <3>6 DEF Layered
    <2>4. LayersBuilt'
      BY <1>1, <1>2, <2>1, <2>3 DEF LayersBuilt
    <2>5. ClearedWhenIdle' /\ TrackedFromSeeds' /\ AllPlaced'
      BY <2>1 DEF ClearedWhenIdle, TrackedFromSeeds, AllPlaced
    <2>. QED BY <1>1, <2>4, <2>5 DEF LatticeInv
  <1>. QED BY <1>7, <1>8

\* What add_node for some more nodes leaves true of the lattice that is tracked.
LEMMA NodesAdded ==
  ASSUME NEW S, AddNodes(S), nodes = [lc \in DOMAIN nodes |-> NewNode], DOMAIN nodes \subseteq Box,
         unevaluated \subseteq DOMAIN nodes
  PROVE  /\ DOMAIN nodes' = DOMAIN nodes \cup (S \cap Box)
         /\ nodes' = [lc \in DOMAIN nodes' |-> NewNode] /\ DOMAIN nodes' \subseteq Box
         /\ unevaluated' \subseteq DOMAIN nodes' /\ unevaluated \subseteq unevaluated'
  <1>1. /\ nodes' = [lc \in DOMAIN nodes \cup (S \cap Box) |-> IF lc \in DOMAIN nodes THEN nodes[lc] ELSE NewNode]
        /\ unevaluated' = unevaluated \cup ((S \cap Box) \ DOMAIN nodes)
    BY DEF AddNodes, WithNodes
  <1>2. \A lc \in DOMAIN nodes : nodes[lc] = NewNode
    OBVIOUS
  <1>. QED BY <1>1, <1>2

\* A seed moves on, or is tracked.
LEMMA TrackSeedKeeps ==
  ASSUME LatticeInv, NEW s \in seeds, TrackSeed(s)
  PROVE  LatticeInv'
  <1>1. /\ field \in Fields /\ field' = field /\ start' = start /\ vertices' = vertices /\ told' = told
        /\ visited' = visited /\ pc = "track" /\ pc' = "track"
    BY DEF TrackSeed, LatticeInv
  <1>2. /\ start # {} /\ vertices = {} /\ visited = {}
        /\ nodes = [lc \in DOMAIN nodes |-> NewNode] /\ DOMAIN nodes \subseteq Box
        /\ unevaluated \subseteq DOMAIN nodes
        /\ told \subseteq Arb /\ Arb \cap FirstNodes(start) \subseteq told \cup unevaluated
        /\ newSeeds = {} => unevaluated = {}
    BY <1>1 DEF LatticeInv, TrackedFromSeeds
  <1>3. \/ nodes' = nodes /\ unevaluated' = unevaluated /\ newSeeds' = newSeeds
        \/ newSeeds' # {} /\ \E S : AddNodes(S)
    BY DEF TrackSeed
  <1>4. /\ nodes' = [lc \in DOMAIN nodes' |-> NewNode] /\ DOMAIN nodes' \subseteq Box
        /\ unevaluated' \subseteq DOMAIN nodes' /\ unevaluated \subseteq unevaluated'
        /\ newSeeds' = {} => unevaluated' = {}
    BY <1>2, <1>3, NodesAdded
  <1>5. TrackedFromSeeds'
    BY <1>1, <1>2, <1>4 DEF TrackedFromSeeds
  <1>6. ClearedWhenIdle' /\ LayersBuilt' /\ AllPlaced'
    BY <1>1 DEF ClearedWhenIdle, LayersBuilt, AllPlaced
  <1>. QED BY <1>1, <1>5, <1>6 DEF LatticeInv

\* All seeds of a round have been tracked.
LEMMA EndRoundKeeps ==
  ASSUME LatticeInv, EndRound \/ EndTrack
  PROVE  LatticeInv'
  <1>1. /\ field \in Fields /\ field' = field /\ start' = start /\ vertices' = vertices /\ told' = told
        /\ visited' = visited /\ pairs' = pairs /\ nodes' = nodes /\ unevaluated' = unevaluated /\ pc = "track"
        /\ pc' = "evaluate seeds" \/ (pc' = "propagate" /\ newSeeds = {})
    BY DEF EndRound, EndTrack, walkVars, LatticeInv
  <1>2. /\ start # {} /\ vertices = {} /\ visited = {}
        /\ nodes = [lc \in DOMAIN nodes |-> NewNode] /\ DOMAIN nodes \subseteq Box
        /\ unevaluated \subseteq DOMAIN nodes
        /\ told \subseteq Arb /\ Arb \cap FirstNodes(start) \subseteq told \cup unevaluated
        /\ newSeeds = {} => unevaluated = {}
    BY <1>1 DEF LatticeInv, TrackedFromSeeds
  <1>3. TrackedFromSeeds'
    BY <1>1, <1>2 DEF TrackedFromSeeds
  <1>4. ClearedWhenIdle' /\ LayersBuilt' /\ AllPlaced'
    BY <1>1 DEF ClearedWhenIdle, LayersBuilt, AllPlaced
  <1>. QED BY <1>1, <1>3, <1>4 DEF LatticeInv

\* Pairs across the surface bring the pairs with their common neighbors.
LEMMA PropagateKeeps ==
  ASSUME LatticeInv, Propagate
  PROVE  LatticeInv'
  <1>1. /\ field \in Fields /\ field' = field /\ start' = start /\ vertices' = vertices /\ told' = told
        /\ visited' = visited \cup pairs /\ pairs' = UNION {NewPairs(p) : p \in Crossing}
        /\ pc = "propagate" /\ pc' = "evaluate pairs"
    BY DEF Propagate, LatticeInv
  <1>2. /\ start # {} /\ vertices = {}
        /\ nodes = [lc \in DOMAIN nodes |-> NewNode] /\ DOMAIN nodes \subseteq Box
        /\ unevaluated \subseteq DOMAIN nodes
        /\ told \subseteq Arb /\ Arb \cap FirstNodes(start) \subseteq told \cup unevaluated
        /\ \A p \in visited : (\E a, b \in p : Crossed(a, b)) =>
             \A n \in Common(p) : n \in DOMAIN nodes /\ \A a \in p : {a, n} \in visited \cup pairs
    BY <1>1 DEF LatticeInv, TrackedFromSeeds
  <1>3. PICK S : S = UNION {Common(p) : p \in Crossing}
    OBVIOUS
  <1>4. AddNodes(S)
    BY <1>3 DEF Propagate
  <1>5. /\ DOMAIN nodes' = DOMAIN nodes \cup (S \cap Box)
        /\ nodes' = [lc \in DOMAIN nodes' |-> NewNode] /\ DOMAIN nodes' \subseteq Box
        /\ unevaluated' \subseteq DOMAIN nodes' /\ unevaluated \subseteq unevaluated'
    BY <1>2, <1>4, NodesAdded
  <1>6. ASSUME NEW p \in visited', \E a, b \in p : Crossed(a, b), NEW n \in Common(p)
        PROVE  n \in DOMAIN nodes' /\ \A a \in p : {a, n} \in visited' \cup pairs'
    <2>1. CASE p \in visited
      BY <1>1, <1>2, <1>5, <1>6, <2>1
    <2>2. CASE p \notin visited
      <3>1. p \in Crossing
        BY <1>1, <1>6, <2>2 DEF Crossing
      <3>2. n \in S /\ n \in Box
        BY <1>3, <3>1 DEF Common
      <3>3. \A a \in p : {a, n} \in NewPairs(p)
        BY DEF NewPairs
      <3>4. \A a \in p : {a, n} \in pairs'
        BY <1>1, <3>1, <3>3
      <3>. QED BY <1>5, <3>2, <3>4
    <2>. QED BY <2>1, <2>2
  <1>7. TrackedFromSeeds'
    <2>1. (\A p \in visited : (\E a, b \in p : Crossed(a, b)) =>
             \A n \in Common(p) : n \in DOMAIN nodes /\ \A a \in p : {a, n} \in visited \cup pairs)'
      BY <1>1, <1>6, FieldKept
    <2>. QED BY <1>1, <1>2, <1>5, <2>1 DEF TrackedFromSeeds
  <1>8. ClearedWhenIdle' /\ LayersBuilt' /\ AllPlaced'
    BY <1>1 DEF ClearedWhenIdle, LayersBuilt, AllPlaced
  <1>. QED BY <1>1, <1>7, <1>8 DEF LatticeInv

\* The vertices of all nodes are generated after tracking.
LEMMA GenerateAllKeeps ==
  ASSUME LatticeInv, GenerateAll
  PROVE  LatticeInv'
  <1>1. /\ field \in Fields /\ field' = field /\ start' = start /\ told' = told
        /\ pc = "propagate" /\ pc' = "refine" /\ vertices' = NewVertices(nodes, DOMAIN nodes)
    BY DEF GenerateAll, LatticeInv
  <1>2. /\ start # {} /\ nodes = [lc \in DOMAIN nodes |-> NewNode] /\ DOMAIN nodes \subseteq Box
        /\ Arb \cap FirstNodes(start) \subseteq told
    BY <1>1 DEF LatticeInv, TrackedFromSeeds
  <1>3. PICK schedule \in Schedules :
          nodes' = WithoutFree(Generated(nodes, DOMAIN nodes, schedule), DOMAIN nodes)
    BY DEF GenerateAll
  <1>4. PICK ns, vs : ns = nodes' /\ vs = vertices'
    OBVIOUS
  <1>5. Placed(ns, vs) /\ \A v \in vs : v.ei \in ns[v.node].near
    BY <1>1, <1>2, <1>3, <1>4, AllGenerated
  <1>6. Placed(nodes, vertices)'
    BY <1>1, <1>4, <1>5, FieldKept
  <1>7. AllPlaced'
    BY <1>1, <1>2, <1>4, <1>5, <1>6 DEF AllPlaced
  <1>8. ClearedWhenIdle' /\ LayersBuilt' /\ TrackedFromSeeds'
    BY <1>1 DEF ClearedWhenIdle, LayersBuilt, TrackedFromSeeds
  <1>. QED BY <1>1, <1>7, <1>8 DEF LatticeInv

\* Vertices move to the other ends of their edges.
LEMMA RefineKeeps ==
  ASSUME LatticeInv, RefineVertices
  PROVE  LatticeInv'
  <1>1. /\ field \in Fields /\ field' = field /\ start' = start /\ told' = told /\ vertices' = vertices
        /\ pc = "refine" /\ pc' = "cluster"
    BY DEF RefineVertices, LatticeInv
  <1>2. /\ Placed(nodes, vertices) /\ Arb \cap FirstNodes(start) \subseteq told
        /\ \A v \in vertices : v.ei \in nodes[v.node].near
        /\ start = {} => DOMAIN nodes = {lc \in Box : Across(lc) # {}}
    BY <1>1 DEF LatticeInv, AllPlaced
  <1>3. PICK m \in Moves : nodes' = FoldSet(MoveVertex, nodes, m \cap vertices)
    BY DEF RefineVertices
  <1>4. IsFiniteSet(m \cap vertices)
    <2>. DEFINE F == m \cap vertices
                f == [v \in F |-> <<v.node, v.ei>>]
    <2>1. \A v \in F : v \in [node : Box, ei : EdgeIndex]
      BY MovesAssumption
    <2>2. f \in Injection(F, Box \X EdgeIndex)
      <3>1. f \in [F -> Box \X EdgeIndex]
        BY <2>1
      <3>2. \A v, w \in F : f[v] = f[w] => v = w
        BY <2>1
      <3>. HIDE DEF F, f
      <3>. QED BY <3>1, <3>2 DEF Injection, IsInjective
    <2>3. IsFiniteSet(Box \X EdgeIndex)
      BY BoxAssumption, EdgesFinite, FS_Product
    <2>. QED BY <2>2, <2>3, FS_Injection
  <1>5. Placed(nodes', vertices) /\ DOMAIN nodes' = DOMAIN nodes
    <2>1. PICK ns, vs, M : ns = nodes /\ vs = vertices /\ M = m \cap vertices
      OBVIOUS
    <2>2. Placed(ns, vs) /\ M \in SUBSET vs /\ IsFiniteSet(M) /\ \A v \in vs : v.ei \in ns[v.node].near
      BY <1>2, <1>4, <2>1
    <2>3. LET r == FoldSet(MoveVertex, ns, M) IN Placed(r, vs) /\ DOMAIN r = DOMAIN ns
      BY <1>1, <2>2, Refined
    <2>. QED BY <1>3, <2>1, <2>3
  <1>6. Placed(nodes, vertices)'
    BY <1>1, <1>5, FieldKept
  <1>7. AllPlaced'
    <2>1. \A lc : Across(lc)' = Across(lc)
      BY <1>1, FieldKept
    <2>. QED BY <1>1, <1>2, <1>5, <1>6, <2>1 DEF AllPlaced
  <1>8. ClearedWhenIdle' /\ LayersBuilt' /\ TrackedFromSeeds'
    BY <1>1 DEF ClearedWhenIdle, LayersBuilt, TrackedFromSeeds
  <1>. QED BY <1>1, <1>7, <1>8 DEF LatticeInv

\* Vertices are clustered, the mesh is checked, the field function throws, all is cleared.
LEMMA MeshKeeps ==
  ASSUME LatticeInv, ClusterVertices \/ CheckMesh \/ FieldThrows \/ Clear
  PROVE  LatticeInv'
  <1>1. field \in Fields /\ field' = field
    BY DEF LatticeInv, ClusterVertices, CheckMesh, Unclustered, Returned, ValueThrows, FieldThrows,
           Clear
  <1>2. pc \in {"refine", "cluster", "mesh"} => Arb \cap FirstNodes(start) \subseteq told
    BY DEF LatticeInv, AllPlaced
  <1>3. CASE ClusterVertices \/ (CheckMesh /\ pc' = "mesh")
    <2>1. pc' = "mesh" /\ told' = told /\ start' = start /\ pc \in {"cluster", "mesh"}
      BY <1>3 DEF ClusterVertices, CheckMesh, Unclustered, Returned, ValueThrows
    <2>2. AllPlaced'
      BY <1>2, <2>1 DEF AllPlaced
    <2>3. ClearedWhenIdle' /\ LayersBuilt' /\ TrackedFromSeeds'
      BY <2>1 DEF ClearedWhenIdle, LayersBuilt, TrackedFromSeeds
    <2>. QED BY <1>1, <2>2, <2>3 DEF LatticeInv
  <1>4. CASE Clear \/ (CheckMesh /\ pc' = "idle")
    <2>1. pc' = "idle" /\ LatticeCleared
      BY <1>4 DEF Clear, CheckMesh, Unclustered, Returned, ValueThrows
    <2>2. ClearedWhenIdle'
      BY <2>1 DEF ClearedWhenIdle, LatticeCleared
    <2>3. LayersBuilt' /\ TrackedFromSeeds' /\ AllPlaced'
      BY <2>1 DEF LayersBuilt, TrackedFromSeeds, AllPlaced
    <2>. QED BY <1>1, <2>2, <2>3 DEF LatticeInv
  <1>5. CASE FieldThrows \/ (CheckMesh /\ pc' = "failed")
    <2>1. pc' = "failed"
      BY <1>5 DEF FieldThrows
    <2>2. ClearedWhenIdle' /\ LayersBuilt' /\ TrackedFromSeeds' /\ AllPlaced'
      BY <2>1 DEF ClearedWhenIdle, LayersBuilt, TrackedFromSeeds, AllPlaced
    <2>. QED BY <1>1, <2>2 DEF LatticeInv
  <1>6. CheckMesh => pc' \in {"mesh", "idle", "failed"}
    BY DEF CheckMesh, Unclustered, Returned, ValueThrows
  <1>. QED BY <1>3, <1>4, <1>5, <1>6

\* Nothing happens.
LEMMA NothingKeeps ==
  ASSUME LatticeInv, UNCHANGED vars
  PROVE  LatticeInv'
  <1>1. /\ field' = field /\ start' = start /\ nodes' = nodes /\ unevaluated' = unevaluated /\ told' = told
        /\ vertices' = vertices /\ layer' = layer /\ newSeeds' = newSeeds /\ pairs' = pairs
        /\ visited' = visited /\ pc' = pc /\ field \in Fields
    BY DEF vars, walkVars, LatticeInv
  <1>2. ClearedWhenIdle'
    BY <1>1 DEF LatticeInv, ClearedWhenIdle
  <1>3. LayersBuilt'
    <2>1. LayersBuilt
      BY DEF LatticeInv
    <2>2. \A k, m : Layered(k, m)' <=> Layered(k, m)
      BY <1>1, LayeredKept
    <2>. QED BY <1>1, <2>1, <2>2 DEF LayersBuilt
  <1>4. TrackedFromSeeds'
    <2>1. TrackedFromSeeds
      BY DEF LatticeInv
    <2>2. \A a, b : Crossed(a, b)' <=> Crossed(a, b)
      BY <1>1, FieldKept
    <2>. QED BY <1>1, <2>1, <2>2 DEF TrackedFromSeeds
  <1>5. AllPlaced'
    <2>1. AllPlaced
      BY DEF LatticeInv
    <2>2. (\A ns, vs : Placed(ns, vs)' <=> Placed(ns, vs)) /\ \A lc : Across(lc)' = Across(lc)
      BY <1>1, FieldKept
    <2>. QED BY <1>1, <2>1, <2>2 DEF AllPlaced
  <1>. QED BY <1>1, <1>2, <1>3, <1>4, <1>5 DEF LatticeInv

\* The invariant holds throughout.
LEMMA LatticeInvariant == Spec => []LatticeInv
  <1>1. LatticeInv /\ [Next]_vars => LatticeInv'
    <2>. SUFFICES ASSUME LatticeInv, [Next]_vars PROVE LatticeInv'
      OBVIOUS
    <2>1. ASSUME LatticeStep PROVE LatticeInv'
      BY <2>1, EvaluateKeeps, AddLayerKeeps, EndLayerKeeps, TrackSeedKeeps, EndRoundKeeps, PropagateKeeps,
         GenerateAllKeeps, RefineKeeps DEF LatticeStep
    <2>. QED BY <2>1, GenerateKeeps, MeshKeeps, NothingKeeps DEF Next, Working
  <1>. QED BY <1>1, StartsIdle, PTL DEF Spec

\* Nothing that get_mesh needs is missing from the lattice, however large it is, whatever
\* the field, the seeds and the vertices that change over: an edge across the surface has
\* one vertex and both of its ends find it, what is tracked from seeds goes all around,
\* and of the values around the arbitrary point those of nodes that the call began with (all of
\* them without seeds) are there when they are read.
THEOREM LatticeIsComplete == Spec => []LatticeComplete
  <1>1. LatticeInv => LatticeComplete
    <2>. SUFFICES ASSUME LatticeInv PROVE LatticeComplete
      OBVIOUS
    <2>1. EdgesHaveTheirVertex
      BY PlacedVertices DEF LatticeInv, AllPlaced
    <2>2. TrackedComplete
      BY DEF LatticeInv, TrackedFromSeeds, TrackedComplete
    <2>3. ArbitraryValueKnown
      BY DEF LatticeInv, AllPlaced, ArbitraryValueKnown
    <2>. QED BY <2>1, <2>2, <2>3 DEF LatticeComplete
  <1>. QED BY <1>1, LatticeInvariant, PTL

-----------------------------------------------------------------------------
\* The corners of a tetrahedron are next to each other, along its edges.
From == <<1, 1, 1, 2, 3, 4>>
To == <<2, 3, 4, 3, 4, 2>>

\* A function over 1..3 is a sequence.
LEMMA ThreeLong ==
  ASSUME NEW S, NEW s \in [1..3 -> S]
  PROVE  s \in Seq(S) /\ Len(s) = 3
  <1>1. s \in Seq(S)
    BY SeqDef
  <1>2. Len(s) \in Nat /\ DOMAIN s = 1..Len(s) /\ DOMAIN s = 1..3
    BY <1>1, LenProperties
  <1>. QED BY <1>1, <1>2

\* The corners of a tetrahedron and the first and last three of its edges.
LEMMA CornerFacts ==
  ASSUME NEW lc \in Coordinates, NEW i \in 1..6
  PROVE  /\ DOMAIN Corners(lc, i) = 1..4 /\ Corners(lc, i)[1] = lc
         /\ \A k \in 1..3 : /\ InnerEdges[i][k] \in EdgeIndex /\ OuterEdges[i][k] \in EdgeIndex
                            /\ Corners(lc, i)[k + 1] = Neighbor(lc, InnerEdges[i][k])
                            /\ TetEdges(lc, i)[k] = [node |-> lc, ei |-> InnerEdges[i][k]]
                            /\ TetEdges(lc, i)[k + 3] =
                                 [node |-> Neighbor(lc, InnerEdges[i][k]), ei |-> OuterEdges[i][k]]
  <1>1. \A k \in 1..3 : InnerEdges[i][k] \in EdgeIndex /\ OuterEdges[i][k] \in EdgeIndex
    BY DEF InnerEdges, OuterEdges, EdgeIndex
  <1>2. PICK in, out : in = InnerEdges[i] /\ out = OuterEdges[i]
    OBVIOUS
  <1>3. PICK ends : ends = [k \in 1..3 |-> Neighbor(lc, in[k])]
    OBVIOUS
  <1>4. ends \in Seq(Coordinates) /\ Len(ends) = 3 /\ <<lc>> \in Seq(Coordinates) /\ Len(<<lc>>) = 1
    <2>1. \A k \in 1..3 : ends[k] \in Coordinates
      BY <1>1, <1>2, <1>3, NeighborFacts
    <2>2. ends \in [1..3 -> Coordinates]
      BY <1>3, <2>1
    <2>. QED BY <2>2, ThreeLong
  <1>5. Corners(lc, i) = <<lc>> \o ends
    BY <1>2, <1>3 DEF Corners
  <1>6. PICK cs : cs = <<lc>> \o ends
    OBVIOUS
  <1>7. Len(cs) = 4 /\ DOMAIN cs = 1..4 /\ cs[1] = lc /\ \A k \in 1..3 : cs[k + 1] = ends[k]
    <2>1. cs \in Seq(Coordinates) /\ Len(cs) = 4
      BY <1>4, <1>6, ConcatProperties
    <2>. QED BY <1>4, <1>6, <2>1
  <1>8. PICK es, fs : /\ es = [k \in 1..3 |-> [node |-> lc, ei |-> in[k]]]
                      /\ fs = [k \in 1..3 |-> [node |-> Neighbor(lc, in[k]), ei |-> out[k]]]
    OBVIOUS
  <1>9. es \in Seq(Names) /\ fs \in Seq(Names) /\ Len(es) = 3 /\ Len(fs) = 3
    <2>1. \A k \in 1..3 : Neighbor(lc, in[k]) \in Coordinates /\ in[k] \in EdgeIndex /\ out[k] \in EdgeIndex
      BY <1>1, <1>2, NeighborFacts
    <2>2. es \in [1..3 -> Names] /\ fs \in [1..3 -> Names]
      BY <1>8, <2>1 DEF Names
    <2>. QED BY <2>2, ThreeLong
  <1>10. TetEdges(lc, i) = es \o fs
    BY <1>2, <1>8 DEF TetEdges
  <1>11. PICK all : all = es \o fs
    OBVIOUS
  <1>12. \A k \in 1..3 : all[k] = es[k] /\ all[k + 3] = fs[k]
    <2>1. \A k \in 1..(3 + 3) : all[k] = IF k <= 3 THEN es[k] ELSE fs[k - 3]
      <3>1. \A k \in 1..(Len(es) + Len(fs)) : (es \o fs)[k] = IF k <= Len(es) THEN es[k] ELSE fs[k - Len(es)]
        BY <1>9, ConcatProperties
      <3>. QED BY <1>9, <1>11, <3>1
    <2>2. \A k \in 1..3 : k \in 1..6 /\ k + 3 \in 1..6 /\ k <= 3 /\ ~(k + 3 <= 3) /\ (k + 3) - 3 = k
      OBVIOUS
    <2>. QED BY <2>1, <2>2
  <1>13. \A k \in 1..3 : /\ es[k] = [node |-> lc, ei |-> in[k]]
                         /\ fs[k] = [node |-> Neighbor(lc, in[k]), ei |-> out[k]]
    BY <1>8
  <1>14. \A k \in 1..3 : ends[k] = Neighbor(lc, in[k])
    BY <1>3
  <1>15. DOMAIN Corners(lc, i) = 1..4 /\ Corners(lc, i)[1] = lc
    BY <1>5, <1>6, <1>7
  <1>16. \A k \in 1..3 : InnerEdges[i][k] = in[k] /\ OuterEdges[i][k] = out[k]
    BY <1>2
  <1>17. \A k \in 1..3 : Corners(lc, i)[k + 1] = Neighbor(lc, in[k])
    BY <1>5, <1>6, <1>7, <1>14
  <1>18. \A k \in 1..3 : /\ TetEdges(lc, i)[k] = [node |-> lc, ei |-> in[k]]
                         /\ TetEdges(lc, i)[k + 3] = [node |-> Neighbor(lc, in[k]), ei |-> out[k]]
    BY <1>10, <1>11, <1>12, <1>13
  <1>. QED BY <1>1, <1>15, <1>16, <1>17, <1>18

\* The step along an edge.
Step(ei) == IF ei < 7 THEN Deltas[ei + 1] ELSE [c \in 1..3 |-> -Deltas[ei - 6][c]]

\* The outer edges of a tetrahedron close the triangles of the inner ones.
LEMMA OuterSteps ==
  ASSUME NEW i \in 1..6, NEW k \in 1..3, NEW c \in 1..3
  PROVE  Step(InnerEdges[i][k])[c] + Step(OuterEdges[i][k])[c] = Step(InnerEdges[i][(k % 3) + 1])[c]
  <1>1. \/ k = 1 /\ (k % 3) + 1 = 2
        \/ k = 2 /\ (k % 3) + 1 = 3
        \/ k = 3 /\ (k % 3) + 1 = 1
    <2>1. k = 1 \/ k = 2 \/ k = 3
      OBVIOUS
    <2>2. (1 % 3) + 1 = 2 /\ (2 % 3) + 1 = 3 /\ (3 % 3) + 1 = 1
      OBVIOUS
    <2>. QED BY <2>1, <2>2
  <1>2. c = 1 \/ c = 2 \/ c = 3
    OBVIOUS
  <1>3. i = 1 \/ i = 2 \/ i = 3 \/ i = 4 \/ i = 5 \/ i = 6
    OBVIOUS
  <1>4. /\ Step(0)[c] = <<1, 0, 0>>[c] /\ Step(1)[c] = <<1, 0, 1>>[c]
        /\ Step(2)[c] = <<0, 0, 1>>[c] /\ Step(3)[c] = <<1, 1, 0>>[c]
        /\ Step(4)[c] = <<1, 1, 1>>[c] /\ Step(5)[c] = <<0, 1, 1>>[c]
        /\ Step(6)[c] = <<0, 1, 0>>[c] /\ Step(7)[c] = <<-1, 0, 0>>[c]
        /\ Step(8)[c] = <<-1, 0, -1>>[c] /\ Step(9)[c] = <<0, 0, -1>>[c]
        /\ Step(10)[c] = <<-1, -1, 0>>[c] /\ Step(11)[c] = <<-1, -1, -1>>[c]
        /\ Step(12)[c] = <<0, -1, -1>>[c] /\ Step(13)[c] = <<0, -1, 0>>[c]
    BY <1>2 DEF Step, Deltas
  <1>5. CASE i = 1
    <2>1. InnerEdges[i] = <<4, 5, 2>> /\ OuterEdges[i] = <<7, 13, 3>>
      BY <1>5 DEF InnerEdges, OuterEdges
    <2>. QED BY <1>1, <1>2, <1>4, <2>1
  <1>6. CASE i = 2
    <2>1. InnerEdges[i] = <<4, 2, 1>> /\ OuterEdges[i] = <<10, 0, 6>>
      BY <1>6 DEF InnerEdges, OuterEdges
    <2>. QED BY <1>1, <1>2, <1>4, <2>1
  <1>7. CASE i = 3
    <2>1. InnerEdges[i] = <<4, 1, 0>> /\ OuterEdges[i] = <<13, 9, 5>>
      BY <1>7 DEF InnerEdges, OuterEdges
    <2>. QED BY <1>1, <1>2, <1>4, <2>1
  <1>8. CASE i = 4
    <2>1. InnerEdges[i] = <<4, 0, 3>> /\ OuterEdges[i] = <<12, 6, 2>>
      BY <1>8 DEF InnerEdges, OuterEdges
    <2>. QED BY <1>1, <1>2, <1>4, <2>1
  <1>9. CASE i = 5
    <2>1. InnerEdges[i] = <<4, 3, 6>> /\ OuterEdges[i] = <<9, 7, 1>>
      BY <1>9 DEF InnerEdges, OuterEdges
    <2>. QED BY <1>1, <1>2, <1>4, <2>1
  <1>10. CASE i = 6
    <2>1. InnerEdges[i] = <<4, 6, 5>> /\ OuterEdges[i] = <<8, 2, 0>>
      BY <1>10 DEF InnerEdges, OuterEdges
    <2>. QED BY <1>1, <1>2, <1>4, <2>1
  <1>. QED BY <1>3, <1>5, <1>6, <1>7, <1>8, <1>9, <1>10

\* A neighbor is one step away.
LEMMA StepIs ==
  ASSUME NEW lc \in Coordinates, NEW ei \in EdgeIndex
  PROVE  /\ Neighbor(lc, ei) = [c \in 1..3 |-> lc[c] + Step(ei)[c]]
         /\ \A c \in 1..3 : Step(ei)[c] \in Int /\ lc[c] \in Int
  <1>1. ASSUME NEW d \in 1..7, NEW c \in 1..3 PROVE Deltas[d][c] \in Int
    BY DEF Deltas
  <1>2. CASE ei < 7
    <2>1. ei + 1 \in 1..7
      BY <1>2 DEF EdgeIndex
    <2>2. Step(ei) = Deltas[ei + 1] /\ Neighbor(lc, ei) = [c \in 1..3 |-> lc[c] + Deltas[ei + 1][c]]
      BY <1>2 DEF Step, Neighbor
    <2>. QED BY <1>1, <2>1, <2>2 DEF Coordinates
  <1>3. CASE ~(ei < 7)
    <2>1. ei - 6 \in 1..7
      BY <1>3 DEF EdgeIndex
    <2>2. /\ Step(ei) = [c \in 1..3 |-> -Deltas[ei - 6][c]]
          /\ Neighbor(lc, ei) = [c \in 1..3 |-> lc[c] - Deltas[ei - 6][c]]
      BY <1>3 DEF Step, Neighbor
    <2>3. \A c \in 1..3 : Deltas[ei - 6][c] \in Int
      BY <1>1, <2>1
    <2>4. \A c \in 1..3 : lc[c] \in Int /\ Step(ei)[c] \in Int /\ lc[c] + Step(ei)[c] = lc[c] - Deltas[ei - 6][c]
      BY <2>2, <2>3 DEF Coordinates
    <2>. QED BY <2>2, <2>4
  <1>. QED BY <1>2, <1>3

\* An edge of a tetrahedron joins two of its corners.
LEMMA EdgeEnds ==
  ASSUME NEW lc \in Coordinates, NEW i \in 1..6, NEW m \in 1..6
  PROVE  LET e == TetEdges(lc, i)[m]
             cs == Corners(lc, i)
         IN  /\ e = [node |-> e.node, ei |-> e.ei] /\ e.ei \in EdgeIndex
             /\ e.node = cs[From[m]] /\ Neighbor(e.node, e.ei) = cs[To[m]]
  <1>1. PICK e, cs, in, out : /\ e = TetEdges(lc, i)[m] /\ cs = Corners(lc, i)
                              /\ in = InnerEdges[i] /\ out = OuterEdges[i]
    OBVIOUS
  <1>2. /\ cs[1] = lc
        /\ \A k \in 1..3 : in[k] \in EdgeIndex /\ out[k] \in EdgeIndex /\ cs[k + 1] = Neighbor(lc, in[k])
    BY <1>1, CornerFacts
  <1>3. CASE m \in 1..3
    <2>1. e = [node |-> lc, ei |-> in[m]]
      BY <1>1, <1>3, CornerFacts
    <2>2. From[m] = 1 /\ To[m] = m + 1
      BY <1>3 DEF From, To
    <2>. QED BY <1>1, <1>2, <1>3, <2>1, <2>2
  <1>4. CASE m \in 4..6
    <2>1. PICK k \in 1..3 : m = k + 3
      <3>1. m - 3 \in 1..3 /\ m = (m - 3) + 3
        BY <1>4
      <3>. QED BY <3>1
    <2>2. e = [node |-> Neighbor(lc, in[k]), ei |-> out[k]]
      <3>1. TetEdges(lc, i)[k + 3] = [node |-> Neighbor(lc, InnerEdges[i][k]), ei |-> OuterEdges[i][k]]
        BY CornerFacts
      <3>. QED BY <1>1, <2>1, <3>1
    <2>3. From[m] = k + 1 /\ To[m] = (k % 3) + 2 /\ (k % 3) + 1 \in 1..3 /\ (k % 3) + 2 = ((k % 3) + 1) + 1
      BY <2>1 DEF From, To
    <2>4. PICK k1 \in 1..3 : k1 = (k % 3) + 1
      BY <2>3
    <2>5. PICK a, x, y, z : a = Neighbor(lc, in[k]) /\ x = in[k] /\ y = out[k] /\ z = in[k1]
      OBVIOUS
    <2>6. a \in Coordinates /\ x \in EdgeIndex /\ y \in EdgeIndex /\ z \in EdgeIndex
      BY <1>2, <2>5, NeighborFacts
    <2>7. \A c \in 1..3 : Step(x)[c] + Step(y)[c] = Step(z)[c]
      BY <1>1, <2>4, <2>5, OuterSteps
    <2>8. /\ a = [c \in 1..3 |-> lc[c] + Step(x)[c]]
          /\ Neighbor(a, y) = [c \in 1..3 |-> a[c] + Step(y)[c]]
          /\ Neighbor(lc, z) = [c \in 1..3 |-> lc[c] + Step(z)[c]]
          /\ \A c \in 1..3 : lc[c] \in Int /\ Step(x)[c] \in Int /\ Step(y)[c] \in Int
      BY <2>5, <2>6, StepIs
    <2>9. Neighbor(a, y) = Neighbor(lc, z)
      <3>1. \A c \in 1..3 : a[c] + Step(y)[c] = lc[c] + Step(z)[c]
        <4>. TAKE c \in 1..3
        <4>1. PICK p, q, r \in Int : p = lc[c] /\ q = Step(x)[c] /\ r = Step(y)[c]
          BY <2>8
        <4>2. a[c] = p + q /\ Step(z)[c] = q + r
          BY <2>7, <2>8, <4>1
        <4>. QED BY <4>1, <4>2
      <3>. QED BY <2>8, <3>1
    <2>10. cs[From[m]] = a /\ cs[To[m]] = Neighbor(lc, z)
      BY <1>2, <2>3, <2>4, <2>5
    <2>. QED BY <1>1, <2>2, <2>5, <2>6, <2>9, <2>10
  <1>5. m \in 1..3 \/ m \in 4..6
    OBVIOUS
  <1>. QED BY <1>3, <1>4, <1>5

\* The faces of a tetrahedron have their vertices on edges across the surface.
Crossing3(neg, t) ==
  \A k \in DOMAIN t : \A j \in 1..3 :
    t[k][j] + 1 \in 1..6 /\ (From[t[k][j] + 1] \in neg <=> To[t[k][j] + 1] \notin neg)

\* The seven cases of the table.
LEMMA BaseCases ==
  ASSUME NEW neg \in DOMAIN Base
  PROVE  \/ neg = {1} /\ Base[neg] = <<<<0, 1, 2>>>>
         \/ neg = {2} /\ Base[neg] = <<<<0, 5, 3>>>>
         \/ neg = {3} /\ Base[neg] = <<<<1, 3, 4>>>>
         \/ neg = {4} /\ Base[neg] = <<<<2, 4, 5>>>>
         \/ neg = {1, 2} /\ Base[neg] = <<<<5, 3, 1>>, <<5, 1, 2>>>>
         \/ neg = {1, 3} /\ Base[neg] = <<<<0, 3, 4>>, <<0, 4, 2>>>>
         \/ neg = {1, 4} /\ Base[neg] = <<<<5, 0, 1>>, <<5, 1, 4>>>>
  <1>1. PICK b1, b2, b3, b4, b12, b13, b14 :
          /\ b1 = {1} /\ b2 = {2} /\ b3 = {3} /\ b4 = {4} /\ b12 = {1, 2} /\ b13 = {1, 3} /\ b14 = {1, 4}
    OBVIOUS
  <1>2. PICK t1, t2, t3, t4, t12, t13, t14 :
          /\ t1 = <<<<0, 1, 2>>>> /\ t2 = <<<<0, 5, 3>>>> /\ t3 = <<<<1, 3, 4>>>> /\ t4 = <<<<2, 4, 5>>>>
          /\ t12 = <<<<5, 3, 1>>, <<5, 1, 2>>>> /\ t13 = <<<<0, 3, 4>>, <<0, 4, 2>>>>
          /\ t14 = <<<<5, 0, 1>>, <<5, 1, 4>>>>
    OBVIOUS
  <1>3. Base = [n \in {b1, b2, b3, b4, b12, b13, b14} |->
                  CASE n = b1 -> t1 [] n = b2 -> t2 [] n = b3 -> t3 [] n = b4 -> t4
                    [] n = b12 -> t12 [] n = b13 -> t13 [] n = b14 -> t14]
    BY <1>1, <1>2 DEF Base
  <1>4. neg \in {b1, b2, b3, b4, b12, b13, b14}
    BY <1>3
  <1>5. Base[neg] = (CASE neg = b1 -> t1 [] neg = b2 -> t2 [] neg = b3 -> t3 [] neg = b4 -> t4
                       [] neg = b12 -> t12 [] neg = b13 -> t13 [] neg = b14 -> t14)
    BY <1>3, <1>4
  <1>6. \/ neg = b1 /\ Base[neg] = t1
        \/ neg = b2 /\ Base[neg] = t2
        \/ neg = b3 /\ Base[neg] = t3
        \/ neg = b4 /\ Base[neg] = t4
        \/ neg = b12 /\ Base[neg] = t12
        \/ neg = b13 /\ Base[neg] = t13
        \/ neg = b14 /\ Base[neg] = t14
    BY <1>4, <1>5
  <1>. QED BY <1>1, <1>2, <1>6

\* Each triangle of the table stands on edges between a negative and a positive corner.
LEMMA BaseFacts ==
  /\ DOMAIN Base = {{1}, {2}, {3}, {4}, {1, 2}, {1, 3}, {1, 4}}
  /\ \A neg \in DOMAIN Base : Crossing3(neg, Base[neg])
  <1>1. Crossing3({1}, <<<<0, 1, 2>>>>)
    BY DEF Crossing3, From, To
  <1>2. Crossing3({2}, <<<<0, 5, 3>>>>)
    BY DEF Crossing3, From, To
  <1>3. Crossing3({3}, <<<<1, 3, 4>>>>)
    BY DEF Crossing3, From, To
  <1>4. Crossing3({4}, <<<<2, 4, 5>>>>)
    BY DEF Crossing3, From, To
  <1>5. Crossing3({1, 2}, <<<<5, 3, 1>>, <<5, 1, 2>>>>)
    BY DEF Crossing3, From, To
  <1>6. Crossing3({1, 3}, <<<<0, 3, 4>>, <<0, 4, 2>>>>)
    BY DEF Crossing3, From, To
  <1>7. Crossing3({1, 4}, <<<<5, 0, 1>>, <<5, 1, 4>>>>)
    BY DEF Crossing3, From, To
  <1>9. DOMAIN Base = {{1}, {2}, {3}, {4}, {1, 2}, {1, 3}, {1, 4}}
    BY DEF Base
  <1>. QED BY <1>1, <1>2, <1>3, <1>4, <1>5, <1>6, <1>7, <1>9, BaseCases

\* A tetrahedron with corners on both sides has the signs of a case, or the opposite ones.
LEMMA OtherCases ==
  ASSUME NEW neg \in SUBSET (1..4), neg \notin {{}, 1..4}, neg \notin DOMAIN Base
  PROVE  (1..4) \ neg \in DOMAIN Base
  <1>0. neg \notin {{1}, {2}, {3}, {4}, {1, 2}, {1, 3}, {1, 4}}
    BY BaseFacts
  <1>10. PICK pos : pos = (1..4) \ neg
    OBVIOUS
  <1>. SUFFICES pos \in {{1}, {2}, {3}, {4}, {1, 2}, {1, 3}, {1, 4}}
    BY <1>10, BaseFacts
  <1>1. \A c : c \in 1..4 <=> c = 1 \/ c = 2 \/ c = 3 \/ c = 4
    OBVIOUS
  <1>2. CASE 1 \in neg /\ 2 \in neg /\ 3 \in neg
    <2>1. 4 \notin neg
      <3>1. 4 \in neg => neg = 1..4
        BY <1>1, <1>2
      <3>. QED BY <3>1
    <2>2. pos = {4}
      BY <1>1, <1>2, <1>10, <2>1
    <2>. QED BY <2>2
  <1>3. CASE 1 \in neg /\ 2 \in neg /\ 3 \notin neg
    <2>1. 4 \in neg
      <3>1. 4 \notin neg => neg = {1, 2}
        BY <1>1, <1>3
      <3>. QED BY <1>0, <3>1
    <2>2. pos = {3}
      BY <1>1, <1>3, <1>10, <2>1
    <2>. QED BY <2>2
  <1>4. CASE 1 \in neg /\ 2 \notin neg /\ 3 \in neg
    <2>1. 4 \in neg
      <3>1. 4 \notin neg => neg = {1, 3}
        BY <1>1, <1>4
      <3>. QED BY <1>0, <3>1
    <2>2. pos = {2}
      BY <1>1, <1>4, <1>10, <2>1
    <2>. QED BY <2>2
  <1>5. CASE 1 \in neg /\ 2 \notin neg /\ 3 \notin neg
    <2>1. 4 \notin neg => neg = {1}
      BY <1>1, <1>5
    <2>2. 4 \in neg => neg = {1, 4}
      BY <1>1, <1>5
    <2>. QED BY <1>0, <2>1, <2>2
  <1>6. CASE 1 \notin neg /\ 2 \in neg /\ 3 \in neg
    <2>1. 4 \in neg => pos = {1}
      BY <1>1, <1>6, <1>10
    <2>2. 4 \notin neg => pos = {1, 4}
      BY <1>1, <1>6, <1>10
    <2>. QED BY <2>1, <2>2
  <1>7. CASE 1 \notin neg /\ 2 \in neg /\ 3 \notin neg
    <2>1. 4 \in neg => pos = {1, 3}
      BY <1>1, <1>7, <1>10
    <2>2. 4 \notin neg => neg = {2}
      BY <1>1, <1>7
    <2>. QED BY <1>0, <2>1, <2>2
  <1>8. CASE 1 \notin neg /\ 2 \notin neg /\ 3 \in neg
    <2>1. 4 \in neg => pos = {1, 2}
      BY <1>1, <1>8, <1>10
    <2>2. 4 \notin neg => neg = {3}
      BY <1>1, <1>8
    <2>. QED BY <1>0, <2>1, <2>2
  <1>9. CASE 1 \notin neg /\ 2 \notin neg /\ 3 \notin neg
    <2>1. 4 \in neg => neg = {4}
      BY <1>1, <1>9
    <2>2. 4 \notin neg => neg = {}
      BY <1>1, <1>9
    <2>. QED BY <1>0, <2>1, <2>2
  <1>. QED BY <1>2, <1>3, <1>4, <1>5, <1>6, <1>7, <1>8, <1>9

\* So do those of the other cases, which are turned around.
LEMMA TrianglesCross ==
  ASSUME NEW neg \in SUBSET (1..4)
  PROVE  Crossing3(neg, Triangles(neg))
  <1>1. CASE neg \in {{}, 1..4}
    BY <1>1 DEF Triangles, Crossing3
  <1>2. CASE neg \notin {{}, 1..4} /\ neg \in DOMAIN Base
    BY <1>2, BaseFacts DEF Triangles
  <1>3. CASE neg \notin {{}, 1..4} /\ neg \notin DOMAIN Base
    <2>1. PICK pos : pos = (1..4) \ neg
      OBVIOUS
    <2>2. pos \in DOMAIN Base
      BY <1>3, <2>1, OtherCases
    <2>3. PICK t, s : t = Base[pos] /\ s = [k \in DOMAIN t |-> <<t[k][1], t[k][3], t[k][2]>>]
      OBVIOUS
    <2>4. Triangles(neg) = s
      BY <1>3, <2>1, <2>3 DEF Triangles
    <2>5. Crossing3(pos, t)
      BY <2>2, <2>3, BaseFacts
    <2>6. ASSUME NEW k \in DOMAIN s, NEW j \in 1..3
          PROVE  s[k][j] + 1 \in 1..6 /\ (From[s[k][j] + 1] \in neg <=> To[s[k][j] + 1] \notin neg)
      <3>1. \E j1 \in 1..3 : s[k][j] = t[k][j1]
        <4>1. s[k] = <<t[k][1], t[k][3], t[k][2]>>
          BY <2>3
        <4>2. j = 1 \/ j = 2 \/ j = 3
          OBVIOUS
        <4>. QED BY <4>1, <4>2
      <3>2. PICK m \in 1..6 : m = s[k][j] + 1 /\ (From[m] \in pos <=> To[m] \notin pos)
        BY <2>3, <2>5, <3>1 DEF Crossing3
      <3>3. From[m] \in 1..4 /\ To[m] \in 1..4
        BY DEF From, To
      <3>. QED BY <2>1, <3>2, <3>3
    <2>. QED BY <2>4, <2>6 DEF Crossing3
  <1>. QED BY <1>1, <1>2, <1>3

\* A vertex is found from the edge, by whichever end.
LEMMA VertexFound ==
  ASSUME field \in Fields, NEW ns, NEW vs, Placed(ns, vs), NEW e, e = [node |-> e.node, ei |-> e.ei],
         e.ei \in EdgeIndex, e.node \in DOMAIN ns, Neighbor(e.node, e.ei) \in DOMAIN ns,
         Crossed(e.node, Neighbor(e.node, e.ei))
  PROVE  VertexOnEdge(ns, e) = VertexOf(e)
  <1>1. PICK a, ei, b, oi, o : /\ a = e.node /\ ei = e.ei /\ b = Neighbor(a, ei) /\ oi = Opposite(ei)
                               /\ o = [node |-> b, ei |-> oi]
    OBVIOUS
  <1>2. e = [node |-> a, ei |-> ei] /\ OtherEnd(e) = o /\ o.node = b /\ o.ei = oi
    BY <1>1 DEF OtherEnd
  <1>3. a \in Box /\ b \in Box /\ a \in Coordinates /\ PlacedAt(ns, a) /\ PlacedAt(ns, b)
    BY <1>1, BoxAssumption DEF Placed, Coordinates
  <1>4. oi \in EdgeIndex /\ Opposite(oi) = ei /\ Neighbor(b, oi) = a
    BY <1>1, <1>3, NeighborFacts
  <1>5. CASE ei \in ns[a].near
    <2>1. VertexAt(ns[a], ei) = VertexOf(e)
      BY <1>2, <1>3, <1>5 DEF PlacedAt
    <2>. QED BY <1>1, <1>5, <2>1 DEF VertexOnEdge, HasVertex
  <1>6. CASE ei \notin ns[a].near
    <2>1. ei \in ns[a].all
      BY <1>1, <1>3 DEF PlacedAt, EdgesAcross
    <2>2. oi \in ns[b].near
      BY <1>1, <1>3, <1>6, <2>1 DEF PlacedAt
    <2>3. VertexAt(ns[b], oi) = VertexOf(o)
      BY <1>1, <1>3, <2>2 DEF PlacedAt
    <2>4. OtherEnd(o) = e
      BY <1>2, <1>4 DEF OtherEnd
    <2>5. IsNear(a, b) <=> ~IsNear(b, a)
      BY <1>1, <1>3, OneIsNear
    <2>6. VertexOf(o) = VertexOf(e)
      BY <1>1, <1>2, <2>4, <2>5 DEF VertexOf
    <2>7. VertexOnEdge(ns, e) = VertexAt(ns[b], oi)
      BY <1>1, <1>2, <1>6 DEF VertexOnEdge, HasVertex
    <2>. QED BY <2>3, <2>6, <2>7
  <1>. QED BY <1>5, <1>6

\* get_faces of a tetrahedron whose corners are all in the lattice.
LEMMA FacesOfTetrahedron ==
  ASSUME field \in Fields, NEW ns, NEW vs, Placed(ns, vs), NEW lc \in DOMAIN ns, NEW i \in 1..6,
         Exists(ns, lc, i)
  PROVE  FacesIn(ns, lc, i) = SurfaceIn(lc, i)
  <1>1. PICK cs, es, neg, t : /\ cs = Corners(lc, i) /\ es = TetEdges(lc, i)
                              /\ neg = {k \in 1..4 : Negative(cs[k])} /\ t = Triangles(neg)
    OBVIOUS
  <1>2. lc \in Coordinates
    BY BoxAssumption DEF Placed, Coordinates
  <1>3. \A k \in 1..4 : cs[k] \in DOMAIN ns
    <2>1. cs[1] = lc
      BY <1>1, <1>2, CornerFacts
    <2>2. \A k \in 2..4 : cs[k] \in DOMAIN ns
      BY <1>1 DEF Exists
    <2>3. \A k \in 1..4 : k = 1 \/ k \in 2..4
      OBVIOUS
    <2>. QED BY <2>1, <2>2, <2>3
  <1>4. Crossing3(neg, t)
    <2>1. neg \in SUBSET (1..4)
      BY <1>1
    <2>. QED BY <1>1, <2>1, TrianglesCross
  <1>5. ASSUME NEW k \in DOMAIN t, NEW j \in 1..3
        PROVE  VertexOnEdge(ns, es[t[k][j] + 1]) = VertexOf(es[t[k][j] + 1])
    <2>1. PICK m \in 1..6 : m = t[k][j] + 1 /\ (From[m] \in neg <=> To[m] \notin neg)
      BY <1>4 DEF Crossing3
    <2>2. PICK e : e = es[m]
      OBVIOUS
    <2>3. /\ e = [node |-> e.node, ei |-> e.ei] /\ e.ei \in EdgeIndex
          /\ e.node = cs[From[m]] /\ Neighbor(e.node, e.ei) = cs[To[m]]
      BY <1>1, <1>2, <2>2, EdgeEnds
    <2>4. From[m] \in 1..4 /\ To[m] \in 1..4
      BY DEF From, To
    <2>5. Crossed(cs[From[m]], cs[To[m]])
      <3>1. (From[m] \in neg <=> Negative(cs[From[m]])) /\ (To[m] \in neg <=> Negative(cs[To[m]]))
        BY <1>1, <2>4
      <3>. QED BY <2>1, <3>1 DEF Crossed
    <2>6. VertexOnEdge(ns, e) = VertexOf(e)
      BY <1>3, <2>3, <2>4, <2>5, VertexFound
    <2>. QED BY <2>1, <2>2, <2>6
  <1>6. FacesIn(ns, lc, i) =
          {[from |-> <<lc, i, k>>, v |-> [j \in 1..3 |-> VertexOnEdge(ns, es[t[k][j] + 1])]] : k \in DOMAIN t}
    BY <1>1 DEF FacesIn
  <1>7. SurfaceIn(lc, i) =
          {[from |-> <<lc, i, k>>, v |-> [j \in 1..3 |-> VertexOf(es[t[k][j] + 1])]] : k \in DOMAIN t}
    BY <1>1 DEF SurfaceIn
  <1>8. \A k \in DOMAIN t : [j \in 1..3 |-> VertexOnEdge(ns, es[t[k][j] + 1])] =
                              [j \in 1..3 |-> VertexOf(es[t[k][j] + 1])]
    BY <1>5
  <1>. QED BY <1>6, <1>7, <1>8

\* Corners on either side of the surface, then every corner has an edge across it.
LEMMA CornersStay ==
  ASSUME NEW lc \in Coordinates, NEW i \in 1..6, \A k \in 1..4 : Corners(lc, i)[k] \in Box,
         NEW p \in 1..4, NEW q \in 1..4, Negative(Corners(lc, i)[p]), ~Negative(Corners(lc, i)[q]),
         NEW k \in 1..4
  PROVE  Across(Corners(lc, i)[k]) # {}
  <1>1. PICK cs : cs = Corners(lc, i)
    OBVIOUS
  <1>2. PICK r \in {p, q} : Crossed(cs[k], cs[r])
    <2>1. Negative(cs[p]) /\ ~Negative(cs[q])
      BY <1>1
    <2>. QED BY <2>1 DEF Crossed
  <1>3. r \in 1..4 /\ r # k
    BY <1>2 DEF Crossed
  <1>4. PICK m \in 1..6 : (From[m] = k /\ To[m] = r) \/ (From[m] = r /\ To[m] = k)
    <2>1. /\ From[1] = 1 /\ To[1] = 2 /\ From[2] = 1 /\ To[2] = 3 /\ From[3] = 1 /\ To[3] = 4
          /\ From[4] = 2 /\ To[4] = 3 /\ From[5] = 3 /\ To[5] = 4 /\ From[6] = 4 /\ To[6] = 2
      BY DEF From, To
    <2>2. k = 1 \/ k = 2 \/ k = 3 \/ k = 4
      OBVIOUS
    <2>3. r = 1 \/ r = 2 \/ r = 3 \/ r = 4
      BY <1>3
    <2>4. \E m \in {1, 2, 3, 4, 5, 6} : (From[m] = k /\ To[m] = r) \/ (From[m] = r /\ To[m] = k)
      BY <1>3, <2>1, <2>2, <2>3
    <2>. QED BY <2>4
  <1>5. PICK a, ei : /\ a = cs[From[m]] /\ ei \in EdgeIndex /\ Neighbor(a, ei) = cs[To[m]]
    <2>1. PICK e : e = TetEdges(lc, i)[m]
      OBVIOUS
    <2>2. e.ei \in EdgeIndex /\ e.node = cs[From[m]] /\ Neighbor(e.node, e.ei) = cs[To[m]]
      BY <1>1, <2>1, EdgeEnds
    <2>. QED BY <2>2
  <1>6. \A c \in 1..4 : cs[c] \in Box /\ cs[c] \in Coordinates
    BY <1>1, BoxAssumption DEF Coordinates
  <1>7. CASE From[m] = k /\ To[m] = r
    BY <1>1, <1>2, <1>3, <1>5, <1>6, <1>7 DEF Across
  <1>8. CASE From[m] = r /\ To[m] = k
    <2>1. a = cs[r] /\ Neighbor(a, ei) = cs[k] /\ a \in Coordinates
      BY <1>3, <1>5, <1>6, <1>8
    <2>2. Opposite(ei) \in EdgeIndex /\ Neighbor(cs[k], Opposite(ei)) = cs[r]
      BY <1>5, <2>1, NeighborFacts
    <2>. QED BY <1>1, <1>2, <1>3, <1>6, <2>2 DEF Across
  <1>. QED BY <1>4, <1>7, <1>8

\* Before any clustering no face is lost with the nodes that are dropped or with a vertex
\* that changes over, and from seeds there is none that is not of the isosurface.
LEMMA NodesGiveSurface ==
  ASSUME LatticeInv, pc = "cluster"
  PROVE  IF start = {} THEN Faces(nodes) = WholeSurface ELSE Faces(nodes) \subseteq WholeSurface
  <1>1. PICK ns, vs : ns = nodes /\ vs = vertices
    OBVIOUS
  <1>2. /\ field \in Fields /\ Placed(ns, vs)
        /\ start = {} => DOMAIN ns = {lc \in Box : Across(lc) # {}}
    BY <1>1 DEF LatticeInv, AllPlaced
  <1>3. DOMAIN ns \subseteq Box /\ \A lc \in Box : lc \in Coordinates
    BY <1>2, BoxAssumption DEF Placed, Coordinates
  <1>4. \A lc \in DOMAIN ns : \A i \in 1..6 : Exists(ns, lc, i) => FacesIn(ns, lc, i) = SurfaceIn(lc, i)
    BY <1>2, FacesOfTetrahedron
  <1>5. ASSUME NEW lc \in Box, NEW i \in 1..6
        PROVE  /\ DOMAIN Corners(lc, i) = 1..4 /\ Corners(lc, i)[1] = lc
               /\ ToSet(Corners(lc, i)) = {Corners(lc, i)[k] : k \in 1..4}
    <2>1. DOMAIN Corners(lc, i) = 1..4 /\ Corners(lc, i)[1] = lc
      BY <1>3, CornerFacts
    <2>. QED BY <2>1 DEF ToSet
  <1>6. Faces(ns) = UNION {IF Exists(ns, lc, i) THEN SurfaceIn(lc, i) ELSE {} : lc \in DOMAIN ns, i \in 1..6}
    BY <1>4 DEF Faces
  <1>7. ASSUME NEW f \in Faces(ns) PROVE f \in WholeSurface
    <2>1. PICK lc \in DOMAIN ns, i \in 1..6 : Exists(ns, lc, i) /\ f \in SurfaceIn(lc, i)
      BY <1>6
    <2>2. \A k \in 1..4 : k = 1 \/ k \in 2..4
      OBVIOUS
    <2>3. \A k \in 1..4 : Corners(lc, i)[k] \in Box
      BY <1>3, <1>5, <2>1, <2>2 DEF Exists
    <2>4. <<lc, i>> \in Tetrahedra
      BY <1>3, <1>5, <2>3 DEF Tetrahedra
    <2>. QED BY <2>1, <2>4 DEF WholeSurface
  <1>8. ASSUME start = {}, NEW f \in WholeSurface PROVE f \in Faces(ns)
    <2>1. PICK t \in Tetrahedra : f \in SurfaceIn(t[1], t[2])
      BY DEF WholeSurface
    <2>2. PICK lc \in Box, i \in 1..6 : t = <<lc, i>> /\ lc = t[1] /\ i = t[2]
      BY DEF Tetrahedra
    <2>3. PICK cs : cs = Corners(lc, i)
      OBVIOUS
    <2>4. \A k \in 1..4 : cs[k] \in Box
      BY <1>5, <2>2, <2>3 DEF Tetrahedra
    <2>5. PICK neg : neg = {k \in 1..4 : Negative(cs[k])}
      OBVIOUS
    <2>6. neg # {} /\ neg # 1..4
      <3>1. Triangles(neg) # <<>>
        BY <2>1, <2>2, <2>3, <2>5 DEF SurfaceIn
      <3>. QED BY <3>1 DEF Triangles
    <2>7. PICK p \in 1..4, q \in 1..4 : Negative(cs[p]) /\ ~Negative(cs[q])
      BY <2>5, <2>6
    <2>8. \A k \in 1..4 : Across(cs[k]) # {}
      BY <1>3, <2>2, <2>3, <2>4, <2>7, CornersStay
    <2>9. \A k \in 1..4 : cs[k] \in DOMAIN ns
      BY <1>2, <1>8, <2>4, <2>8
    <2>10. lc \in DOMAIN ns /\ Exists(ns, lc, i)
      <3>1. cs[1] = lc
        BY <1>5, <2>3
      <3>2. \A k \in 2..4 : k \in 1..4
        OBVIOUS
      <3>. QED BY <2>3, <2>9, <3>1, <3>2 DEF Exists
    <2>. QED BY <1>6, <2>1, <2>2, <2>10
  <1>. QED BY <1>1, <1>7, <1>8

\* The mesh before any clustering is the isosurface of the lattice: no face is lost with
\* the nodes that are dropped or with a vertex that changes over, and from seeds there is
\* no face that is not of it.
THEOREM MeshIsTheSurface == Spec => []MeshIsSurface
  <1>1. LatticeInv => MeshIsSurface
    BY NodesGiveSurface DEF MeshIsSurface
  <1>. QED BY <1>1, LatticeInvariant, PTL

-----------------------------------------------------------------------------
\* The edge of a tetrahedron between two corners, and the triples of corners that are
\* seen counterclockwise from the fourth.
Sides == <<<<0, 1, 2, 3>>, <<1, 0, 4, 6>>, <<2, 4, 0, 5>>, <<3, 6, 5, 0>>>>
Even ==
  {<<1, 2, 3>>, <<1, 3, 4>>, <<1, 4, 2>>, <<2, 1, 4>>, <<2, 4, 3>>, <<2, 3, 1>>,
   <<3, 1, 2>>, <<3, 2, 4>>, <<3, 4, 1>>, <<4, 1, 3>>, <<4, 3, 2>>, <<4, 2, 1>>}
Apart(a, b, c) == a # b /\ a # c /\ b # c

\* The surface crosses two sides of the face of a, b and c, those at a, and a triangle
\* goes from ab to ac.
Passes(neg, a, b, c) ==
  /\ Apart(a, b, c)
  /\ a \in neg <=> b \notin neg
  /\ a \in neg <=> c \notin neg
  /\ a \in neg <=> <<a, b, c>> \in Even
\* Two sides with a corner in common.
MeetAt(m, n, a, b, c) == Apart(a, b, c) /\ m = Sides[a][b] /\ n = Sides[a][c]
Meet(m, n) == \E a, b, c \in 1..4 : MeetAt(m, n, a, b, c)

\* The halfedges of triangles t: from and to which side of the tetrahedron they go.  Each
\* is in a face, or has its opposite in the same tetrahedron; each passage of a face is
\* there; and none is there twice.
FromSide(t, k, j) == t[k][j] + 1
ToSide(t, k, j) == t[k][(j % 3) + 1] + 1
InFaces(neg, t) ==
  \A k \in DOMAIN t : \A j \in 1..3 :
    \/ \E a, b, c \in 1..4 : /\ Passes(neg, a, b, c)
                             /\ FromSide(t, k, j) = Sides[a][b] /\ ToSide(t, k, j) = Sides[a][c]
    \/ /\ ~Meet(FromSide(t, k, j), ToSide(t, k, j))
       /\ \E k2 \in DOMAIN t : \E j2 \in 1..3 :
            FromSide(t, k2, j2) = ToSide(t, k, j) /\ ToSide(t, k2, j2) = FromSide(t, k, j)
AllFaces(neg, t) ==
  \A a, b, c \in 1..4 : Passes(neg, a, b, c) =>
    \E k \in DOMAIN t : \E j \in 1..3 : FromSide(t, k, j) = Sides[a][b]
      /\ ToSide(t, k, j) = Sides[a][c]
Once(t) ==
  \A k, k2 \in DOMAIN t : \A j, j2 \in 1..3 :
    FromSide(t, k, j) = FromSide(t, k2, j2) /\ ToSide(t, k, j) = ToSide(t, k2, j2) => k = k2
      /\ j = j2
Closed(neg, t) == DOMAIN t \subseteq 1..2 /\ InFaces(neg, t) /\ AllFaces(neg, t) /\ Once(t)

\* The cases of the table.
LEMMA BaseClosed ==
  /\ Closed({1}, <<<<0, 1, 2>>>>)
  /\ Closed({2}, <<<<0, 5, 3>>>>)
  /\ Closed({3}, <<<<1, 3, 4>>>>)
  /\ Closed({4}, <<<<2, 4, 5>>>>)
  /\ Closed({1, 2}, <<<<5, 3, 1>>, <<5, 1, 2>>>>)
  /\ Closed({1, 3}, <<<<0, 3, 4>>, <<0, 4, 2>>>>)
  /\ Closed({1, 4}, <<<<5, 0, 1>>, <<5, 1, 4>>>>)
  <1>1. Closed({1}, <<<<0, 1, 2>>>>)
    <2>. DEFINE t == <<<<0, 1, 2>>>>
    <2>1. InFaces({1}, t)
      BY DEF InFaces, Meet, MeetAt, Passes, Apart, Sides, Even, FromSide, ToSide
    <2>2. AllFaces({1}, t)
      BY DEF AllFaces, Passes, Apart, Sides, Even, FromSide, ToSide
    <2>3. Once(t)
      BY DEF Once, FromSide, ToSide
    <2>. QED BY <2>1, <2>2, <2>3 DEF Closed
  <1>2. Closed({2}, <<<<0, 5, 3>>>>)
    <2>. DEFINE t == <<<<0, 5, 3>>>>
    <2>1. InFaces({2}, t)
      BY DEF InFaces, Meet, MeetAt, Passes, Apart, Sides, Even, FromSide, ToSide
    <2>2. AllFaces({2}, t)
      BY DEF AllFaces, Passes, Apart, Sides, Even, FromSide, ToSide
    <2>3. Once(t)
      BY DEF Once, FromSide, ToSide
    <2>. QED BY <2>1, <2>2, <2>3 DEF Closed
  <1>3. Closed({3}, <<<<1, 3, 4>>>>)
    <2>. DEFINE t == <<<<1, 3, 4>>>>
    <2>1. InFaces({3}, t)
      BY DEF InFaces, Meet, MeetAt, Passes, Apart, Sides, Even, FromSide, ToSide
    <2>2. AllFaces({3}, t)
      BY DEF AllFaces, Passes, Apart, Sides, Even, FromSide, ToSide
    <2>3. Once(t)
      BY DEF Once, FromSide, ToSide
    <2>. QED BY <2>1, <2>2, <2>3 DEF Closed
  <1>4. Closed({4}, <<<<2, 4, 5>>>>)
    <2>. DEFINE t == <<<<2, 4, 5>>>>
    <2>1. InFaces({4}, t)
      BY DEF InFaces, Meet, MeetAt, Passes, Apart, Sides, Even, FromSide, ToSide
    <2>2. AllFaces({4}, t)
      BY DEF AllFaces, Passes, Apart, Sides, Even, FromSide, ToSide
    <2>3. Once(t)
      BY DEF Once, FromSide, ToSide
    <2>. QED BY <2>1, <2>2, <2>3 DEF Closed
  <1>5. Closed({1, 2}, <<<<5, 3, 1>>, <<5, 1, 2>>>>)
    <2>. DEFINE t == <<<<5, 3, 1>>, <<5, 1, 2>>>>
    <2>1. InFaces({1, 2}, t)
      BY DEF InFaces, Meet, MeetAt, Passes, Apart, Sides, Even, FromSide, ToSide
    <2>2. AllFaces({1, 2}, t)
      BY DEF AllFaces, Passes, Apart, Sides, Even, FromSide, ToSide
    <2>3. Once(t)
      BY DEF Once, FromSide, ToSide
    <2>. QED BY <2>1, <2>2, <2>3 DEF Closed
  <1>6. Closed({1, 3}, <<<<0, 3, 4>>, <<0, 4, 2>>>>)
    <2>. DEFINE t == <<<<0, 3, 4>>, <<0, 4, 2>>>>
    <2>1. InFaces({1, 3}, t)
      BY DEF InFaces, Meet, MeetAt, Passes, Apart, Sides, Even, FromSide, ToSide
    <2>2. AllFaces({1, 3}, t)
      BY DEF AllFaces, Passes, Apart, Sides, Even, FromSide, ToSide
    <2>3. Once(t)
      BY DEF Once, FromSide, ToSide
    <2>. QED BY <2>1, <2>2, <2>3 DEF Closed
  <1>7. Closed({1, 4}, <<<<5, 0, 1>>, <<5, 1, 4>>>>)
    <2>. DEFINE t == <<<<5, 0, 1>>, <<5, 1, 4>>>>
    <2>1. InFaces({1, 4}, t)
      BY DEF InFaces, Meet, MeetAt, Passes, Apart, Sides, Even, FromSide, ToSide
    <2>2. AllFaces({1, 4}, t)
      BY DEF AllFaces, Passes, Apart, Sides, Even, FromSide, ToSide
    <2>3. Once(t)
      BY DEF Once, FromSide, ToSide
    <2>. QED BY <2>1, <2>2, <2>3 DEF Closed
  <1>. QED BY <1>1, <1>2, <1>3, <1>4, <1>5, <1>6, <1>7

\* And those that are turned around.
LEMMA TurnedClosed ==
  /\ Closed({2, 3, 4}, <<<<0, 2, 1>>>>)
  /\ Closed({1, 3, 4}, <<<<0, 3, 5>>>>)
  /\ Closed({1, 2, 4}, <<<<1, 4, 3>>>>)
  /\ Closed({1, 2, 3}, <<<<2, 5, 4>>>>)
  /\ Closed({3, 4}, <<<<5, 1, 3>>, <<5, 2, 1>>>>)
  /\ Closed({2, 4}, <<<<0, 4, 3>>, <<0, 2, 4>>>>)
  /\ Closed({2, 3}, <<<<5, 1, 0>>, <<5, 4, 1>>>>)
  <1>1. Closed({2, 3, 4}, <<<<0, 2, 1>>>>)
    <2>. DEFINE t == <<<<0, 2, 1>>>>
    <2>1. InFaces({2, 3, 4}, t)
      BY DEF InFaces, Meet, MeetAt, Passes, Apart, Sides, Even, FromSide, ToSide
    <2>2. AllFaces({2, 3, 4}, t)
      BY DEF AllFaces, Passes, Apart, Sides, Even, FromSide, ToSide
    <2>3. Once(t)
      BY DEF Once, FromSide, ToSide
    <2>. QED BY <2>1, <2>2, <2>3 DEF Closed
  <1>2. Closed({1, 3, 4}, <<<<0, 3, 5>>>>)
    <2>. DEFINE t == <<<<0, 3, 5>>>>
    <2>1. InFaces({1, 3, 4}, t)
      BY DEF InFaces, Meet, MeetAt, Passes, Apart, Sides, Even, FromSide, ToSide
    <2>2. AllFaces({1, 3, 4}, t)
      BY DEF AllFaces, Passes, Apart, Sides, Even, FromSide, ToSide
    <2>3. Once(t)
      BY DEF Once, FromSide, ToSide
    <2>. QED BY <2>1, <2>2, <2>3 DEF Closed
  <1>3. Closed({1, 2, 4}, <<<<1, 4, 3>>>>)
    <2>. DEFINE t == <<<<1, 4, 3>>>>
    <2>1. InFaces({1, 2, 4}, t)
      BY DEF InFaces, Meet, MeetAt, Passes, Apart, Sides, Even, FromSide, ToSide
    <2>2. AllFaces({1, 2, 4}, t)
      BY DEF AllFaces, Passes, Apart, Sides, Even, FromSide, ToSide
    <2>3. Once(t)
      BY DEF Once, FromSide, ToSide
    <2>. QED BY <2>1, <2>2, <2>3 DEF Closed
  <1>4. Closed({1, 2, 3}, <<<<2, 5, 4>>>>)
    <2>. DEFINE t == <<<<2, 5, 4>>>>
    <2>1. InFaces({1, 2, 3}, t)
      BY DEF InFaces, Meet, MeetAt, Passes, Apart, Sides, Even, FromSide, ToSide
    <2>2. AllFaces({1, 2, 3}, t)
      BY DEF AllFaces, Passes, Apart, Sides, Even, FromSide, ToSide
    <2>3. Once(t)
      BY DEF Once, FromSide, ToSide
    <2>. QED BY <2>1, <2>2, <2>3 DEF Closed
  <1>5. Closed({3, 4}, <<<<5, 1, 3>>, <<5, 2, 1>>>>)
    <2>. DEFINE t == <<<<5, 1, 3>>, <<5, 2, 1>>>>
    <2>1. InFaces({3, 4}, t)
      BY DEF InFaces, Meet, MeetAt, Passes, Apart, Sides, Even, FromSide, ToSide
    <2>2. AllFaces({3, 4}, t)
      BY DEF AllFaces, Passes, Apart, Sides, Even, FromSide, ToSide
    <2>3. Once(t)
      BY DEF Once, FromSide, ToSide
    <2>. QED BY <2>1, <2>2, <2>3 DEF Closed
  <1>6. Closed({2, 4}, <<<<0, 4, 3>>, <<0, 2, 4>>>>)
    <2>. DEFINE t == <<<<0, 4, 3>>, <<0, 2, 4>>>>
    <2>1. InFaces({2, 4}, t)
      BY DEF InFaces, Meet, MeetAt, Passes, Apart, Sides, Even, FromSide, ToSide
    <2>2. AllFaces({2, 4}, t)
      BY DEF AllFaces, Passes, Apart, Sides, Even, FromSide, ToSide
    <2>3. Once(t)
      BY DEF Once, FromSide, ToSide
    <2>. QED BY <2>1, <2>2, <2>3 DEF Closed
  <1>7. Closed({2, 3}, <<<<5, 1, 0>>, <<5, 4, 1>>>>)
    <2>. DEFINE t == <<<<5, 1, 0>>, <<5, 4, 1>>>>
    <2>1. InFaces({2, 3}, t)
      BY DEF InFaces, Meet, MeetAt, Passes, Apart, Sides, Even, FromSide, ToSide
    <2>2. AllFaces({2, 3}, t)
      BY DEF AllFaces, Passes, Apart, Sides, Even, FromSide, ToSide
    <2>3. Once(t)
      BY DEF Once, FromSide, ToSide
    <2>. QED BY <2>1, <2>2, <2>3 DEF Closed
  <1>. QED BY <1>1, <1>2, <1>3, <1>4, <1>5, <1>6, <1>7

\* The triangles of all sixteen cases are closed in this sense.
LEMMA TrianglesClosed ==
  ASSUME NEW neg \in SUBSET (1..4)
  PROVE  Closed(neg, Triangles(neg))
  <1>1. CASE neg \in {{}, 1..4}
    <2>1. Triangles(neg) = <<>>
      BY <1>1 DEF Triangles
    <2>2. DOMAIN Triangles(neg) = {}
      BY <2>1
    <2>3. \A a, b, c \in 1..4 : ~Passes(neg, a, b, c)
      BY <1>1 DEF Passes
    <2>. QED BY <2>2, <2>3 DEF Closed, InFaces, AllFaces, Once
  <1>2. CASE neg \notin {{}, 1..4} /\ neg \in DOMAIN Base
    <2>1. Triangles(neg) = Base[neg]
      BY <1>2 DEF Triangles
    <2>. QED BY <1>2, <2>1, BaseCases, BaseClosed
  <1>3. CASE neg \notin {{}, 1..4} /\ neg \notin DOMAIN Base
    <2>1. PICK pos : pos = (1..4) \ neg
      OBVIOUS
    <2>2. pos \in DOMAIN Base
      BY <1>3, <2>1, OtherCases
    <2>3. PICK t, s : t = Base[pos] /\ s = [k \in DOMAIN t |-> <<t[k][1], t[k][3], t[k][2]>>]
      OBVIOUS
    <2>4. Triangles(neg) = s
      BY <1>3, <2>1, <2>3 DEF Triangles
    <2>5. neg = (1..4) \ pos
      BY <2>1
    <2>6. CASE pos = {1} /\ t = <<<<0, 1, 2>>>>
      <3>1. s = <<<<0, 2, 1>>>>
        BY <2>3, <2>6
      <3>2. neg = {2, 3, 4}
        BY <2>5, <2>6
      <3>. QED BY <2>4, <3>1, <3>2, TurnedClosed
    <2>7. CASE pos = {2} /\ t = <<<<0, 5, 3>>>>
      <3>1. s = <<<<0, 3, 5>>>>
        BY <2>3, <2>7
      <3>2. neg = {1, 3, 4}
        BY <2>5, <2>7
      <3>. QED BY <2>4, <3>1, <3>2, TurnedClosed
    <2>8. CASE pos = {3} /\ t = <<<<1, 3, 4>>>>
      <3>1. s = <<<<1, 4, 3>>>>
        BY <2>3, <2>8
      <3>2. neg = {1, 2, 4}
        BY <2>5, <2>8
      <3>. QED BY <2>4, <3>1, <3>2, TurnedClosed
    <2>9. CASE pos = {4} /\ t = <<<<2, 4, 5>>>>
      <3>1. s = <<<<2, 5, 4>>>>
        BY <2>3, <2>9
      <3>2. neg = {1, 2, 3}
        BY <2>5, <2>9
      <3>. QED BY <2>4, <3>1, <3>2, TurnedClosed
    <2>10. CASE pos = {1, 2} /\ t = <<<<5, 3, 1>>, <<5, 1, 2>>>>
      <3>1. s = <<<<5, 1, 3>>, <<5, 2, 1>>>>
        BY <2>3, <2>10
      <3>2. neg = {3, 4}
        BY <2>5, <2>10
      <3>. QED BY <2>4, <3>1, <3>2, TurnedClosed
    <2>11. CASE pos = {1, 3} /\ t = <<<<0, 3, 4>>, <<0, 4, 2>>>>
      <3>1. s = <<<<0, 4, 3>>, <<0, 2, 4>>>>
        BY <2>3, <2>11
      <3>2. neg = {2, 4}
        BY <2>5, <2>11
      <3>. QED BY <2>4, <3>1, <3>2, TurnedClosed
    <2>12. CASE pos = {1, 4} /\ t = <<<<5, 0, 1>>, <<5, 1, 4>>>>
      <3>1. s = <<<<5, 1, 0>>, <<5, 4, 1>>>>
        BY <2>3, <2>12
      <3>2. neg = {2, 3}
        BY <2>5, <2>12
      <3>. QED BY <2>4, <3>1, <3>2, TurnedClosed
    <2>. QED BY <2>2, <2>3, <2>6, <2>7, <2>8, <2>9, <2>10, <2>11, <2>12, BaseCases
  <1>. QED BY <1>1, <1>2, <1>3

\* The two corners that a side joins.
LEMMA SideFacts ==
  ASSUME NEW a \in 1..4, NEW b \in 1..4, a # b
  PROVE  /\ Sides[a][b] \in 1..6 /\ Sides[a][b] = Sides[b][a]
         /\ \/ From[Sides[a][b]] = a /\ To[Sides[a][b]] = b
            \/ From[Sides[a][b]] = b /\ To[Sides[a][b]] = a
  BY DEF Sides, From, To

\* Two sides that meet say at which corner, and where they go from there.
LEMMA MeetOnce ==
  ASSUME NEW m, NEW n,
         NEW a \in 1..4, NEW b \in 1..4, NEW c \in 1..4, MeetAt(m, n, a, b, c),
         NEW a2 \in 1..4, NEW b2 \in 1..4, NEW c2 \in 1..4, MeetAt(m, n, a2, b2, c2)
  PROVE  a = a2 /\ b = b2 /\ c = c2
  <1>1. /\ Apart(a, b, c) /\ Apart(a2, b2, c2)
        /\ Sides[a][b] = Sides[a2][b2] /\ Sides[a][c] = Sides[a2][c2]
    BY DEF MeetAt
  <1>2. (a = a2 /\ b = b2) \/ (a = b2 /\ b = a2)
    BY <1>1, SideFacts DEF Apart
  <1>3. (a = a2 /\ c = c2) \/ (a = c2 /\ c = a2)
    BY <1>1, SideFacts DEF Apart
  <1>. QED BY <1>1, <1>2, <1>3 DEF Apart

\* Where the third corners of the tetrahedra are; the first is at the node, the second
\* one step in each direction from it.
Around == <<<<0, 1, 1>>, <<0, 0, 1>>, <<1, 0, 1>>, <<1, 0, 0>>, <<1, 1, 0>>, <<0, 1, 0>>>>
Offset(i, x) ==
  IF x = 1 THEN <<0, 0, 0>> ELSE IF x = 2 THEN <<1, 1, 1>>
  ELSE IF x = 3 THEN Around[i] ELSE Around[(i % 6) + 1]

\* The tetrahedron on the other side of the face opposite to corner d of tetrahedron i:
\* its number, which of its corners is which (d is the new one) and how far its node is.
NextTet(i, d) ==
  IF d = 3 THEN (i % 6) + 1 ELSE IF d = 4 THEN ((i + 4) % 6) + 1
  ELSE IF (d = 1 /\ i % 2 = 1) \/ (d = 2 /\ i % 2 = 0) THEN ((i + 3) % 6) + 1 ELSE ((i + 1) % 6) + 1
Renamed(i, d) ==
  IF d = 3 \/ d = 4 THEN <<1, 2, 4, 3>>
  ELSE IF d = 1 THEN (IF i % 2 = 1 THEN <<2, 3, 4, 1>> ELSE <<2, 4, 1, 3>>)
  ELSE (IF i % 2 = 1 THEN <<4, 1, 2, 3>> ELSE <<3, 1, 4, 2>>)
Shift(i, d, c) ==
  IF d = 3 \/ d = 4 THEN 0
  ELSE IF d = 1 THEN Around[IF i % 2 = 1 THEN (i % 6) + 1 ELSE i][c]
  ELSE Around[IF i % 2 = 1 THEN i ELSE (i % 6) + 1][c] - 1

\* Back over the same face is back to the same tetrahedron,
LEMMA NextAndBack ==
  ASSUME NEW i \in 1..6, NEW d \in 1..4
  PROVE  LET i2 == NextTet(i, d)
             p == Renamed(i, d)
         IN  /\ i2 \in 1..6 /\ \A x \in 1..4 : p[x] \in 1..4
             /\ NextTet(i2, p[d]) = i /\ \A x \in 1..4 : Renamed(i2, p[d])[p[x]] = x
  <1>1. d = 1 \/ d = 2 \/ d = 3 \/ d = 4
    OBVIOUS
  <1>2. CASE i = 1
    BY <1>1, <1>2 DEF NextTet, Renamed
  <1>3. CASE i = 2
    BY <1>1, <1>3 DEF NextTet, Renamed
  <1>4. CASE i = 3
    BY <1>1, <1>4 DEF NextTet, Renamed
  <1>5. CASE i = 4
    BY <1>1, <1>5 DEF NextTet, Renamed
  <1>6. CASE i = 5
    BY <1>1, <1>6 DEF NextTet, Renamed
  <1>7. CASE i = 6
    BY <1>1, <1>7 DEF NextTet, Renamed
  <1>8. i = 1 \/ i = 2 \/ i = 3 \/ i = 4 \/ i = 5 \/ i = 6
    OBVIOUS
  <1>. QED BY <1>2, <1>3, <1>4, <1>5, <1>6, <1>7, <1>8

\* with the same corners, which are all renamed,
LEMMA RenamedBack ==
  ASSUME NEW i \in 1..6, NEW d \in 1..4
  PROVE  LET i2 == NextTet(i, d)
             p == Renamed(i, d)
         IN  \A x \in 1..4 : Renamed(i2, p[d])[x] \in 1..4 /\ p[Renamed(i2, p[d])[x]] = x
  <1>1. d = 1 \/ d = 2 \/ d = 3 \/ d = 4
    OBVIOUS
  <1>2. CASE i = 1
    BY <1>1, <1>2 DEF NextTet, Renamed
  <1>3. CASE i = 2
    BY <1>1, <1>3 DEF NextTet, Renamed
  <1>4. CASE i = 3
    BY <1>1, <1>4 DEF NextTet, Renamed
  <1>5. CASE i = 4
    BY <1>1, <1>5 DEF NextTet, Renamed
  <1>6. CASE i = 5
    BY <1>1, <1>6 DEF NextTet, Renamed
  <1>7. CASE i = 6
    BY <1>1, <1>7 DEF NextTet, Renamed
  <1>8. i = 1 \/ i = 2 \/ i = 3 \/ i = 4 \/ i = 5 \/ i = 6
    OBVIOUS
  <1>. QED BY <1>2, <1>3, <1>4, <1>5, <1>6, <1>7, <1>8

\* and at the same node.
LEMMA ShiftBack ==
  ASSUME NEW i \in 1..6, NEW d \in 1..4
  PROVE  LET i2 == NextTet(i, d)
             p == Renamed(i, d)
         IN  \A c \in 1..3 : Shift(i, d, c) \in Int /\ Shift(i2, p[d], c) + Shift(i, d, c) = 0
  <1>1. d = 1 \/ d = 2 \/ d = 3 \/ d = 4
    OBVIOUS
  <1>2. CASE i = 1
    BY <1>1, <1>2 DEF NextTet, Renamed, Shift, Around
  <1>3. CASE i = 2
    BY <1>1, <1>3 DEF NextTet, Renamed, Shift, Around
  <1>4. CASE i = 3
    BY <1>1, <1>4 DEF NextTet, Renamed, Shift, Around
  <1>5. CASE i = 4
    BY <1>1, <1>5 DEF NextTet, Renamed, Shift, Around
  <1>6. CASE i = 5
    BY <1>1, <1>6 DEF NextTet, Renamed, Shift, Around
  <1>7. CASE i = 6
    BY <1>1, <1>7 DEF NextTet, Renamed, Shift, Around
  <1>8. i = 1 \/ i = 2 \/ i = 3 \/ i = 4 \/ i = 5 \/ i = 6
    OBVIOUS
  <1>. QED BY <1>2, <1>3, <1>4, <1>5, <1>6, <1>7, <1>8

\* The corners of the face are where they were.
LEMMA FaceShared ==
  ASSUME NEW i \in 1..6, NEW d \in 1..4, NEW x \in 1..4, x # d, NEW c \in 1..3
  PROVE  Offset(i, x)[c] = Shift(i, d, c) + Offset(NextTet(i, d), Renamed(i, d)[x])[c]
  <1>1. (d = 1 \/ d = 2 \/ d = 3 \/ d = 4) /\ (x = 1 \/ x = 2 \/ x = 3 \/ x = 4)
          /\ (c = 1 \/ c = 2 \/ c = 3)
    OBVIOUS
  <1>2. CASE i = 1
    BY <1>1, <1>2 DEF NextTet, Renamed, Shift, Around, Offset
  <1>3. CASE i = 2
    BY <1>1, <1>3 DEF NextTet, Renamed, Shift, Around, Offset
  <1>4. CASE i = 3
    BY <1>1, <1>4 DEF NextTet, Renamed, Shift, Around, Offset
  <1>5. CASE i = 4
    BY <1>1, <1>5 DEF NextTet, Renamed, Shift, Around, Offset
  <1>6. CASE i = 5
    BY <1>1, <1>6 DEF NextTet, Renamed, Shift, Around, Offset
  <1>7. CASE i = 6
    BY <1>1, <1>7 DEF NextTet, Renamed, Shift, Around, Offset
  <1>8. i = 1 \/ i = 2 \/ i = 3 \/ i = 4 \/ i = 5 \/ i = 6
    OBVIOUS
  <1>. QED BY <1>2, <1>3, <1>4, <1>5, <1>6, <1>7, <1>8

\* From the other tetrahedron the face is seen from the other side.
LEMMA OtherSide ==
  ASSUME NEW i \in 1..6, NEW d \in 1..4, NEW a \in 1..4, NEW b \in 1..4, NEW c \in 1..4,
           Apart(a, b, c)
  PROVE  LET p == Renamed(i, d) IN <<a, b, c>> \in Even <=> <<p[a], p[c], p[b]>> \in Even
  <1>1. Renamed(i, d)
          \in {<<1, 2, 4, 3>>, <<2, 3, 4, 1>>, <<2, 4, 1, 3>>, <<4, 1, 2, 3>>, <<3, 1, 4, 2>>}
    BY DEF Renamed
  <1>2. ASSUME NEW p \in {<<1, 2, 4, 3>>, <<2, 3, 4, 1>>, <<2, 4, 1, 3>>, <<4, 1, 2, 3>>,
                 <<3, 1, 4, 2>>}
        PROVE  <<a, b, c>> \in Even <=> <<p[a], p[c], p[b]>> \in Even
    <2>1. CASE a = 1
      BY <2>1 DEF Even, Apart
    <2>2. CASE a = 2
      BY <2>2 DEF Even, Apart
    <2>3. CASE a = 3
      BY <2>3 DEF Even, Apart
    <2>4. CASE a = 4
      BY <2>4 DEF Even, Apart
    <2>. QED BY <2>1, <2>2, <2>3, <2>4
  <1>. QED BY <1>1, <1>2

\* Where the corners of a tetrahedron are.
LEMMA CornerAt ==
  ASSUME NEW lc \in Coordinates, NEW i \in 1..6, NEW x \in 1..4
  PROVE  /\ Corners(lc, i)[x] = [c \in 1..3 |-> lc[c] + Offset(i, x)[c]]
         /\ Corners(lc, i)[x] \in Coordinates
         /\ \A c \in 1..3 : Offset(i, x)[c] \in Int
  <1>1. ASSUME NEW y \in 2..4, NEW c \in 1..3
        PROVE  Step(InnerEdges[i][y - 1])[c] = Offset(i, y)[c]
    <2>1. (y = 2 \/ y = 3 \/ y = 4) /\ (c = 1 \/ c = 2 \/ c = 3)
      OBVIOUS
    <2>2. /\ Step(0)[c] = <<1, 0, 0>>[c] /\ Step(1)[c] = <<1, 0, 1>>[c]
          /\ Step(2)[c] = <<0, 0, 1>>[c] /\ Step(3)[c] = <<1, 1, 0>>[c]
          /\ Step(4)[c] = <<1, 1, 1>>[c] /\ Step(5)[c] = <<0, 1, 1>>[c]
          /\ Step(6)[c] = <<0, 1, 0>>[c]
      BY <2>1 DEF Step, Deltas
    <2>3. i = 1 \/ i = 2 \/ i = 3 \/ i = 4 \/ i = 5 \/ i = 6
      OBVIOUS
    <2>. QED BY <2>1, <2>2, <2>3 DEF InnerEdges, Offset, Around
  <1>2. \A c \in 1..3 : Offset(i, x)[c] \in Int
    <2>1. i = 1 \/ i = 2 \/ i = 3 \/ i = 4 \/ i = 5 \/ i = 6
      OBVIOUS
    <2>. QED BY <2>1 DEF Offset, Around
  <1>3. CASE x = 1
    <2>1. Corners(lc, i)[x] = lc
      BY <1>3, CornerFacts
    <2>2. \A c \in 1..3 : lc[c] \in Int /\ Offset(i, x)[c] = 0
      BY <1>3 DEF Offset, Coordinates
    <2>3. lc = [c \in 1..3 |-> lc[c]]
      BY DEF Coordinates
    <2>4. \A c \in 1..3 : lc[c] + Offset(i, x)[c] = lc[c]
      BY <2>2
    <2>. QED BY <1>2, <2>1, <2>3, <2>4
  <1>4. CASE x \in 2..4
    <2>1. PICK k \in 1..3 : k = x - 1 /\ x = k + 1
      BY <1>4
    <2>2. PICK ei \in EdgeIndex : ei = InnerEdges[i][k]
      BY CornerFacts
    <2>3. Corners(lc, i)[x] = Neighbor(lc, ei)
      <3>1. Corners(lc, i)[k + 1] = Neighbor(lc, InnerEdges[i][k])
        BY CornerFacts
      <3>. QED BY <2>1, <2>2, <3>1
    <2>4. /\ Neighbor(lc, ei) = [c \in 1..3 |-> lc[c] + Step(ei)[c]]
          /\ Neighbor(lc, ei) \in Coordinates
      BY StepIs, NeighborFacts
    <2>5. \A c \in 1..3 : Step(ei)[c] = Offset(i, x)[c]
      BY <1>1, <1>4, <2>1, <2>2
    <2>. QED BY <1>2, <2>3, <2>4, <2>5
  <1>. QED BY <1>3, <1>4

\* The node of the next tetrahedron.
NextNode(lc, i, d) == [c \in 1..3 |-> lc[c] + Shift(i, d, c)]

\* The next tetrahedron shares the corners of the face, and this one is next to it.
LEMMA NextShares ==
  ASSUME NEW lc \in Coordinates, NEW i \in 1..6, NEW d \in 1..4
  PROVE  LET lc2 == NextNode(lc, i, d)
             i2 == NextTet(i, d)
             p == Renamed(i, d)
         IN  /\ lc2 \in Coordinates /\ NextNode(lc2, i2, p[d]) = lc
             /\ \A x \in (1..4) \ {d} : Corners(lc, i)[x] = Corners(lc2, i2)[p[x]]
  <1>1. PICK lc2, i2, p : lc2 = NextNode(lc, i, d) /\ i2 = NextTet(i, d) /\ p = Renamed(i, d)
    OBVIOUS
  <1>2. /\ i2 \in 1..6 /\ \A x \in 1..4 : p[x] \in 1..4
        /\ \A c \in 1..3 : Shift(i, d, c) \in Int /\ Shift(i2, p[d], c) + Shift(i, d, c) = 0
    BY <1>1, NextAndBack, ShiftBack
  <1>3. /\ lc2 = [c \in 1..3 |-> lc[c] + Shift(i, d, c)]
        /\ lc = [c \in 1..3 |-> lc[c]] /\ \A c \in 1..3 : lc[c] \in Int
    BY <1>1 DEF NextNode, Coordinates
  <1>4. lc2 \in Coordinates
    BY <1>2, <1>3 DEF Coordinates
  <1>5. NextNode(lc2, i2, p[d]) = lc
    <2>1. ASSUME NEW c \in 1..3 PROVE lc2[c] + Shift(i2, p[d], c) = lc[c]
      <3>1. PICK r, s : r = Shift(i, d, c) /\ s = Shift(i2, p[d], c)
        OBVIOUS
      <3>2. p[d] \in 1..4
        BY <1>2
      <3>3. s \in Int
        BY <1>2, <3>1, <3>2, ShiftBack
      <3>. QED BY <1>2, <1>3, <3>1, <3>3
    <2>. QED BY <1>3, <2>1 DEF NextNode
  <1>6. ASSUME NEW x \in (1..4) \ {d} PROVE Corners(lc, i)[x] = Corners(lc2, i2)[p[x]]
    <2>1. PICK y \in 1..4 : y = p[x]
      BY <1>2
    <2>2. /\ Corners(lc, i)[x] = [c \in 1..3 |-> lc[c] + Offset(i, x)[c]]
          /\ Corners(lc2, i2)[y] = [c \in 1..3 |-> lc2[c] + Offset(i2, y)[c]]
          /\ \A c \in 1..3 : Offset(i2, y)[c] \in Int
      BY <1>2, <1>4, CornerAt
    <2>3. \A c \in 1..3 : Offset(i, x)[c] = Shift(i, d, c) + Offset(i2, y)[c]
      BY <1>1, <2>1, FaceShared
    <2>4. ASSUME NEW c \in 1..3 PROVE lc[c] + Offset(i, x)[c] = lc2[c] + Offset(i2, y)[c]
      <3>1. PICK q, r, s \in Int : q = lc[c] /\ r = Shift(i, d, c) /\ s = Offset(i2, y)[c]
        BY <1>2, <1>3, <2>2
      <3>2. lc2[c] = q + r /\ Offset(i, x)[c] = r + s
        BY <1>3, <2>3, <3>1
      <3>. QED BY <3>1, <3>2
    <2>. QED BY <2>1, <2>2, <2>4
  <1>. QED BY <1>1, <1>4, <1>5, <1>6

\* An edge by one of its names, and the two nodes that it joins.
Joins(e, a, b) ==
  /\ e \in Names
  /\ (e.node = a /\ Neighbor(e.node, e.ei) = b) \/ (e.node = b /\ Neighbor(e.node, e.ei) = a)

\* From each corner of a tetrahedron an edge leads to each other one, and a side has the
\* edge between its two.
LEMMA CornersNext ==
  ASSUME NEW lc \in Coordinates, NEW i \in 1..6, NEW a \in 1..4, NEW b \in 1..4, a # b
  PROVE  /\ Joins(TetEdges(lc, i)[Sides[a][b]], Corners(lc, i)[a], Corners(lc, i)[b])
         /\ \E ei \in EdgeIndex : Neighbor(Corners(lc, i)[a], ei) = Corners(lc, i)[b]
  <1>1. PICK cs, e, m : cs = Corners(lc, i) /\ m = Sides[a][b] /\ e = TetEdges(lc, i)[m]
    OBVIOUS
  <1>2. m \in 1..6 /\ ((From[m] = a /\ To[m] = b) \/ (From[m] = b /\ To[m] = a))
    BY <1>1, SideFacts
  <1>3. /\ e = [node |-> e.node, ei |-> e.ei] /\ e.ei \in EdgeIndex
        /\ e.node = cs[From[m]] /\ Neighbor(e.node, e.ei) = cs[To[m]]
    BY <1>1, <1>2, EdgeEnds
  <1>4. cs[a] \in Coordinates /\ cs[b] \in Coordinates
    BY <1>1, CornerAt
  <1>5. PICK n, ei : n = e.node /\ ei = e.ei
    OBVIOUS
  <1>6. e = [node |-> n, ei |-> ei] /\ n \in Coordinates /\ ei \in EdgeIndex
    BY <1>2, <1>3, <1>4, <1>5
  <1>7. e \in Names
    BY <1>6 DEF Names
  <1>8. Neighbor(Neighbor(n, ei), Opposite(ei)) = n /\ Opposite(ei) \in EdgeIndex
    BY <1>6, NeighborFacts
  <1>. QED BY <1>1, <1>2, <1>3, <1>5, <1>6, <1>7, <1>8 DEF Joins

\* Different edges of a node lead to different nodes.
LEMMA EdgesApart ==
  ASSUME NEW lc \in Coordinates, NEW ei \in EdgeIndex, NEW ej \in EdgeIndex,
         Neighbor(lc, ei) = Neighbor(lc, ej)
  PROVE  ei = ej
  <1>1. ASSUME NEW c \in 1..3 PROVE Step(ei)[c] = Step(ej)[c]
    <2>1. /\ Neighbor(lc, ei) = [k \in 1..3 |-> lc[k] + Step(ei)[k]]
          /\ Neighbor(lc, ej) = [k \in 1..3 |-> lc[k] + Step(ej)[k]]
          /\ lc[c] \in Int /\ Step(ei)[c] \in Int /\ Step(ej)[c] \in Int
      BY StepIs
    <2>2. lc[c] + Step(ei)[c] = lc[c] + Step(ej)[c]
      BY <2>1
    <2>. QED BY <2>1, <2>2
  <1>2. ASSUME NEW e \in EdgeIndex
        PROVE  \/ e = 0 /\ Step(e)[1] = 1 /\ Step(e)[2] = 0 /\ Step(e)[3] = 0
               \/ e = 1 /\ Step(e)[1] = 1 /\ Step(e)[2] = 0 /\ Step(e)[3] = 1
               \/ e = 2 /\ Step(e)[1] = 0 /\ Step(e)[2] = 0 /\ Step(e)[3] = 1
               \/ e = 3 /\ Step(e)[1] = 1 /\ Step(e)[2] = 1 /\ Step(e)[3] = 0
               \/ e = 4 /\ Step(e)[1] = 1 /\ Step(e)[2] = 1 /\ Step(e)[3] = 1
               \/ e = 5 /\ Step(e)[1] = 0 /\ Step(e)[2] = 1 /\ Step(e)[3] = 1
               \/ e = 6 /\ Step(e)[1] = 0 /\ Step(e)[2] = 1 /\ Step(e)[3] = 0
               \/ e = 7 /\ Step(e)[1] = -1 /\ Step(e)[2] = 0 /\ Step(e)[3] = 0
               \/ e = 8 /\ Step(e)[1] = -1 /\ Step(e)[2] = 0 /\ Step(e)[3] = -1
               \/ e = 9 /\ Step(e)[1] = 0 /\ Step(e)[2] = 0 /\ Step(e)[3] = -1
               \/ e = 10 /\ Step(e)[1] = -1 /\ Step(e)[2] = -1 /\ Step(e)[3] = 0
               \/ e = 11 /\ Step(e)[1] = -1 /\ Step(e)[2] = -1 /\ Step(e)[3] = -1
               \/ e = 12 /\ Step(e)[1] = 0 /\ Step(e)[2] = -1 /\ Step(e)[3] = -1
               \/ e = 13 /\ Step(e)[1] = 0 /\ Step(e)[2] = -1 /\ Step(e)[3] = 0
    <2>1. \/ e = 0 \/ e = 1 \/ e = 2 \/ e = 3 \/ e = 4 \/ e = 5 \/ e = 6
          \/ e = 7 \/ e = 8 \/ e = 9 \/ e = 10 \/ e = 11 \/ e = 12 \/ e = 13
      BY DEF EdgeIndex
    <2>. QED BY <2>1 DEF Step, Deltas
  <1>3. Step(ei)[1] = Step(ej)[1] /\ Step(ei)[2] = Step(ej)[2] /\ Step(ei)[3] = Step(ej)[3]
    BY <1>1
  <1>. QED BY <1>2, <1>3

\* Two names of an edge are of the same vertex.
LEMMA SameVertex ==
  ASSUME field \in Fields, NEW e, NEW f, NEW p \in Box, NEW q \in Box, Joins(e, p, q),
           Joins(f, p, q)
  PROVE  VertexOf(e) = VertexOf(f)
  <1>1. PICK a, ei, b, oi, o :
          /\ a \in Coordinates /\ ei \in EdgeIndex
          /\ e = [node |-> a, ei |-> ei] /\ b = Neighbor(a, ei) /\ oi = Opposite(ei)
          /\ o = [node |-> b, ei |-> oi] /\ a = e.node /\ ei = e.ei /\ a \in Box /\ b \in Box
    BY DEF Names, Joins
  <1>2. PICK x \in Coordinates, xi \in EdgeIndex : f = [node |-> x, ei |-> xi] /\ x = f.node
               /\ xi = f.ei
    BY DEF Names, Joins
  <1>3. OtherEnd(e) = o /\ o.node = b /\ o.ei = oi
    BY <1>1 DEF OtherEnd
  <1>4. oi \in EdgeIndex /\ Opposite(oi) = ei /\ Neighbor(b, oi) = a /\ b \in Coordinates
    BY <1>1, NeighborFacts
  <1>5. CASE x = a /\ Neighbor(x, xi) = b
    <2>1. xi = ei
      BY <1>1, <1>5, EdgesApart
    <2>. QED BY <1>1, <1>2, <1>3, <1>5, <2>1 DEF VertexOf
  <1>6. CASE x = b /\ Neighbor(x, xi) = a
    <2>1. xi = oi
      BY <1>4, <1>6, EdgesApart
    <2>2. f = o
      BY <1>1, <1>2, <1>6, <2>1
    <2>3. OtherEnd(o) = e
      BY <1>1, <1>3, <1>4 DEF OtherEnd
    <2>4. IsNear(a, b) <=> ~IsNear(b, a)
      BY <1>1, OneIsNear
    <2>. QED BY <1>1, <1>3, <2>2, <2>3, <2>4 DEF VertexOf
  <1>. QED BY <1>1, <1>2, <1>5, <1>6 DEF Joins

\* The halfedges of the triangles of the surface: [1] is the tetrahedron, [2] says which
\* triangle and which of its three.  From and to which side it goes, and the vertices.
Halfedge == (Box \X (1..6)) \X ((1..2) \X (1..3))
NegativeOf(t) == {k \in 1..4 : Negative(Corners(t[1], t[2])[k])}
TrianglesOf(t) == Triangles(NegativeOf(t))
OfSurface == {h \in Halfedge : h[1] \in Tetrahedra /\ h[2][1] \in DOMAIN TrianglesOf(h[1])}
FromOf(h) == FromSide(TrianglesOf(h[1]), h[2][1], h[2][2])
ToOf(h) == ToSide(TrianglesOf(h[1]), h[2][1], h[2][2])
VertexIn(t, m) == VertexOf(TetEdges(t[1], t[2])[m])

\* The opposite of a halfedge, in the same tetrahedron or over face abc, d is the fourth.
OppositeWithin(h, g) ==
  /\ ~Meet(FromOf(h), ToOf(h))
  /\ g[1] = h[1] /\ FromOf(g) = ToOf(h) /\ ToOf(g) = FromOf(h)
Over(t, d) == <<NextNode(t[1], t[2], d), NextTet(t[2], d)>>
OppositeOver(h, g, a, b, c, d) ==
  LET p == Renamed(h[1][2], d)
  IN /\ MeetAt(FromOf(h), ToOf(h), a, b, c) /\ d \notin {a, b, c}
     /\ g[1] = Over(h[1], d) /\ MeetAt(FromOf(g), ToOf(g), p[a], p[c], p[b])
IsOpposite(h, g) ==
  OppositeWithin(h, g) \/ \E a, b, c, d \in 1..4 : OppositeOver(h, g, a, b, c, d)

\* The face over which the opposite is, from its side.
Back(h, g, d) ==
  LET p == Renamed(h[1][2], d)
  IN /\ Meet(FromOf(g), ToOf(g)) /\ h[1] = Over(g[1], p[d])
     /\ \A x \in 1..4 : p[x] \in 1..4 /\ Renamed(g[1][2], p[d])[p[x]] = x

\* What a halfedge is.
LEMMA OfSurfaceIs ==
  ASSUME NEW h \in OfSurface
  PROVE  /\ h[1] = <<h[1][1], h[1][2]>> /\ h[1][1] \in Box /\ h[1][1] \in Coordinates
              /\ h[1][2] \in 1..6
         /\ h = <<h[1], <<h[2][1], h[2][2]>>>> /\ h[2][2] \in 1..3 /\ h[2][1] \in 1..2
         /\ h[1] \in Tetrahedra /\ h[2][1] \in DOMAIN TrianglesOf(h[1])
         /\ \A x \in 1..4 : Corners(h[1][1], h[1][2])[x] \in Box
         /\ Closed(NegativeOf(h[1]), TrianglesOf(h[1]))
  <1>1. h \in Halfedge /\ h[1] \in Tetrahedra /\ h[2][1] \in DOMAIN TrianglesOf(h[1])
    BY DEF OfSurface
  <1>2. PICK lc \in Box, i \in 1..6, k \in 1..2, j \in 1..3 : h = <<<<lc, i>>, <<k, j>>>>
    BY <1>1 DEF Halfedge
  <1>3. h[1] = <<lc, i>> /\ h[1][1] = lc /\ h[1][2] = i /\ h[2][1] = k /\ h[2][2] = j
    BY <1>2
  <1>4. lc \in Coordinates
    BY BoxAssumption DEF Coordinates
  <1>5. \A x \in 1..4 : Corners(lc, i)[x] \in Box
    <2>1. DOMAIN Corners(lc, i) = 1..4
      BY <1>4, CornerFacts
    <2>2. ToSet(Corners(lc, i)) \subseteq Box
      BY <1>1, <1>3 DEF Tetrahedra
    <2>. QED BY <2>1, <2>2 DEF ToSet
  <1>6. Closed(NegativeOf(h[1]), TrianglesOf(h[1]))
    <2>1. NegativeOf(h[1]) \in SUBSET (1..4)
      BY DEF NegativeOf
    <2>. QED BY <2>1, TrianglesClosed DEF TrianglesOf
  <1>. QED BY <1>1, <1>2, <1>3, <1>4, <1>5, <1>6

\* Halfedges from and to the same side are the same.
LEMMA SameSides ==
  ASSUME NEW h \in OfSurface, NEW g \in OfSurface, h[1] = g[1], FromOf(h) = FromOf(g), ToOf(h)
           = ToOf(g)
  PROVE  h = g
  <1>1. Once(TrianglesOf(h[1]))
    BY OfSurfaceIs DEF Closed
  <1>2. h[2][1] = g[2][1] /\ h[2][2] = g[2][2]
    BY <1>1, OfSurfaceIs DEF Once, FromOf, ToOf
  <1>. QED BY <1>2, OfSurfaceIs

\* No two have the same opposite.
LEMMA OppositeOnce ==
  ASSUME NEW h1 \in OfSurface, NEW h2 \in OfSurface, NEW g \in OfSurface, IsOpposite(h1, g),
           IsOpposite(h2, g)
  PROVE  h1 = h2
  <1>1. ASSUME NEW m, NEW n, Meet(m, n) PROVE Meet(n, m)
    BY <1>1 DEF Meet, MeetAt, Apart
  <1>2. ASSUME NEW h \in OfSurface, NEW a \in 1..4, NEW b \in 1..4, NEW c \in 1..4, NEW d \in 1..4,
               OppositeOver(h, g, a, b, c, d)
        PROVE  Back(h, g, d)
    <2>1. PICK lc, i, p : lc = h[1][1] /\ i = h[1][2] /\ p = Renamed(i, d)
      OBVIOUS
    <2>2. PICK lc2, i2 : lc2 = NextNode(lc, i, d) /\ i2 = NextTet(i, d)
      OBVIOUS
    <2>3. lc \in Coordinates /\ i \in 1..6 /\ h[1] = <<lc, i>>
      BY <2>1, OfSurfaceIs
    <2>4. g[1] = <<lc2, i2>> /\ g[1][1] = lc2 /\ g[1][2] = i2
      BY <1>2, <2>1, <2>2 DEF OppositeOver, Over
    <2>5. /\ \A x \in 1..4 : p[x] \in 1..4
          /\ NextTet(i2, p[d]) = i /\ \A x \in 1..4 : Renamed(i2, p[d])[p[x]] = x
      BY <1>2, <2>1, <2>2, <2>3, NextAndBack
    <2>6. NextNode(lc2, i2, p[d]) = lc
      BY <1>2, <2>1, <2>2, <2>3, NextShares
    <2>7. PICK a2 \in 1..4, b2 \in 1..4, c2 \in 1..4 : MeetAt(FromOf(g), ToOf(g), a2, c2, b2)
      BY <1>2, <2>1, <2>5 DEF OppositeOver
    <2>8. Meet(FromOf(g), ToOf(g))
      BY <2>7 DEF Meet
    <2>9. h[1] = Over(g[1], p[d])
      BY <2>3, <2>4, <2>5, <2>6 DEF Over
    <2>10. \A x \in 1..4 : Renamed(g[1][2], p[d])[p[x]] = x
      BY <2>4, <2>5
    <2>. QED BY <2>1, <2>5, <2>8, <2>9, <2>10 DEF Back
  <1>3. ASSUME OppositeWithin(h1, g), OppositeWithin(h2, g) PROVE h1 = h2
    BY <1>3, SameSides DEF OppositeWithin
  <1>4. ASSUME NEW h \in OfSurface, OppositeWithin(h, g) PROVE ~Meet(FromOf(g), ToOf(g))
    BY <1>1, <1>4 DEF OppositeWithin
  <1>5. ASSUME NEW a1 \in 1..4, NEW b1 \in 1..4, NEW c1 \in 1..4, NEW d1 \in 1..4,
               OppositeOver(h1, g, a1, b1, c1, d1),
               NEW a2 \in 1..4, NEW b2 \in 1..4, NEW c2 \in 1..4, NEW d2 \in 1..4,
               OppositeOver(h2, g, a2, b2, c2, d2)
        PROVE  h1 = h2
    <2>1. PICK p1, p2 : p1 = Renamed(h1[1][2], d1) /\ p2 = Renamed(h2[1][2], d2)
      OBVIOUS
    <2>2. PICK q1 : /\ q1 = Renamed(g[1][2], p1[d1]) /\ h1[1] = Over(g[1], p1[d1])
                    /\ \A x \in 1..4 : p1[x] \in 1..4 /\ q1[p1[x]] = x
      <3>1. PICK q1 : q1 = Renamed(g[1][2], p1[d1])
        OBVIOUS
      <3>2. Back(h1, g, d1)
        BY <1>2, <1>5
      <3>. QED BY <2>1, <3>1, <3>2 DEF Back
    <2>3. PICK q2 : /\ q2 = Renamed(g[1][2], p2[d2]) /\ h2[1] = Over(g[1], p2[d2])
                    /\ \A x \in 1..4 : p2[x] \in 1..4 /\ q2[p2[x]] = x
      <3>1. PICK q2 : q2 = Renamed(g[1][2], p2[d2])
        OBVIOUS
      <3>2. Back(h2, g, d2)
        BY <1>2, <1>5
      <3>. QED BY <2>1, <3>1, <3>2 DEF Back
    <2>4. /\ MeetAt(FromOf(h1), ToOf(h1), a1, b1, c1) /\ d1 \notin {a1, b1, c1}
          /\ MeetAt(FromOf(h2), ToOf(h2), a2, b2, c2) /\ d2 \notin {a2, b2, c2}
          /\ MeetAt(FromOf(g), ToOf(g), p1[a1], p1[c1], p1[b1])
          /\ MeetAt(FromOf(g), ToOf(g), p2[a2], p2[c2], p2[b2])
      BY <1>5, <2>1 DEF OppositeOver
    <2>5. PICK A1, B1, C1, D1, A2, B2, C2, D2 \in 1..4 :
            /\ A1 = p1[a1] /\ B1 = p1[b1] /\ C1 = p1[c1] /\ D1 = p1[d1]
            /\ A2 = p2[a2] /\ B2 = p2[b2] /\ C2 = p2[c2] /\ D2 = p2[d2]
      BY <2>2, <2>3
    <2>6. /\ q1[A1] = a1 /\ q1[B1] = b1 /\ q1[C1] = c1 /\ q1[D1] = d1
          /\ q2[A2] = a2 /\ q2[B2] = b2 /\ q2[C2] = c2 /\ q2[D2] = d2
      BY <2>2, <2>3, <2>5
    <2>7. A1 = A2 /\ B1 = B2 /\ C1 = C2
      <3>1. MeetAt(FromOf(g), ToOf(g), A1, C1, B1) /\ MeetAt(FromOf(g), ToOf(g), A2, C2, B2)
        BY <2>4, <2>5
      <3>. QED BY <3>1, MeetOnce
    <2>8. D1 = D2
      <3>1. D1 \notin {A1, B1, C1} /\ D2 \notin {A2, B2, C2} /\ Apart(A1, B1, C1)
        BY <2>4, <2>6 DEF MeetAt, Apart
      <3>. QED BY <2>7, <3>1 DEF Apart
    <2>9. q1 = q2 /\ h1[1] = h2[1]
      BY <2>2, <2>3, <2>5, <2>8
    <2>10. a1 = a2 /\ b1 = b2 /\ c1 = c2
      BY <2>6, <2>7, <2>9
    <2>. QED BY <2>4, <2>9, <2>10, SameSides DEF MeetAt
  <1>6. ASSUME NEW h \in OfSurface, NEW a \in 1..4, NEW b \in 1..4, NEW c \in 1..4, NEW d \in 1..4,
               OppositeOver(h, g, a, b, c, d)
        PROVE  Meet(FromOf(g), ToOf(g))
    BY <1>2, <1>6 DEF Back
  <1>. QED BY <1>3, <1>4, <1>5, <1>6 DEF IsOpposite

\* A side of the face has the same vertex from both tetrahedra.
LEMMA SideShared ==
  ASSUME field \in Fields, NEW lc \in Coordinates, NEW i \in 1..6, NEW d \in 1..4,
         NEW a \in (1..4) \ {d}, NEW b \in (1..4) \ {d}, a # b,
         Corners(lc, i)[a] \in Box, Corners(lc, i)[b] \in Box
  PROVE  LET p == Renamed(i, d)
         IN VertexIn(<<lc, i>>, Sides[a][b]) = VertexIn(Over(<<lc, i>>, d), Sides[p[a]][p[b]])
  <1>1. PICK p, lc2, i2 : p = Renamed(i, d) /\ lc2 = NextNode(lc, i, d) /\ i2 = NextTet(i, d)
    OBVIOUS
  <1>2. i2 \in 1..6 /\ (\A x \in 1..4 : p[x] \in 1..4)
          /\ \A x \in 1..4 : Renamed(i2, p[d])[p[x]] = x
    BY <1>1, NextAndBack
  <1>3. /\ lc2 \in Coordinates
        /\ \A x \in (1..4) \ {d} : Corners(lc, i)[x] = Corners(lc2, i2)[p[x]]
    BY <1>1, NextShares
  <1>4. PICK pa \in 1..4, pb \in 1..4 : pa = p[a] /\ pb = p[b] /\ pa # pb
    BY <1>2
  <1>5. PICK ca \in Box, cb \in Box : /\ ca = Corners(lc, i)[a] /\ cb = Corners(lc, i)[b]
                                      /\ ca = Corners(lc2, i2)[pa] /\ cb = Corners(lc2, i2)[pb]
    BY <1>3, <1>4
  <1>6. PICK e, f : e = TetEdges(lc, i)[Sides[a][b]] /\ f = TetEdges(lc2, i2)[Sides[pa][pb]]
    OBVIOUS
  <1>7. Joins(e, ca, cb)
    <2>1. a \in 1..4 /\ b \in 1..4
      OBVIOUS
    <2>. QED BY <1>5, <1>6, <2>1, CornersNext
  <1>8. Joins(f, ca, cb)
    BY <1>2, <1>3, <1>4, <1>5, <1>6, CornersNext
  <1>9. VertexOf(e) = VertexOf(f)
    BY <1>7, <1>8, SameVertex
  <1>. QED BY <1>1, <1>4, <1>6, <1>9 DEF VertexIn, Over

\* Opposite halfedges go from and to the same vertices, the other way round.
LEMMA OppositeJoins ==
  ASSUME field \in Fields, NEW h \in OfSurface, NEW g \in OfSurface, IsOpposite(h, g)
  PROVE  /\ VertexIn(g[1], FromOf(g)) = VertexIn(h[1], ToOf(h))
         /\ VertexIn(g[1], ToOf(g)) = VertexIn(h[1], FromOf(h))
  <1>1. CASE OppositeWithin(h, g)
    BY <1>1 DEF OppositeWithin
  <1>2. ASSUME NEW a \in 1..4, NEW b \in 1..4, NEW c \in 1..4, NEW d \in 1..4,
               OppositeOver(h, g, a, b, c, d)
        PROVE  /\ VertexIn(g[1], FromOf(g)) = VertexIn(h[1], ToOf(h))
               /\ VertexIn(g[1], ToOf(g)) = VertexIn(h[1], FromOf(h))
    <2>1. PICK lc \in Coordinates, i \in 1..6 : h[1] = <<lc, i>> /\ h[1][2] = i /\ h[1][1] = lc
      BY OfSurfaceIs
    <2>2. PICK p : p = Renamed(i, d)
      OBVIOUS
    <2>3. /\ MeetAt(FromOf(h), ToOf(h), a, b, c) /\ d \notin {a, b, c}
          /\ g[1] = Over(<<lc, i>>, d) /\ MeetAt(FromOf(g), ToOf(g), p[a], p[c], p[b])
      BY <1>2, <2>1, <2>2 DEF OppositeOver
    <2>4. /\ FromOf(h) = Sides[a][b] /\ ToOf(h) = Sides[a][c] /\ a # b /\ a # c
          /\ FromOf(g) = Sides[p[a]][p[c]] /\ ToOf(g) = Sides[p[a]][p[b]]
          /\ a \in (1..4) \ {d} /\ b \in (1..4) \ {d} /\ c \in (1..4) \ {d}
      BY <2>3 DEF MeetAt, Apart
    <2>5. \A x \in 1..4 : Corners(lc, i)[x] \in Box
      BY <2>1, OfSurfaceIs
    <2>6. ASSUME NEW x \in {b, c} PROVE VertexIn(<<lc, i>>, Sides[a][x])
                   = VertexIn(g[1], Sides[p[a]][p[x]])
      <3>1. x \in (1..4) \ {d} /\ a \in (1..4) \ {d} /\ a # x
        BY <2>4
      <3>2. Corners(lc, i)[a] \in Box /\ Corners(lc, i)[x] \in Box
        BY <2>5, <3>1
      <3>3. VertexIn(<<lc, i>>, Sides[a][x]) = VertexIn(Over(<<lc, i>>, d), Sides[p[a]][p[x]])
        BY <2>2, <3>1, <3>2, SideShared
      <3>. QED BY <2>3, <3>3
    <2>. QED BY <2>1, <2>4, <2>6
  <1>. QED BY <1>1, <1>2 DEF IsOpposite

\* Next to both ends of an edge with a vertex in the bbox the lattice goes on.
LEMMA GoesOn ==
  ASSUME NEW e, NEW a, NEW b, Joins(e, a, b), VertexOf(e) \in Inside,
         NEW ea \in EdgeIndex, NEW eb \in EdgeIndex, Neighbor(a, ea) = Neighbor(b, eb)
  PROVE  Neighbor(a, ea) \in Box
  <1>1. PICK v : v = VertexOf(e)
    OBVIOUS
  <1>2. /\ v \in Inside
        /\ \A ei, ej \in EdgeIndex :
             Neighbor(v.node, ei) = Neighbor(OtherEnd(v).node, ej) => Neighbor(v.node, ei) \in Box
    BY <1>1, InsideAssumption
  <1>3. PICK x, ei, y, o :
          /\ x \in Coordinates /\ ei \in EdgeIndex
          /\ e = [node |-> x, ei |-> ei] /\ y = Neighbor(x, ei)
               /\ o = [node |-> y, ei |-> Opposite(ei)]
          /\ x = e.node /\ ei = e.ei
    BY DEF Names, Joins
  <1>4. OtherEnd(e) = o /\ o.node = y
    BY <1>3 DEF OtherEnd
  <1>5. OtherEnd(o).node = x
    BY <1>3, NeighborFacts DEF OtherEnd
  <1>6. (v.node = x /\ OtherEnd(v).node = y) \/ (v.node = y /\ OtherEnd(v).node = x)
    BY <1>1, <1>3, <1>4, <1>5 DEF VertexOf
  <1>7. (v.node = a /\ OtherEnd(v).node = b) \/ (v.node = b /\ OtherEnd(v).node = a)
    BY <1>3, <1>6 DEF Joins
  <1>. QED BY <1>2, <1>7

\* A halfedge from or to a vertex in the bbox has its opposite.
LEMMA OppositeExists ==
  ASSUME field \in Fields, NEW h \in OfSurface,
         VertexIn(h[1], FromOf(h)) \in Inside \/ VertexIn(h[1], ToOf(h)) \in Inside
  PROVE  \E g \in OfSurface : IsOpposite(h, g)
  <1>1. PICK lc \in Coordinates, i \in 1..6 : h[1] = <<lc, i>> /\ h[1][1] = lc /\ h[1][2] = i
    BY OfSurfaceIs
  <1>2. PICK t : t = <<lc, i>> /\ t = h[1] /\ h[1][1] = lc /\ h[1][2] = i
    BY <1>1
  <1>3. PICK neg, tr : neg = NegativeOf(t) /\ tr = TrianglesOf(t)
    OBVIOUS
  <1>4. PICK k, j : k = h[2][1] /\ j = h[2][2]
    OBVIOUS
  <1>5. /\ k \in DOMAIN tr /\ j \in 1..3 /\ DOMAIN tr \subseteq 1..2 /\ InFaces(neg, tr)
        /\ t \in Tetrahedra /\ lc \in Box
        /\ \A x \in 1..4 : Corners(lc, i)[x] \in Box
    BY <1>2, <1>3, <1>4, OfSurfaceIs DEF Closed
  <1>6. FromOf(h) = FromSide(tr, k, j) /\ ToOf(h) = ToSide(tr, k, j)
    BY <1>2, <1>3, <1>4 DEF FromOf, ToOf
  <1>7. CASE /\ ~Meet(FromOf(h), ToOf(h))
             /\ \E k2 \in DOMAIN tr : \E j2 \in 1..3 :
                  FromSide(tr, k2, j2) = ToOf(h) /\ ToSide(tr, k2, j2) = FromOf(h)
    <2>1. PICK k2 \in DOMAIN tr, j2 \in 1..3 :
                  FromSide(tr, k2, j2) = ToOf(h) /\ ToSide(tr, k2, j2) = FromOf(h)
      BY <1>7
    <2>2. PICK g : g = <<t, <<k2, j2>>>>
      OBVIOUS
    <2>3. g[1] = t /\ g[2][1] = k2 /\ g[2][2] = j2
      BY <2>2
    <2>4. g \in OfSurface
      BY <1>2, <1>3, <1>5, <2>2, <2>3 DEF OfSurface, Halfedge
    <2>5. OppositeWithin(h, g)
      BY <1>2, <1>3, <1>7, <2>1, <2>3 DEF OppositeWithin, FromOf, ToOf
    <2>. QED BY <2>4, <2>5 DEF IsOpposite
  <1>8. ASSUME NEW a \in 1..4, NEW b \in 1..4, NEW c \in 1..4, Passes(neg, a, b, c),
               FromOf(h) = Sides[a][b], ToOf(h) = Sides[a][c]
        PROVE  \E g \in OfSurface : IsOpposite(h, g)
    <2>1. Apart(a, b, c) /\ a # b /\ a # c /\ b # c
      BY <1>8 DEF Passes, Apart
    <2>2. PICK d \in 1..4 : d \notin {a, b, c}
      <3>1. PICK d \in {1, 2, 3, 4} : d # a /\ d # b /\ d # c
        OBVIOUS
      <3>. QED BY <3>1
    <2>3. PICK p, lc2, i2 : p = Renamed(i, d) /\ lc2 = NextNode(lc, i, d) /\ i2 = NextTet(i, d)
      OBVIOUS
    <2>4. /\ i2 \in 1..6 /\ \A x \in 1..4 : p[x] \in 1..4
          /\ NextTet(i2, p[d]) = i /\ \A x \in 1..4 : Renamed(i2, p[d])[p[x]] = x
      BY <2>3, NextAndBack
    <2>5. PICK D, q : D \in 1..4 /\ D = p[d] /\ q = Renamed(i2, D)
      BY <2>4
    <2>6. q[D] = d /\ \A y \in 1..4 : q[y] \in 1..4 /\ p[q[y]] = y
      BY <2>3, <2>4, <2>5, RenamedBack
    <2>7. /\ lc2 \in Coordinates
          /\ \A x \in (1..4) \ {d} : Corners(lc, i)[x] = Corners(lc2, i2)[p[x]]
      BY <2>3, NextShares
    <2>8. PICK A \in 1..4, B \in 1..4, C \in 1..4 : A = p[a] /\ B = p[b] /\ C = p[c]
      BY <2>4
    <2>9. PICK cs, cs2 : cs = Corners(lc, i) /\ cs2 = Corners(lc2, i2)
      OBVIOUS
    <2>10. cs2[A] = cs[a] /\ cs2[B] = cs[b] /\ cs2[C] = cs[c] /\ A # D /\ B # D /\ C # D
             /\ Apart(A, C, B)
      <3>1. cs2[A] = cs[a] /\ cs2[B] = cs[b] /\ cs2[C] = cs[c]
        BY <2>2, <2>7, <2>8, <2>9
      <3>2. q[A] = a /\ q[B] = b /\ q[C] = c /\ q[D] = d
        BY <2>4, <2>5, <2>6, <2>8
      <3>. QED BY <2>1, <2>2, <3>1, <3>2 DEF Apart
    <2>11. cs2[D] \in Box
      <3>1. PICK eA \in EdgeIndex : Neighbor(cs2[A], eA) = cs2[D]
        BY <2>4, <2>5, <2>7, <2>9, <2>10, CornersNext
      <3>2. ASSUME NEW x \in {b, c}, NEW X \in {B, C}, X # D, cs2[X] = cs[x],
                   VertexIn(t, Sides[a][x]) \in Inside
            PROVE  cs2[D] \in Box
        <4>1. PICK eX \in EdgeIndex : Neighbor(cs2[X], eX) = cs2[D]
          BY <2>4, <2>5, <2>7, <2>9, <3>2, CornersNext
        <4>2. PICK e : e = TetEdges(lc, i)[Sides[a][x]] /\ Joins(e, cs[a], cs[x])
          <5>1. x \in 1..4 /\ a # x
            BY <2>1
          <5>. QED BY <2>9, <5>1, CornersNext
        <4>3. VertexOf(e) \in Inside
          BY <1>2, <3>2, <4>2 DEF VertexIn
        <4>. QED BY <2>10, <3>1, <3>2, <4>1, <4>2, <4>3, GoesOn
      <3>. QED BY <1>2, <1>8, <2>10, <3>2
    <2>12. \A y \in 1..4 : cs2[y] \in Box
      <3>. TAKE y \in 1..4
      <3>1. PICK x \in 1..4 : x = q[y] /\ y = p[x]
        BY <2>6
      <3>2. CASE x = d
        BY <2>5, <2>11, <3>1, <3>2
      <3>3. CASE x # d
        BY <1>5, <2>7, <2>9, <3>1, <3>3
      <3>. QED BY <3>2, <3>3
    <2>13. PICK t2 : t2 = <<lc2, i2>> /\ t2[1] = lc2 /\ t2[2] = i2
      <3>1. <<lc2, i2>>[1] = lc2 /\ <<lc2, i2>>[2] = i2
        OBVIOUS
      <3>. QED BY <3>1
    <2>14. t2 \in Tetrahedra /\ lc2 \in Box
      <3>1. DOMAIN cs2 = 1..4 /\ cs2[1] = lc2
        BY <2>4, <2>7, <2>9, CornerFacts
      <3>2. ToSet(cs2) \subseteq Box
        BY <2>12, <3>1 DEF ToSet
      <3>3. lc2 \in Box
        BY <2>12, <3>1
      <3>. QED BY <2>4, <2>9, <2>13, <3>2, <3>3 DEF Tetrahedra
    <2>15. PICK neg2, tr2 : neg2 = NegativeOf(t2) /\ tr2 = TrianglesOf(t2)
      OBVIOUS
    <2>16. (A \in neg2 <=> a \in neg) /\ (B \in neg2 <=> b \in neg) /\ (C \in neg2 <=> c \in neg)
      <3>1. /\ neg = {y \in 1..4 : Negative(cs[y])}
            /\ neg2 = {y \in 1..4 : Negative(cs2[y])}
        BY <1>2, <1>3, <2>9, <2>13, <2>15 DEF NegativeOf
      <3>. QED BY <2>10, <3>1
    <2>17. Passes(neg2, A, C, B)
      <3>1. <<a, b, c>> \in Even <=> <<A, C, B>> \in Even
        BY <2>1, <2>3, <2>8, OtherSide
      <3>. QED BY <1>8, <2>10, <2>16, <3>1 DEF Passes
    <2>18. AllFaces(neg2, tr2) /\ DOMAIN tr2 \subseteq 1..2
      <3>1. neg2 \in SUBSET (1..4) /\ tr2 = Triangles(neg2)
        BY <2>15 DEF NegativeOf, TrianglesOf
      <3>. QED BY <3>1, TrianglesClosed DEF Closed
    <2>19. PICK k2 \in DOMAIN tr2, j2 \in 1..3 :
             FromSide(tr2, k2, j2) = Sides[A][C] /\ ToSide(tr2, k2, j2) = Sides[A][B]
      BY <2>17, <2>18 DEF AllFaces
    <2>20. PICK g : g = <<t2, <<k2, j2>>>>
      OBVIOUS
    <2>21. g[1] = t2 /\ g[2][1] = k2 /\ g[2][2] = j2
      BY <2>20
    <2>22. g \in OfSurface
      BY <2>4, <2>13, <2>14, <2>15, <2>18, <2>20, <2>21 DEF OfSurface, Halfedge
    <2>23. FromOf(g) = Sides[A][C] /\ ToOf(g) = Sides[A][B]
      BY <2>15, <2>19, <2>21 DEF FromOf, ToOf
    <2>24. g[1] = Over(h[1], d)
      BY <1>2, <2>3, <2>13, <2>21 DEF Over
    <2>25. OppositeOver(h, g, a, b, c, d)
      BY <1>2, <1>8, <2>1, <2>2, <2>3, <2>8, <2>10, <2>23, <2>24 DEF OppositeOver, MeetAt
    <2>. QED BY <2>22, <2>25 DEF IsOpposite
  <1>9. \/ \E a, b, c \in 1..4 : /\ Passes(neg, a, b, c)
                                 /\ FromSide(tr, k, j) = Sides[a][b]
                                      /\ ToSide(tr, k, j) = Sides[a][c]
        \/ /\ ~Meet(FromSide(tr, k, j), ToSide(tr, k, j))
           /\ \E k2 \in DOMAIN tr : \E j2 \in 1..3 :
                FromSide(tr, k2, j2) = ToSide(tr, k, j) /\ ToSide(tr, k2, j2) = FromSide(tr, k, j)
    BY <1>5, Zenon DEF InFaces
  <1>. QED BY <1>6, <1>7, <1>8, <1>9

\* The vertices of a triangle when they are clustered, and those of a halfedge.
Points(t, k) == [j \in 1..3 |-> Clustered(VertexIn(t, FromSide(TrianglesOf(t), k, j)))]
Src(h) == Points(h[1], h[2][1])[h[2][2]]
Dst(h) == Points(h[1], h[2][1])[(h[2][2] % 3) + 1]
IsTriangle(p) == p[1] # p[2] /\ p[1] # p[3] /\ p[2] # p[3]
IsWhole(h) == IsTriangle(Points(h[1], h[2][1]))

\* What comes after 1, 2 and 3 around a triangle.
LEMMA Around3 ==
  ASSUME NEW j \in 1..3
  PROVE  /\ (j % 3) + 1 \in 1..3
         /\ \/ j = 1 /\ (j % 3) + 1 = 2
            \/ j = 2 /\ (j % 3) + 1 = 3
            \/ j = 3 /\ (j % 3) + 1 = 1
  <1>1. j = 1 \/ j = 2 \/ j = 3
    OBVIOUS
  <1>2. (1 % 3) + 1 = 2 /\ (2 % 3) + 1 = 3 /\ (3 % 3) + 1 = 1
    OBVIOUS
  <1>. QED BY <1>1, <1>2

\* Where a halfedge begins and ends.
LEMMA EndsAre ==
  ASSUME NEW h \in OfSurface
  PROVE  Src(h) = Clustered(VertexIn(h[1], FromOf(h)))
           /\ Dst(h) = Clustered(VertexIn(h[1], ToOf(h)))
  <1>1. PICK t, k, j : t = h[1] /\ k = h[2][1] /\ j = h[2][2] /\ j \in 1..3
    BY OfSurfaceIs
  <1>2. PICK j2 \in 1..3 : j2 = (j % 3) + 1
    BY <1>1, Around3
  <1>3. FromOf(h) = FromSide(TrianglesOf(t), k, j) /\ ToOf(h) = FromSide(TrianglesOf(t), k, j2)
    BY <1>1, <1>2 DEF FromOf, ToOf, FromSide, ToSide
  <1>. QED BY <1>1, <1>2, <1>3 DEF Src, Dst, Points

\* Three values of which none is another, and a set of three.
LEMMA ThreeApart ==
  ASSUME NEW p, p = [j \in 1..3 |-> p[j]]
  PROVE  Cardinality(ToSet(p)) = 3 <=> IsTriangle(p)
  <1>1. PICK x, y, z : x = p[1] /\ y = p[2] /\ z = p[3]
    OBVIOUS
  <1>2. ToSet(p) = {x, y, z}
    <2>1. DOMAIN p = {1, 2, 3}
      OBVIOUS
    <2>. QED BY <1>1, <2>1 DEF ToSet
  <1>3. \A a, b : IsFiniteSet({a, b}) /\ Cardinality({a, b}) <= 2
          /\ (a # b => Cardinality({a, b}) = 2)
                  /\ Cardinality({a, b}) \in Nat
    <2>. TAKE a, b
    <2>1. IsFiniteSet({a}) /\ Cardinality({a}) = 1
      BY FS_Singleton
    <2>2. CASE a = b
      <3>1. {a, b} = {a}
        BY <2>2
      <3>. QED BY <2>1, <2>2, <3>1
    <2>3. CASE a # b
      <3>1. {a, b} = {a} \cup {b} /\ b \notin {a}
        BY <2>3
      <3>2. IsFiniteSet({a} \cup {b}) /\ Cardinality({a} \cup {b}) = Cardinality({a}) + 1
        BY <2>1, <3>1, FS_AddElement
      <3>. QED BY <2>1, <3>1, <3>2
    <2>. QED BY <2>2, <2>3
  <1>4. CASE x = y \/ x = z \/ y = z
    <2>1. PICK a, b : {x, y, z} = {a, b}
      BY <1>4
    <2>2. Cardinality({a, b}) # 3
      <3>1. PICK n \in Nat : n = Cardinality({a, b}) /\ n <= 2
        BY <1>3
      <3>. QED BY <3>1
    <2>. QED BY <1>1, <1>2, <1>4, <2>1, <2>2 DEF IsTriangle
  <1>5. CASE x # y /\ x # z /\ y # z
    <2>1. {x, y, z} = {x, y} \cup {z} /\ z \notin {x, y}
      BY <1>5
    <2>2. Cardinality({x, y} \cup {z}) = Cardinality({x, y}) + 1
      BY <1>3, <2>1, FS_AddElement
    <2>3. Cardinality({x, y}) = 2
      BY <1>3, <1>5
    <2>4. Cardinality(ToSet(p)) = 3
      BY <1>2, <2>1, <2>2, <2>3
    <2>. QED BY <1>1, <1>5, <2>4 DEF IsTriangle
  <1>. QED BY <1>4, <1>5

\* The halfedges of the mesh are those of the surface in what is still a triangle.
LEMMA MeshHalfedges ==
  ASSUME Faces(nodes) = WholeSurface
  PROVE  /\ \A p \in Halfedges(GetMesh) : \E h \in OfSurface : IsWhole(h) /\ p = <<Src(h), Dst(h)>>
         /\ \A h \in OfSurface : IsWhole(h) => <<Src(h), Dst(h)>> \in Halfedges(GetMesh)
  <1>. DEFINE Face(t, k) == [from |-> <<t[1], t[2], k>>, v |-> Points(t, k)]
              Is(t, k) == t \in Tetrahedra /\ k \in DOMAIN TrianglesOf(t)
  <1>1. ASSUME NEW t \in Tetrahedra
        PROVE  t = <<t[1], t[2]>> /\ t[1] \in Box /\ t[2] \in 1..6
    BY DEF Tetrahedra
  <1>2. ASSUME NEW t \in Tetrahedra, NEW f
        PROVE  f \in SurfaceIn(t[1], t[2]) <=>
                 \E k \in DOMAIN TrianglesOf(t) :
                   f = [from |-> <<t[1], t[2], k>>,
                        v |-> [j \in 1..3 |-> VertexIn(t, FromSide(TrianglesOf(t), k, j))]]
    BY DEF SurfaceIn, TrianglesOf, NegativeOf, VertexIn, FromSide
  <1>3. ASSUME NEW f PROVE f \in GetMesh <=>
                      \E t, k : Is(t, k) /\ f = Face(t, k) /\ IsTriangle(Points(t, k))
    <2>1. ASSUME NEW t \in Tetrahedra, NEW k, NEW g,
                 g = [from |-> <<t[1], t[2], k>>,
                      v |-> [j \in 1..3 |-> VertexIn(t, FromSide(TrianglesOf(t), k, j))]]
          PROVE  [g EXCEPT !.v = [j \in 1..3 |-> Clustered(g.v[j])]] = Face(t, k)
      <3>1. PICK w : w = [j \in 1..3 |-> VertexIn(t, FromSide(TrianglesOf(t), k, j))]
        OBVIOUS
      <3>2. g = [from |-> <<t[1], t[2], k>>, v |-> w] /\ g.v = w
        BY <2>1, <3>1
      <3>3. [j \in 1..3 |-> Clustered(w[j])] = Points(t, k)
        BY <3>1 DEF Points
      <3>. QED BY <3>2, <3>3
    <2>2. ASSUME NEW t \in Tetrahedra, NEW k
          PROVE  Face(t, k).v = Points(t, k)
                   /\ (Cardinality(ToSet(Points(t, k))) = 3 <=> IsTriangle(Points(t, k)))
      <3>1. Points(t, k) = [j \in 1..3 |-> Points(t, k)[j]]
        BY DEF Points
      <3>. QED BY <3>1, ThreeApart
    <2>3. \A g : g \in Faces(nodes) <=>
            \E t, k : Is(t, k) /\
              g = [from |-> <<t[1], t[2], k>>,
                   v |-> [j \in 1..3 |-> VertexIn(t, FromSide(TrianglesOf(t), k, j))]]
      BY <1>2 DEF WholeSurface
    <2>4. f \in GetMesh <=>
            /\ \E g \in Faces(nodes) : f = [g EXCEPT !.v = [j \in 1..3 |-> Clustered(g.v[j])]]
                            /\ Cardinality(ToSet(f.v)) = 3
      BY DEF GetMesh
    <2>. HIDE DEF Face
    <2>5. ASSUME f \in GetMesh
          PROVE  \E t, k : Is(t, k) /\ f = Face(t, k) /\ IsTriangle(Points(t, k))
      <3>1. PICK g \in Faces(nodes) : f = [g EXCEPT !.v = [j \in 1..3 |-> Clustered(g.v[j])]]
        BY <2>4, <2>5
      <3>2. PICK t, k : Is(t, k) /\
              g = [from |-> <<t[1], t[2], k>>,
                   v |-> [j \in 1..3 |-> VertexIn(t, FromSide(TrianglesOf(t), k, j))]]
        BY <2>3
      <3>3. f = Face(t, k)
        BY <2>1, <3>1, <3>2
      <3>. QED BY <2>2, <2>4, <2>5, <3>2, <3>3
    <2>6. ASSUME NEW t, NEW k, Is(t, k), f = Face(t, k), IsTriangle(Points(t, k))
          PROVE  f \in GetMesh
      <3>1. PICK g : g = [from |-> <<t[1], t[2], k>>,
                          v |-> [j \in 1..3 |-> VertexIn(t, FromSide(TrianglesOf(t), k, j))]]
        OBVIOUS
      <3>2. g \in Faces(nodes)
        BY <2>3, <2>6, <3>1
      <3>3. f = [g EXCEPT !.v = [j \in 1..3 |-> Clustered(g.v[j])]]
        BY <2>1, <2>6, <3>1
      <3>4. Cardinality(ToSet(f.v)) = 3
        BY <2>2, <2>6
      <3>. QED BY <2>4, <3>2, <3>3, <3>4
    <2>. QED BY <2>5, <2>6
  <1>4. ASSUME NEW p \in Halfedges(GetMesh)
        PROVE  \E h \in OfSurface : IsWhole(h) /\ p = <<Src(h), Dst(h)>>
    <2>1. PICK f \in GetMesh : p \in {<<f.v[1], f.v[2]>>, <<f.v[2], f.v[3]>>, <<f.v[3], f.v[1]>>}
      BY DEF Halfedges
    <2>2. PICK t, k : Is(t, k) /\ f = Face(t, k) /\ IsTriangle(Points(t, k))
      BY <1>3
    <2>3. f.v = Points(t, k)
      BY <2>2
    <2>4. PICK j \in 1..3 : p = <<Points(t, k)[j], Points(t, k)[(j % 3) + 1]>>
      <3>1. (1 % 3) + 1 = 2 /\ (2 % 3) + 1 = 3 /\ (3 % 3) + 1 = 1 /\ 1 \in 1..3 /\ 2 \in 1..3
              /\ 3 \in 1..3
        OBVIOUS
      <3>. QED BY <2>1, <2>3, <3>1
    <2>5. PICK h : h = <<t, <<k, j>>>>
      OBVIOUS
    <2>6. h[1] = t /\ h[2][1] = k /\ h[2][2] = j
      BY <2>5
    <2>7. k \in 1..2
      <3>1. NegativeOf(t) \in SUBSET (1..4)
        BY DEF NegativeOf
      <3>. QED BY <2>2, <3>1, TrianglesClosed DEF Closed, TrianglesOf
    <2>8. h \in OfSurface
      BY <1>1, <2>2, <2>5, <2>6, <2>7 DEF OfSurface, Halfedge
    <2>. QED BY <2>2, <2>4, <2>6, <2>8 DEF IsWhole, Src, Dst
  <1>5. ASSUME NEW h \in OfSurface, IsWhole(h)
        PROVE  <<Src(h), Dst(h)>> \in Halfedges(GetMesh)
    <2>1. PICK t, k, j : t = h[1] /\ k = h[2][1] /\ j = h[2][2] /\ Is(t, k) /\ j \in 1..3
      BY OfSurfaceIs
    <2>2. PICK f \in GetMesh : f = Face(t, k)
      BY <1>3, <1>5, <2>1 DEF IsWhole
    <2>3. f.v = Points(t, k)
      BY <2>2
    <2>4. Src(h) = f.v[j] /\ Dst(h) = f.v[(j % 3) + 1]
      BY <2>1, <2>3 DEF Src, Dst
    <2>5. <<Src(h), Dst(h)>> \in {<<f.v[1], f.v[2]>>, <<f.v[2], f.v[3]>>, <<f.v[3], f.v[1]>>}
      <3>1. j \in 1..3
        BY <2>1
      <3>. QED BY <2>4, <3>1, Around3
    <2>. QED BY <2>5 DEF Halfedges
  <1>. QED BY <1>4, <1>5

\* In what is no triangle any more a halfedge is taken back by exactly one other.
LEMMA TakenBack ==
  ASSUME NEW g \in OfSurface, Src(g) # Dst(g)
  PROVE  /\ ~IsWhole(g) => \E n \in OfSurface : /\ n[1] = g[1] /\ n[2][1] = g[2][1]
                                               /\ Src(n) = Dst(g) /\ Dst(n) = Src(g)
         /\ \A n \in OfSurface :
              n[1] = g[1] /\ n[2][1] = g[2][1] /\ Src(n) = Src(g) /\ Dst(n) = Dst(g) => n = g
  <1>1. PICK t, k, j : j \in 1..3 /\ t = g[1] /\ k = g[2][1] /\ j = g[2][2] /\ g = <<t, <<k, j>>>>
    BY OfSurfaceIs
  <1>2. PICK p : p = Points(t, k)
    OBVIOUS
  <1>3. Src(g) = p[j] /\ Dst(g) = p[(j % 3) + 1]
    BY <1>1, <1>2 DEF Src, Dst
  <1>4. ASSUME NEW x \in 1..3
        PROVE  \E n \in OfSurface : /\ n[1] = t /\ n[2][1] = k /\ n[2][2] = x
                                    /\ Src(n) = p[x] /\ Dst(n) = p[(x % 3) + 1]
    <2>1. PICK n : n = <<t, <<k, x>>>>
      OBVIOUS
    <2>2. n[1] = t /\ n[2][1] = k /\ n[2][2] = x
      BY <2>1
    <2>3. n \in OfSurface
      BY <1>1, <2>1, <2>2 DEF OfSurface, Halfedge
    <2>. QED BY <1>2, <2>2, <2>3 DEF Src, Dst
  <1>5. ASSUME ~IsWhole(g)
        PROVE  \E x \in 1..3 : p[x] = Dst(g) /\ p[(x % 3) + 1] = Src(g)
    <2>1. p[1] = p[2] \/ p[1] = p[3] \/ p[2] = p[3]
      BY <1>1, <1>2, <1>5 DEF IsWhole, IsTriangle
    <2>2. (1 % 3) + 1 = 2 /\ (2 % 3) + 1 = 3 /\ (3 % 3) + 1 = 1 /\ 1 \in 1..3 /\ 2 \in 1..3
            /\ 3 \in 1..3
      OBVIOUS
    <2>3. j = 1 \/ j = 2 \/ j = 3
      BY <1>1
    <2>. QED BY <1>3, <2>1, <2>2, <2>3
  <1>6. ASSUME NEW n \in OfSurface, n[1] = g[1], n[2][1] = g[2][1], Src(n) = Src(g), Dst(n) = Dst(g)
        PROVE  n = g
    <2>1. PICK x \in 1..3 : n[2][2] = x /\ n = <<t, <<k, x>>>>
      BY <1>1, <1>6, OfSurfaceIs
    <2>2. p[x] = Src(g) /\ p[(x % 3) + 1] = Dst(g)
      BY <1>1, <1>2, <1>6, <2>1 DEF Src, Dst
    <2>3. (1 % 3) + 1 = 2 /\ (2 % 3) + 1 = 3 /\ (3 % 3) + 1 = 1
      OBVIOUS
    <2>4. x = j
      <3>1. (j = 1 \/ j = 2 \/ j = 3) /\ (x = 1 \/ x = 2 \/ x = 3)
        BY <1>1
      <3>. QED BY <1>3, <2>2, <2>3, <3>1
    <2>. QED BY <1>1, <2>1, <2>4
  <1>7. ASSUME ~IsWhole(g)
        PROVE  \E n \in OfSurface : /\ n[1] = g[1] /\ n[2][1] = g[2][1]
                                    /\ Src(n) = Dst(g) /\ Dst(n) = Src(g)
    <2>1. PICK x \in 1..3 : p[x] = Dst(g) /\ p[(x % 3) + 1] = Src(g)
      BY <1>5, <1>7
    <2>2. PICK n \in OfSurface : /\ n[1] = t /\ n[2][1] = k
                                 /\ Src(n) = p[x] /\ Dst(n) = p[(x % 3) + 1]
      BY <1>4
    <2>. QED BY <1>1, <2>1, <2>2
  <1>. QED BY <1>6, <1>7

\* There are finitely many halfedges.
LEMMA SurfaceFinite == IsFiniteSet(OfSurface)
  <1>1. IsFiniteSet(1..6) /\ IsFiniteSet(1..2) /\ IsFiniteSet(1..3)
    <2>1. 1 \in Int /\ 2 \in Int /\ 3 \in Int /\ 6 \in Int
      OBVIOUS
    <2>. QED BY <2>1, FS_Interval
  <1>2. IsFiniteSet(Box)
    BY BoxAssumption
  <1>3. IsFiniteSet(Box \X (1..6)) /\ IsFiniteSet((1..2) \X (1..3))
    BY <1>1, <1>2, FS_Product
  <1>4. IsFiniteSet(Halfedge)
    BY <1>3, FS_Product DEF Halfedge
  <1>5. OfSurface \in SUBSET Halfedge
    BY DEF OfSurface
  <1>. QED BY <1>4, <1>5, FS_Subset

\* A finite set cannot be sent into itself, one to one, without an element of it.
LEMMA NoneLeftOut ==
  ASSUME NEW S, IsFiniteSet(S), NEW s \in S, NEW R,
         \A x \in S : \E y \in S \ {s} : <<x, y>> \in R,
         \A x1, x2 \in S : \A y : <<x1, y>> \in R /\ <<x2, y>> \in R => x1 = x2
  PROVE  FALSE
  <1>. DEFINE f == [x \in S |-> CHOOSE y \in S \ {s} : <<x, y>> \in R]
  <1>1. \A x \in S : f[x] \in S \ {s} /\ <<x, f[x]>> \in R
    OBVIOUS
  <1>2. f \in Injection(S, S \ {s})
    <2>1. f \in [S -> S \ {s}]
      BY <1>1
    <2>2. \A x1, x2 \in S : f[x1] = f[x2] => x1 = x2
      BY <1>1
    <2>. HIDE DEF f
    <2>. QED BY <2>1, <2>2 DEF Injection, IsInjective
  <1>3. IsFiniteSet(S \ {s}) /\ Cardinality(S \ {s}) = Cardinality(S) - 1
    BY FS_RemoveElement
  <1>4. Cardinality(S) <= Cardinality(S \ {s})
    BY <1>2, <1>3, FS_Injection
  <1>5. Cardinality(S) \in Nat
    BY FS_CardinalityType
  <1>. QED BY <1>3, <1>4, <1>5

\* A halfedge of the mesh has its opposite in the mesh if all halfedges between these
\* points have theirs on the surface: the others in what is no triangle any more come in
\* pairs.
LEMMA BothWays ==
  ASSUME field \in Fields, NEW h0 \in OfSurface, IsWhole(h0),
         \A h \in OfSurface : Src(h) = Src(h0) /\ Dst(h) = Dst(h0)
           => \E g \in OfSurface : IsOpposite(h, g)
  PROVE  \E g \in OfSurface : IsWhole(g) /\ Src(g) = Dst(h0) /\ Dst(g) = Src(h0)
  <1>. SUFFICES ASSUME \A g \in OfSurface : Src(g) = Dst(h0) /\ Dst(g) = Src(h0) => ~IsWhole(g)
                PROVE  FALSE
    OBVIOUS
  <1>1. PICK A, B : A = Src(h0) /\ B = Dst(h0)
    OBVIOUS
  <1>2. A # B
    <2>1. PICK p, j : j \in 1..3 /\ A = p[j] /\ B = p[(j % 3) + 1] /\ IsTriangle(p)
      <3>1. h0[2][2] \in 1..3
        BY OfSurfaceIs
      <3>. QED BY <1>1, <3>1 DEF Src, Dst, IsWhole
    <2>2. \/ j = 1 /\ (j % 3) + 1 = 2
          \/ j = 2 /\ (j % 3) + 1 = 3
          \/ j = 3 /\ (j % 3) + 1 = 1
      BY <2>1, Around3
    <2>. QED BY <2>1, <2>2 DEF IsTriangle
  <1>. DEFINE S == {h \in OfSurface : Src(h) = A /\ Dst(h) = B}
              Taken(h, g, n) == /\ IsOpposite(h, g) /\ Src(g) = B /\ Dst(g) = A
                                /\ n[1] = g[1] /\ n[2][1] = g[2][1]
              R == {p \in OfSurface \X OfSurface : \E g \in OfSurface : Taken(p[1], g, p[2])}
  <1>3. IsFiniteSet(S) /\ h0 \in S
    <2>1. S \in SUBSET OfSurface
      OBVIOUS
    <2>. QED BY <1>1, <2>1, SurfaceFinite, FS_Subset
  <1>4. ASSUME NEW h \in S PROVE \E n \in S \ {h0} : <<h, n>> \in R
    <2>1. PICK g \in OfSurface : IsOpposite(h, g)
      BY <1>1
    <2>2. Src(g) = B /\ Dst(g) = A
      <3>1. /\ VertexIn(g[1], FromOf(g)) = VertexIn(h[1], ToOf(h))
            /\ VertexIn(g[1], ToOf(g)) = VertexIn(h[1], FromOf(h))
        BY <2>1, OppositeJoins
      <3>. QED BY <3>1, EndsAre
    <2>3. ~IsWhole(g)
      BY <1>1, <2>2
    <2>4. PICK n \in OfSurface : n[1] = g[1] /\ n[2][1] = g[2][1] /\ Src(n) = A /\ Dst(n) = B
      BY <1>2, <2>2, <2>3, TakenBack
    <2>5. ~IsWhole(n)
      BY <2>3, <2>4 DEF IsWhole
    <2>. QED BY <2>1, <2>2, <2>4, <2>5
  <1>5. ASSUME NEW h1 \in S, NEW h2 \in S, NEW n, <<h1, n>> \in R, <<h2, n>> \in R
        PROVE  h1 = h2
    <2>1. PICK g1 \in OfSurface : Taken(h1, g1, n)
      BY <1>5
    <2>2. PICK g2 \in OfSurface : Taken(h2, g2, n)
      BY <1>5
    <2>3. g1 = g2
      <3>1. g1[1] = g2[1] /\ g1[2][1] = g2[2][1] /\ Src(g1) = Src(g2) /\ Dst(g1) = Dst(g2)
              /\ Src(g2) # Dst(g2)
        BY <1>2, <2>1, <2>2
      <3>. QED BY <3>1, TakenBack
    <2>. QED BY <2>1, <2>2, <2>3, OppositeOnce
  <1>. HIDE DEF S, R
  <1>. QED BY <1>3, <1>4, <1>5, NoneLeftOut

\* Each cluster has the name of one of the edges that its vertices are on.
ClustersNamed ==
  \A v \in DOMAIN clusterMap :
    /\ "surface" \in DOMAIN clusterMap[v]
    /\ \E e \in clusterMap[v].surface :
         e \in EdgeIndex /\ [node |-> clusterMap[v].lc, ei |-> e] \in {v, OtherEnd(v)}

\* A vertex of which a point in the bbox is made is in the bbox.
LEMMA InsideOf ==
  ASSUME ClustersNamed, NEW v \in Names, IsInside(Clustered(v))
  PROVE  v \in Inside
  <1>1. PICK n \in Coordinates, ei \in EdgeIndex : v = [node |-> n, ei |-> ei]
    BY DEF Names
  <1>2. OtherEnd(OtherEnd(v)) = v
    <2>1. PICK o : o = [node |-> Neighbor(n, ei), ei |-> Opposite(ei)]
      OBVIOUS
    <2>2. OtherEnd(v) = o
      BY <1>1, <2>1 DEF OtherEnd
    <2>3. OtherEnd(o) = v
      BY <1>1, <2>1, NeighborFacts DEF OtherEnd
    <2>. QED BY <2>2, <2>3
  <1>3. CASE v \notin DOMAIN clusterMap
    <2>1. Clustered(v) = v
      BY <1>3 DEF Clustered
    <2>2. "surface" \notin DOMAIN v
      BY <1>1
    <2>. QED BY <2>1, <2>2 DEF IsInside
  <1>4. CASE v \in DOMAIN clusterMap
    <2>1. PICK c : c = clusterMap[v] /\ c = Clustered(v)
      BY <1>4 DEF Clustered
    <2>2. PICK e \in c.surface : [node |-> c.lc, ei |-> e] \in {v, OtherEnd(v)}
                 /\ "surface" \in DOMAIN c
      BY <1>4, <2>1 DEF ClustersNamed
    <2>3. [node |-> c.lc, ei |-> e] \in Inside
      BY <2>1, <2>2 DEF IsInside
    <2>4. \A w \in Inside : OtherEnd(w) \in Inside
      BY InsideAssumption
    <2>. QED BY <1>2, <2>2, <2>3, <2>4
  <1>. QED BY <1>3, <1>4

\* The vertices of halfedges have the names of edges.
LEMMA NamesOfEnds ==
  ASSUME NEW h \in OfSurface
  PROVE  VertexIn(h[1], FromOf(h)) \in Names /\ VertexIn(h[1], ToOf(h)) \in Names
  <1>1. PICK t, lc, i, k, j :
          /\ lc \in Coordinates /\ i \in 1..6 /\ j \in 1..3 /\ t = h[1] /\ lc = t[1] /\ i = t[2]
               /\ k = h[2][1] /\ j = h[2][2]
          /\ k \in DOMAIN TrianglesOf(t)
    BY OfSurfaceIs
  <1>2. ASSUME NEW x \in 1..3 PROVE TrianglesOf(t)[k][x] + 1 \in 1..6
    <2>1. NegativeOf(t) \in SUBSET (1..4)
      BY DEF NegativeOf
    <2>2. Crossing3(NegativeOf(t), TrianglesOf(t))
      BY <2>1, TrianglesCross DEF TrianglesOf
    <2>. QED BY <1>1, <2>2 DEF Crossing3
  <1>3. ASSUME NEW m \in 1..6 PROVE VertexIn(t, m) \in Names
    <2>1. PICK e : e = TetEdges(lc, i)[m]
      OBVIOUS
    <2>2. /\ e = [node |-> e.node, ei |-> e.ei] /\ e.ei \in EdgeIndex
          /\ e.node = Corners(lc, i)[From[m]]
      BY <1>1, <2>1, EdgeEnds
    <2>3. From[m] \in 1..4
      BY DEF From
    <2>4. PICK n \in Coordinates, ei \in EdgeIndex : e = [node |-> n, ei |-> ei]
      BY <1>1, <2>2, <2>3, CornerAt
    <2>5. e \in Names
      BY <2>4 DEF Names
    <2>6. OtherEnd(e) \in Names
      BY <2>4, NeighborFacts DEF Names, OtherEnd
    <2>. QED BY <1>1, <2>1, <2>5, <2>6 DEF VertexIn, VertexOf
  <1>4. (j % 3) + 1 \in 1..3
    BY <1>1, Around3
  <1>. QED BY <1>1, <1>2, <1>3, <1>4 DEF FromOf, ToOf, FromSide, ToSide

\* The mesh of the whole surface ends nowhere inside the bbox.
LEMMA MeshEnds ==
  ASSUME field \in Fields, Faces(nodes) = WholeSurface, ClustersNamed
  PROVE  EndsAtBbox(GetMesh)
  <1>. SUFFICES ASSUME NEW v \in BorderVertices(GetMesh), IsInside(v) PROVE FALSE
    BY DEF EndsAtBbox
  <1>1. PICK p \in Halfedges(GetMesh) : v \in {p[1], p[2]}
               /\ <<p[2], p[1]>> \notin Halfedges(GetMesh)
    BY DEF BorderVertices
  <1>2. PICK h0 \in OfSurface : IsWhole(h0) /\ p = <<Src(h0), Dst(h0)>>
    BY MeshHalfedges
  <1>3. ASSUME NEW h \in OfSurface, Src(h) = Src(h0), Dst(h) = Dst(h0)
        PROVE  \E g \in OfSurface : IsOpposite(h, g)
    <2>1. IsInside(Src(h)) \/ IsInside(Dst(h))
      BY <1>1, <1>2, <1>3
    <2>2. /\ Src(h) = Clustered(VertexIn(h[1], FromOf(h)))
          /\ Dst(h) = Clustered(VertexIn(h[1], ToOf(h)))
      BY EndsAre
    <2>3. VertexIn(h[1], FromOf(h)) \in Inside \/ VertexIn(h[1], ToOf(h)) \in Inside
      BY <2>1, <2>2, NamesOfEnds, InsideOf
    <2>. QED BY <2>3, OppositeExists
  <1>4. PICK g \in OfSurface : IsWhole(g) /\ Src(g) = Dst(h0) /\ Dst(g) = Src(h0)
    BY <1>2, <1>3, BothWays
  <1>5. <<Src(g), Dst(g)>> \in Halfedges(GetMesh)
    BY <1>4, MeshHalfedges
  <1>. QED BY <1>1, <1>2, <1>4, <1>5

\* A component of some of the edges of a node is made of these.
LEMMA ComponentWithin ==
  ASSUME NEW S, IsFiniteSet(S), NEW a \in S, NEW near
  PROVE  Component(a, S, near) \subseteq S
  <1>. DEFINE Grow(X) == X \cup (S \cap UNION {near[e] : e \in X})
              Rec(f, j) == f = [k \in 0..j |-> IF k = 0 THEN {a} ELSE Grow(f[k - 1])]
  <1>1. ASSUME NEW j \in Nat PROVE \E f : Rec(f, j)
    <2>. DEFINE Bad == {k \in Nat : ~\E f : Rec(f, k)}
    <2>1. SUFFICES ASSUME Bad # {} PROVE FALSE
      OBVIOUS
    <2>2. PICK k \in Bad : \A i \in Bad : k <= i
      BY <2>1, LeastNumber
    <2>. HIDE DEF Grow
    <2>3. CASE k = 0
      <3>1. Rec([i \in 0..0 |-> {a}], 0)
        OBVIOUS
      <3>. QED BY <2>2, <2>3, <3>1
    <2>4. CASE k # 0
      <3>1. k - 1 \in Nat /\ k - 1 \notin Bad
        <4>1. k \in Nat /\ \A i \in Bad : i \in Nat
          BY <2>2
        <4>. HIDE DEF Bad
        <4>. QED BY <2>2, <2>4, <4>1
      <3>2. PICK f : Rec(f, k - 1)
        BY <3>1
      <3>. DEFINE g == [i \in 0..k |-> IF i < k THEN f[i] ELSE Grow(f[k - 1])]
      <3>3. ASSUME NEW i \in 0..k PROVE g[i] = IF i = 0 THEN {a} ELSE Grow(g[i - 1])
        <4>1. CASE i = 0
          BY <3>2, <4>1, <2>4, <2>2
        <4>2. CASE i # 0 /\ i < k
          <5>1. i \in 0..(k - 1) /\ i - 1 \in 0..k /\ i - 1 < k
            BY <4>2, <3>1
          <5>. QED BY <3>2, <4>2, <5>1
        <4>3. CASE i = k
          <5>1. i - 1 \in 0..k /\ i - 1 < k /\ i # 0
            BY <4>3, <3>1, <2>4
          <5>. QED BY <4>3, <5>1
        <4>. QED BY <4>1, <4>2, <4>3
      <3>4. Rec(g, k)
        BY <3>3
      <3>. QED BY <2>2, <3>4
    <2>. QED BY <2>3, <2>4
  <1>2. PICK n \in Nat : n = Cardinality(S)
    BY FS_CardinalityType
  <1>3. PICK grown : grown = (CHOOSE f : Rec(f, n))
    OBVIOUS
  <1>4. Rec(grown, n)
    BY <1>1, <1>3
  <1>5. Component(a, S, near) = grown[n]
    BY <1>2, <1>3 DEF Component
  <1>6. grown[0] = {a} /\ \A k \in 1..n : grown[k] = Grow(grown[k - 1])
    <2>. HIDE DEF Grow
    <2>1. \A k \in 0..n : grown[k] = IF k = 0 THEN {a} ELSE Grow(grown[k - 1])
      BY <1>4
    <2>2. \A k \in 1..n : k \in 0..n /\ k # 0
      OBVIOUS
    <2>. QED BY <2>1, <2>2
  <1>7. \A X : X \subseteq S => Grow(X) \subseteq S
    OBVIOUS
  <1>. HIDE DEF Grow
  <1>8. ASSUME NEW j \in 0..n PROVE grown[j] \subseteq S
    <2>. DEFINE Bad == {k \in 0..n : ~(grown[k] \subseteq S)}
    <2>1. SUFFICES ASSUME Bad # {} PROVE FALSE
      OBVIOUS
    <2>2. PICK k \in Bad : \A i \in Bad : k <= i
      <3>1. Bad \in SUBSET Nat
        OBVIOUS
      <3>. HIDE DEF Bad
      <3>. QED BY <2>1, <3>1, LeastNumber
    <2>3. k \in 0..n /\ k # 0
      BY <1>6
    <2>4. k \in 1..n /\ k - 1 \in 0..n /\ k - 1 \notin Bad
      <3>. HIDE DEF Bad
      <3>. QED BY <2>2, <2>3
    <2>. QED BY <1>6, <1>7, <2>4
  <1>. QED BY <1>2, <1>5, <1>8

\* What is clustered around a node is on edges of the node, and named for one of them.
LEMMA NamedAtFirst ==
  ASSUME LatticeInv, ClusterVertices
  PROVE  ClustersNamed'
  <1>1. PICK ns, vs : ns = nodes /\ vs = vertices
    OBVIOUS
  <1>2. field \in Fields /\ Placed(ns, vs) /\ DOMAIN ns \subseteq Box
          /\ \A lc \in DOMAIN ns : PlacedAt(ns, lc)
    BY <1>1 DEF LatticeInv, AllPlaced, ClusterVertices, Placed
  <1>3. PICK clustered :
          /\ clustered = UNION {ClusteredVertices(ns[lc]) : lc \in DOMAIN ns \cap Clusterable}
          /\ clusterMap'
               = [v \in clustered |-> [lc |-> Holder(v), surface |-> ClusterOf(ns[Holder(v)], v)]]
    BY <1>1 DEF ClusterVertices
  <1>4. ASSUME NEW v \in clustered
        PROVE  /\ "surface" \in DOMAIN (clusterMap'[v])
               /\ \E e \in clusterMap'[v].surface :
                    e \in EdgeIndex /\ [node |-> clusterMap'[v].lc, ei |-> e] \in {v, OtherEnd(v)}
    <2>1. PICK lc \in DOMAIN ns : v \in ClusteredVertices(ns[lc])
      BY <1>3
    <2>2. PICK n : n = ns[lc]
      OBVIOUS
    <2>3. PICK s0, e0 : s0 \in Surfaces(n) /\ e0 \in s0 /\ v = VertexAt(n, e0)
      BY <2>1, <2>2 DEF ClusteredVertices
    <2>4. /\ PlacedAt(ns, lc) /\ lc \in Coordinates /\ lc \in Box
          /\ n.near \subseteq EdgeIndex /\ n.near \subseteq n.all
      BY <1>2, <2>2, BoxAssumption DEF PlacedAt, GoodNode, Coordinates
    <2>5. ASSUME NEW s \in Surfaces(n) PROVE s \subseteq n.near
      <3>1. PICK e \in n.near : s = Component(e, n.near, NeighborMasks)
        BY DEF Surfaces, ConnectedComponents
      <3>2. IsFiniteSet(n.near)
        BY <2>4, EdgesFinite
      <3>. QED BY <3>1, <3>2, ComponentWithin
    <2>6. ASSUME NEW e \in n.near, v = VertexAt(n, e)
          PROVE  /\ [node |-> lc, ei |-> e] \in {v, OtherEnd(v)} /\ Holder(v) = lc
      <3>1. v = VertexOf([node |-> lc, ei |-> e]) /\ e \in EdgeIndex
        BY <2>2, <2>4, <2>6 DEF PlacedAt
      <3>2. PICK m, oe, x, o : /\ m = Neighbor(lc, e) /\ oe = Opposite(e)
                               /\ x = [node |-> lc, ei |-> e] /\ o = [node |-> m, ei |-> oe]
        OBVIOUS
      <3>3. x.node = lc /\ x.ei = e /\ o.node = m /\ o.ei = oe /\ OtherEnd(x) = o
        BY <3>2 DEF OtherEnd
      <3>4. Neighbor(m, oe) = lc /\ Opposite(oe) = e
        BY <2>4, <3>1, <3>2, NeighborFacts
      <3>5. OtherEnd(o) = x
        BY <3>2, <3>3, <3>4 DEF OtherEnd
      <3>6. v = x \/ v = o
        BY <3>1, <3>2, <3>3 DEF VertexOf
      <3>7. e \in ns[lc].near /\ oe \notin ns[m].near
        BY <2>2, <2>4, <2>6, <3>2 DEF PlacedAt
      <3>8. Holder(v) = lc
        BY <1>1, <3>3, <3>5, <3>6, <3>7 DEF Holder, HasVertex
      <3>. QED BY <3>2, <3>3, <3>5, <3>6, <3>8
    <2>7. Holder(v) = lc
      BY <2>3, <2>5, <2>6
    <2>8. PICK s : /\ s = ClusterOf(n, v) /\ s \in Surfaces(n) /\ \E e \in s : VertexAt(n, e) = v
      <3>1. \E s \in Surfaces(n) : \E e \in s : VertexAt(n, e) = v
        BY <2>3
      <3>. QED BY <3>1 DEF ClusterOf
    <2>9. PICK e \in s : VertexAt(n, e) = v
      BY <2>8
    <2>10. e \in EdgeIndex /\ [node |-> lc, ei |-> e] \in {v, OtherEnd(v)}
      BY <2>4, <2>5, <2>6, <2>8, <2>9
    <2>11. clusterMap'[v] = [lc |-> lc, surface |-> s]
      BY <1>3, <2>2, <2>7, <2>8
    <2>. QED BY <2>9, <2>10, <2>11
  <1>5. DOMAIN clusterMap' = clustered
    BY <1>3
  <1>. QED BY <1>4, <1>5 DEF ClustersNamed, OtherEnd

\* The faces and the surface depend on the field and the nodes alone.
LEMMA SurfaceKept ==
  ASSUME field' = field, nodes' = nodes
  PROVE  WholeSurface' = WholeSurface /\ Faces(nodes)' = Faces(nodes)
  <1>1. \A lc : Negative(lc)' <=> Negative(lc)
    BY DEF Negative
  <1>2. \A a, b : IsNear(a, b)' <=> IsNear(a, b)
    BY DEF IsNear
  <1>3. \A e : VertexOf(e)' = VertexOf(e)
    BY <1>2 DEF VertexOf
  <1>4. \A lc, i : SurfaceIn(lc, i)' = SurfaceIn(lc, i)
    BY <1>1, <1>3 DEF SurfaceIn
  <1>5. \A lc, i : FacesIn(nodes, lc, i)' = FacesIn(nodes, lc, i)
    <2>1. ASSUME NEW lc, NEW i PROVE FacesIn(nodes, lc, i)' = FacesIn(nodes, lc, i)
      <3>1. {k \in 1..4 : Negative(Corners(lc, i)[k])}' = {k \in 1..4 : Negative(Corners(lc, i)[k])}
        BY <1>1
      <3>. QED BY <3>1 DEF FacesIn
    <2>. QED BY <2>1
  <1>6. WholeSurface' = WholeSurface
    BY <1>4 DEF WholeSurface
  <1>7. Faces(nodes)' = Faces(nodes)
    <2>1. \A lc, i : Exists(nodes, lc, i)' = Exists(nodes, lc, i)
      BY DEF Exists
    <2>. QED BY <1>5, <2>1 DEF Faces
  <1>. QED BY <1>6, <1>7

\* From the clustering on the nodes hold the whole surface and each cluster has its name;
\* what a call has returned ends at the bbox, and while one is under way there is no mesh.
MeshInv ==
  /\ pc = "mesh" => ClustersNamed /\ (start = {} => Faces(nodes) = WholeSurface)
  /\ pc # "idle" => mesh = {}
  /\ BoundaryCoordinates

\* A mesh without faces has no border.
LEMMA NothingEnds == EndsAtBbox({})
  BY DEF EndsAtBbox, BorderVertices, Halfedges

\* Each step keeps it.
LEMMA MeshInvKept ==
  ASSUME LatticeInv, MeshInv, [Next]_vars
  PROVE  MeshInv'
  <1>1. CASE Generate
    <2>1. pc' # "mesh" /\ pc' # "idle" /\ mesh' = {}
      BY <1>1 DEF Generate
    <2>. QED BY <2>1 DEF MeshInv, BoundaryCoordinates
  <1>2. CASE LatticeStep /\ UNCHANGED <<clusterMap, mesh>>
    <2>1. pc # "idle" /\ pc' # "mesh" /\ pc' # "idle" /\ mesh' = mesh
      BY <1>2 DEF LatticeStep, Evaluate, Evaluating, AddLayer, EndLayer, TrackSeed, EndRound,
                  EndTrack, Propagate, GenerateAll, RefineVertices
    <2>. QED BY <2>1 DEF MeshInv, BoundaryCoordinates
  <1>3. CASE ClusterVertices
    <2>1. pc = "cluster" /\ pc' = "mesh" /\ mesh' = mesh /\ nodes' = nodes /\ start' = start
            /\ field' = field
      BY <1>3 DEF ClusterVertices
    <2>2. start = {} => Faces(nodes) = WholeSurface
      BY <2>1, NodesGiveSurface
    <2>3. WholeSurface' = WholeSurface /\ Faces(nodes)' = Faces(nodes)
      BY <2>1, SurfaceKept
    <2>4. ClustersNamed'
      BY <1>3, NamedAtFirst
    <2>. QED BY <2>1, <2>2, <2>3, <2>4 DEF MeshInv, BoundaryCoordinates
  <1>4. CASE CheckMesh /\ pc' = "mesh"
    <2>1. PICK vis : Unclustered(vis)
      BY <1>4 DEF CheckMesh, Returned, ValueThrows
    <2>2. pc = "mesh" /\ mesh' = mesh /\ nodes' = nodes /\ start' = start /\ field' = field
      BY <1>4, <2>1 DEF CheckMesh, Unclustered
    <2>3. WholeSurface' = WholeSurface /\ Faces(nodes)' = Faces(nodes)
      BY <2>2, SurfaceKept
    <2>4. ClustersNamed'
      <3>1. clusterMap' = Uncluster(vis)
        BY <2>1 DEF Unclustered
      <3>2. /\ DOMAIN clusterMap' \subseteq DOMAIN clusterMap
            /\ \A v \in DOMAIN clusterMap' : clusterMap'[v] = clusterMap[v]
        BY <3>1 DEF Uncluster
      <3>3. ClustersNamed
        BY <2>2 DEF MeshInv
      <3>. QED BY <3>2, <3>3 DEF ClustersNamed, OtherEnd
    <2>. QED BY <1>4, <2>2, <2>3, <2>4 DEF MeshInv, BoundaryCoordinates
  <1>5. CASE CheckMesh /\ pc' = "idle"
    <2>1. pc = "mesh" /\ pc' = "idle" /\ mesh' = GetMesh /\ start' = start
      BY <1>5 DEF CheckMesh, Unclustered, Returned, ValueThrows
    <2>2. start = {} => EndsAtBbox(GetMesh)
      BY <2>1, MeshEnds DEF MeshInv, LatticeInv
    <2>3. BoundaryCoordinates'
      BY <2>1, <2>2 DEF BoundaryCoordinates, EndsAtBbox, BorderVertices, Halfedges, IsInside
    <2>. QED BY <2>1, <2>3 DEF MeshInv
  <1>6. CASE FieldThrows \/ (CheckMesh /\ pc' = "failed")
    <2>1. pc' = "failed" /\ mesh' = mesh /\ pc # "idle"
      BY <1>6 DEF FieldThrows, Evaluating, CheckMesh, Unclustered, Returned, ValueThrows
    <2>. QED BY <2>1 DEF MeshInv, BoundaryCoordinates
  <1>7. CASE Clear
    <2>1. pc = "failed" /\ pc' = "idle" /\ mesh' = mesh
      BY <1>7 DEF Clear
    <2>2. mesh' = {}
      BY <2>1 DEF MeshInv
    <2>3. BoundaryCoordinates'
      BY <2>2, NothingEnds DEF BoundaryCoordinates, EndsAtBbox, BorderVertices, Halfedges
    <2>. QED BY <2>1, <2>3 DEF MeshInv
  <1>8. CASE UNCHANGED vars
    <2>1. /\ pc' = pc /\ mesh' = mesh /\ nodes' = nodes /\ start' = start /\ field' = field
          /\ clusterMap' = clusterMap
      BY <1>8 DEF vars
    <2>2. WholeSurface' = WholeSurface /\ Faces(nodes)' = Faces(nodes)
      BY <2>1, SurfaceKept
    <2>3. ClustersNamed' <=> ClustersNamed
      BY <2>1 DEF ClustersNamed, OtherEnd
    <2>4. BoundaryCoordinates' <=> BoundaryCoordinates
      BY <2>1 DEF BoundaryCoordinates, EndsAtBbox, BorderVertices, Halfedges, IsInside
    <2>. QED BY <2>1, <2>2, <2>3, <2>4 DEF MeshInv
  <1>9. CheckMesh => pc' \in {"mesh", "idle", "failed"}
    BY DEF CheckMesh, Unclustered, Returned, ValueThrows
  <1>. QED BY <1>1, <1>2, <1>3, <1>4, <1>5, <1>6, <1>7, <1>8, <1>9 DEF Next, Working

\* The mesh that is returned after all nodes were looked at ends nowhere inside the bbox,
\* however the vertices were clustered and unclustered: each edge of it there is passed in
\* both directions.
THEOREM EndsAtTheBbox == Spec => []BoundaryCoordinates
  <1>1. Init => MeshInv
    <2>1. Init => pc = "idle" /\ mesh = {}
      BY DEF Init
    <2>. QED BY <2>1, NothingEnds DEF MeshInv, BoundaryCoordinates
  <1>2. LatticeInv /\ MeshInv /\ [Next]_vars => MeshInv'
    BY MeshInvKept
  <1>3. MeshInv => BoundaryCoordinates
    BY DEF MeshInv
  <1>. QED BY <1>1, <1>2, <1>3, LatticeInvariant, PTL DEF Spec
=============================================================================
