----------------------------- MODULE Isosurface -----------------------------
(***************************************************************************)
(* isosurface/isosurface.hpp: a call of generate builds the lattice, lets  *)
(* the vertices around a node become one, and takes that back wherever the *)
(* mesh is not a surface there.  Also Lattice::cluster_vertices, get_mesh  *)
(* and uncluster_vertices, Node::cluster, and MeshDefectsFinder.           *)
(*                                                                         *)
(* Positions are not modelled: any clustered vertex may turn out to be one *)
(* of intersecting faces; of the clipping to the bbox there is only what   *)
(* may be left, nothing; the sign of the value that tells the entire space *)
(* from an empty mesh is left out, but not that it may be missing.         *)
(***************************************************************************)
EXTENDS Lattice

CONSTANTS
  Clusterable,  \* the nodes inside first_extended_bbox
  Intersecting, \* of these the nodes whose clusters may make faces intersect
  Inside        \* the vertices that lie in the bbox, named from both ends

ASSUME ClusterableAssumption == \A lc \in Clusterable : lc \in Box /\ ~IsBoundary(lc)
\* Where the bbox is, the lattice goes on: what is next to both ends of an edge with a
\* vertex there is in second_extended_bbox.
ASSUME InsideAssumption ==
  \A v \in Inside :
    /\ v \in [node : Box, ei : EdgeIndex] /\ IsVertex(v) /\ OtherEnd(v) \in Inside
    /\ \A ei, ej \in EdgeIndex :
         Neighbor(v.node, ei) = Neighbor(OtherEnd(v).node, ej) => Neighbor(v.node, ei) \in Box

VARIABLES
  clusterMap,  \* cluster_map_
  mesh         \* what the last call returned, before it is clipped

vars == <<field, start, nodes, unevaluated, told, vertices, walkVars, pc, clusterMap, mesh>>

\* Tetrahedra with all corners, and the faces in them that get_faces makes.
Exists(ns, lc, i) == \A k \in 2..4 : Corners(lc, i)[k] \in DOMAIN ns
FacesIn(ns, lc, i) ==
  LET corners == Corners(lc, i)
      edges == TetEdges(lc, i)
      triangles == Triangles({k \in 1..4 : Negative(corners[k])})
  IN {[from |-> <<lc, i, k>>, v |-> [j \in 1..3 |-> VertexOnEdge(ns, edges[triangles[k][j] + 1])]] :
        k \in DOMAIN triangles}
Faces(ns) ==
  UNION {IF Exists(ns, lc, i) THEN FacesIn(ns, lc, i) ELSE {} : lc \in DOMAIN ns, i \in 1..6}

\* get_mesh: clustered, without the faces that are no triangles any more.
Clustered(v) == IF v \in DOMAIN clusterMap THEN clusterMap[v] ELSE v
GetMesh ==
  {f \in {[f EXCEPT !.v = [j \in 1..3 |-> Clustered(f.v[j])]] : f \in Faces(nodes)} :
     Cardinality(ToSet(f.v)) = 3}

-----------------------------------------------------------------------------
\* singular_vertices: the link of a vertex is to be a cycle, or a path at a border.
VerticesOf(m) == UNION {ToSet(f.v) : f \in m}
LinkEdge(f, v) == ToSet(f.v) \ {v}
FacesAt(m, v) == {f \in m : v = f.v[1] \/ v = f.v[2] \/ v = f.v[3]}
\* Without a look at how often the link branches.
IsSingularPieces(m, v) ==
  LET link == {LinkEdge(f, v) : f \in FacesAt(m, v)}
      near == [a \in UNION link |-> UNION {e \in link : a \in e} \ {a}]
  IN \/ Cardinality(link) # Cardinality(FacesAt(m, v))
     \/ \E a \in UNION link : Component(a, UNION link, near) # UNION link
IsSingular(m, v) ==
  LET link == {LinkEdge(f, v) : f \in FacesAt(m, v)}
      ends == UNION link
      near == [a \in ends |-> UNION {e \in link : a \in e} \ {a}]
  IN \/ Cardinality(link) # Cardinality(FacesAt(m, v))
     \/ \E a \in ends : Cardinality(near[a]) > 2
     \/ \E a \in ends : Component(a, ends, near) # ends
SingularVertices(m) == {v \in VerticesOf(m) : IsSingular(m, v)}

\* Node::cluster: a part of the surface around the node with one hole becomes a point.
Surfaces(n) ==
  {s \in ConnectedComponents(n.near) : Cardinality(ConnectedComponents(EdgeIndex \ s)) = 1}
ClusterOf(n, v) == CHOOSE s \in Surfaces(n) : \E e \in s : VertexAt(n, e) = v
ClusteredVertices(n) == {VertexAt(n, e) : e \in UNION Surfaces(n)}
Holder(v) == IF HasVertex(nodes[v.node], v.ei) THEN v.node ELSE OtherEnd(v).node
ClusterVertices ==
  /\ pc = "cluster" /\ pc' = "mesh"
  /\ LET clustered == UNION {ClusteredVertices(nodes[lc]) : lc \in DOMAIN nodes \cap Clusterable}
     IN clusterMap' = [v \in clustered |->
                         [lc |-> Holder(v), surface |-> ClusterOf(nodes[Holder(v)], v)]]
  /\ UNCHANGED <<field, start, nodes, unevaluated, told, vertices, walkVars, mesh>>

\* What is counted as unclustered, and stays in the map.
UnclusterNothing(vis) == clusterMap

\* uncluster_vertices
Uncluster(vis) == [v \in {w \in DOMAIN clusterMap : clusterMap[w] \notin vis} |-> clusterMap[v]]

\* An iteration of generate_common, for a mesh with vertices of intersecting faces:
\* the last one clips, asks for the sign at the arbitrary point and clears.
Unclustered(vis) ==
  /\ vis \cap Range(clusterMap) # {}
  /\ clusterMap' = Uncluster(vis)
  /\ UNCHANGED <<field, start, nodes, unevaluated, told, vertices, walkVars, pc, mesh>>
\* A cluster is at the mean of its vertices.
IsInside(v) ==
  IF "surface" \in DOMAIN v THEN \A e \in v.surface : [node |-> v.lc, ei |-> e] \in Inside ELSE v \in Inside
\* clip leaves something of a mesh with a vertex in the bbox; of others it may leave nothing.
ClippedAway(m) == \A v \in VerticesOf(m) : ~IsInside(v)
Returned(m) ==
  /\ pc' = "idle" /\ mesh' = m /\ clusterMap' = <<>>
  /\ LatticeCleared
  /\ UNCHANGED <<field, start>>
\* InterpolatedValue::value: not all values are populated.
ValueThrows ==
  /\ told # Arb /\ pc' = "failed"
  /\ UNCHANGED <<field, start, nodes, unevaluated, told, vertices, walkVars, clusterMap, mesh>>
CheckMesh ==
  /\ pc = "mesh"
  /\ LET m == GetMesh
         singular == SingularVertices(m)
         cuts == {c \in Range(clusterMap) : c.lc \in Intersecting}
     IN \/ \E cut \in {{}} \cup {{c} : c \in cuts} : Unclustered(singular \cup cut)
        \/ singular \cap Range(clusterMap) = {} /\ (m # {} \/ told = Arb) /\ Returned(m)
        \/ singular \cap Range(clusterMap) = {} /\ ClippedAway(m) /\ ValueThrows

-----------------------------------------------------------------------------
Init == LatticeInit /\ clusterMap = <<>> /\ mesh = {} /\ pc = "idle"

\* generate and generate_from_seed_points, whose nodes are the seeds' and all around.
Generate ==
  /\ pc = "idle"
  /\ start' \in Starts
  /\ mesh' = {}
  /\ IF start' = {}
     THEN /\ pc' = "layer" /\ layer' = Min({lc[3] : lc \in Box})
          /\ UNCHANGED <<nodes, unevaluated, seeds>>
     ELSE /\ pc' = "evaluate seeds"
          /\ AddNodes(FirstNodes(start'))
          /\ seeds' = {Seed(lc, 1) : lc \in start'}
          /\ UNCHANGED layer
  /\ UNCHANGED <<field, told, vertices, newSeeds, pairs, visited, clusterMap>>

\* field_fn throws; as after ValueThrows the caller has to clear before the next call.
FieldThrows ==
  /\ pc \in Evaluating \cup {"refine"} /\ pc' = "failed"
  /\ UNCHANGED <<field, start, nodes, unevaluated, told, vertices, walkVars, clusterMap, mesh>>
Clear ==
  /\ pc = "failed" /\ pc' = "idle"
  /\ LatticeCleared /\ clusterMap' = <<>>
  /\ UNCHANGED <<field, start, mesh>>

Working ==
  \/ LatticeStep /\ UNCHANGED <<clusterMap, mesh>>
  \/ ClusterVertices \/ CheckMesh
Next == Generate \/ Working \/ FieldThrows \/ Clear
Spec == Init /\ [][Next]_vars
\* WF_vars(Working): a call that has not ended can go on, and is not interrupted.
CallsGoOn == []<>(pc \in {"idle", "failed"}) \/ []<><<Working>>_vars

-----------------------------------------------------------------------------
TypeOK ==
  /\ field \in Fields /\ start \in Starts \cup {{}}
  /\ DOMAIN nodes \subseteq Box
  /\ \A lc \in DOMAIN nodes :
       nodes[lc].near \subseteq EdgeIndex /\ nodes[lc].all \subseteq EdgeIndex
  /\ unevaluated \subseteq DOMAIN nodes /\ told \subseteq Arb
  /\ \A v \in vertices : IsVertex(v)
  /\ layer \in Int
  /\ \A s \in seeds \cup newSeeds : s.lc \in DOMAIN nodes /\ s.k \in 1..10
  /\ \A p \in pairs \cup visited : p \subseteq DOMAIN nodes /\ Cardinality(p) = 2
  /\ DOMAIN clusterMap \subseteq vertices
  /\ pc \in {"idle", "layer", "end layer", "track", "propagate", "refine", "cluster",
             "mesh", "failed"} \cup Evaluating

\* The isosurface of the whole lattice, from the field alone.
VertexOf(e) == IF IsNear(e.node, OtherEnd(e).node) THEN e ELSE OtherEnd(e)
SurfaceIn(lc, i) ==
  LET triangles == Triangles({c \in 1..4 : Negative(Corners(lc, i)[c])})
  IN {[from |-> <<lc, i, k>>, v |-> [j \in 1..3 |-> VertexOf(TetEdges(lc, i)[triangles[k][j] + 1])]] :
        k \in DOMAIN triangles}
Tetrahedra == {t \in Box \X (1..6) : ToSet(Corners(t[1], t[2])) \subseteq Box}
WholeSurface == UNION {SurfaceIn(t[1], t[2]) : t \in Tetrahedra}

\* Dropping nodes without an intersection layer by layer loses no face, and what is
\* tracked from seeds is part of the surface: before any clustering the mesh of the
\* nodes that are left is the isosurface of the lattice.
MeshIsSurface ==
  pc = "cluster" => IF start = {} THEN Faces(nodes) = WholeSurface ELSE Faces(nodes) \subseteq WholeSurface

\* "Unclustering non-manifold vertices may require a few iterations" and leaves none:
\* in what is returned, no edge has more than two faces, and from a face at a vertex
\* all the others at it are reached over edges at it.
Manifold ==
  pc = "idle" =>
    \A v \in VerticesOf(mesh) :
      LET fan == FacesAt(mesh, v)
          next == [f \in fan |-> {g \in fan : Cardinality(ToSet(f.v) \cap ToSet(g.v)) >= 2}]
      IN \A f \in fan :
           /\ Component(f, fan, next) = fan
           /\ \A w \in LinkEdge(f, v) : Cardinality({g \in fan : w \in ToSet(g.v)}) <= 2

\* test_isosurface.cpp, boundary_coordinates: the mesh ends nowhere inside the bbox,
\* and each edge in it is passed once in each direction.
Halfedges(m) == UNION {{<<f.v[1], f.v[2]>>, <<f.v[2], f.v[3]>>, <<f.v[3], f.v[1]>>} : f \in m}
BorderVertices(m) ==
  LET hes == Halfedges(m) IN UNION {{h[1], h[2]} : h \in {g \in hes : <<g[2], g[1]>> \notin hes}}
EndsAtBbox(m) == \A v \in BorderVertices(m) : ~IsInside(v)
BoundaryCoordinates == pc = "idle" /\ start = {} => EndsAtBbox(mesh)

\* boundary_coordinates_seed_points says the same of what is tracked from seeds.
SeededBoundaryCoordinates == pc = "idle" /\ start # {} => EndsAtBbox(mesh)

\* The value at the arbitrary point, which tells an empty mesh from the entire space, is made
\* of values told one by one over a call: when it is read it has those of all corners
\* that are nodes, or with seeds the nodes of seeds or next to one.  So a call without
\* seeds never throws for it, and one with seeds only if its first seed is rounded to a
\* node that is no corner of its tetrahedron.
ArbitraryValueKnown == pc = "mesh" => Arb \cap FirstNodes(start) \subseteq told

\* Nothing that get_mesh needs is missing from the lattice: neither vertices on edges
\* across the surface, nor nodes of the surface that the seeds are on, nor the values around
\* the arbitrary point that the nodes begun with have.
LatticeComplete == EdgesHaveTheirVertex /\ TrackedComplete /\ ArbitraryValueKnown

\* Every call ends, with whatever intersecting faces.
CallsEnd == pc # "idle" ~> pc \in {"idle", "failed"}
==============================================================================
