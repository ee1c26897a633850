------------------------------- MODULE Lattice -------------------------------
(***************************************************************************)
(* isosurface/rmt/lattice.hpp and node.hpp: from a field to the vertices   *)
(* where the isosurface crosses the edges of the lattice.  The lattice is  *)
(* built layer by layer from all nodes, or from seed points along the      *)
(* surface; nodes without an intersection are dropped on the way.          *)
(*                                                                         *)
(* A vertex stands for its own number: the threads of generate_vertices    *)
(* number the vertices in the order in which they enter the critical       *)
(* section, and only the places in the nodes depend on that order.         *)
(***************************************************************************)
EXTENDS Rmt, SequencesExt, FiniteSetsExt

CONSTANTS
  Box,     \* the lattice coordinates within second_extended_bbox
  Fields,  \* the functions to evaluate, field_fn - isovalue at every node
  Starts,  \* per call the nodes nearest to the seed points, {} for all nodes
  Arb,     \* the corners of the tetrahedron of value_at_arbitrary_point_
  Moves    \* the sets of vertices that may pass the midpoint when refined

IsVertex(v) == v.node \in Box /\ v.ei \in EdgeIndex /\ Neighbor(v.node, v.ei) \in Box
ASSUME FieldsAssumption == \A f \in Fields : f \in [Box -> Int]
ASSUME StartsAssumption == Starts \subseteq SUBSET Box
ASSUME MovesAssumption == \A m \in Moves : m \subseteq [node : Box, ei : EdgeIndex]
ASSUME BoxAssumption == Box \subseteq [1..3 -> Int] /\ IsFiniteSet(Box) /\ Box # {}
\* A point of the bbox is two nodes or more away from the end of the lattice.  With seeds it is
\* the first of them; the node it is rounded to need not be a corner of its tetrahedron.
ASSUME ArbAssumption == Arb \subseteq Box

VARIABLES
  field,        \* the field of all calls
  start,        \* the seeds of the call
  nodes,        \* node_list_: near and all intersections, packed vertices
  unevaluated,  \* nodes_to_evaluate_
  told,         \* the corners of Arb whose values are populated
  vertices,     \* vertices_
  layer,        \* lc2 of add_all_nodes
  seeds, newSeeds, pairs, visited,  \* of add_nodes_from_seed_points
  pc

walkVars == <<layer, seeds, newSeeds, pairs, visited>>

Negative(lc) == field[lc] < 0
Crossed(a, b) == Negative(a) # Negative(b)
Abs(x) == IF x < 0 THEN -x ELSE x

-----------------------------------------------------------------------------
\* A vertex put behind the others, whatever its edge.
InsertVertexLast(n, v, ei) == [n EXCEPT !.near = @ \cup {ei}, !.vis = Append(@, v)]

\* Node::has_vertex, vertex, insert_vertex, remove_vertex: the vertices of the
\* near intersections, packed in the order of the edges.
HasVertex(n, ei) == ei \in n.near
Rank(n, ei) == 1 + Cardinality({e \in n.near : e < ei})
VertexAt(n, ei) == n.vis[Rank(n, ei)]
InsertVertex(n, v, ei) ==
  [n EXCEPT !.near = @ \cup {ei}, !.vis = InsertAt(@, Rank(n, ei), v)]
RemoveVertex(n, ei) == [n EXCEPT !.near = @ \ {ei}, !.vis = RemoveAt(@, Rank(n, ei))]
IsFree(n) == n.all = {}
NewNode == [near |-> {}, all |-> {}, vis |-> <<>>]

\* Tetrahedron::vertex_on_edge: [node, ei] names an edge from either end.
OtherEnd(v) == [node |-> Neighbor(v.node, v.ei), ei |-> Opposite(v.ei)]
VertexOnEdge(ns, e) ==
  IF HasVertex(ns[e.node], e.ei) THEN VertexAt(ns[e.node], e.ei)
  ELSE VertexAt(ns[OtherEnd(e).node], OtherEnd(e).ei)

\* add_node of each of S, and what is left to evaluate.
WithNodes(ns, S) == [lc \in DOMAIN ns \cup (S \cap Box) |-> IF lc \in DOMAIN ns THEN ns[lc] ELSE NewNode]
AddNodes(S) ==
  /\ nodes' = WithNodes(nodes, S)
  /\ unevaluated' = unevaluated \cup ((S \cap Box) \ DOMAIN nodes)

\* generate_vertices for the nodes lcs: each looks at its edges to smaller nodes.  An
\* intersection belongs to the end that is nearer: t < 0.5.
NewIntersections(ns, lcs, lc) ==
  {ei \in EdgeIndex :
     LET lc1 == Neighbor(lc, ei)
     IN /\ lc1 \in DOMAIN ns /\ Crossed(lc, lc1)
        /\ (IF Less(lc1, lc) THEN lc ELSE lc1) \in lcs}
IsNear(lc, lc1) ==
  IF Less(lc1, lc) THEN Abs(field[lc]) < Abs(field[lc1]) ELSE Abs(field[lc]) <= Abs(field[lc1])
NearOnes(lc, edges) == {ei \in edges : IsNear(lc, Neighbor(lc, ei))}

\* The thread of a node inserts the vertices of edges 7 to 13 in turn, other threads
\* those of edges 0 to 6 at any time, for which stand two schedules.
Schedules == {<<0, 1, 2, 3, 4, 5, 6, 7, 8, 9, 10, 11, 12, 13>>,
              <<7, 8, 9, 10, 6, 5, 4, 3, 2, 1, 0, 11, 12, 13>>}
WithIntersections(lc, n, edges, schedule) ==
  LET upTo[k \in 0..14] ==
        IF k = 0 THEN [n EXCEPT !.all = @ \cup edges]
        ELSE LET ei == schedule[k]
             IN IF ei \in NearOnes(lc, edges)
                THEN InsertVertex(upTo[k - 1], [node |-> lc, ei |-> ei], ei) ELSE upTo[k - 1]
  IN upTo[14]
Generated(ns, lcs, schedule) ==
  [lc \in DOMAIN ns |-> WithIntersections(lc, ns[lc], NewIntersections(ns, lcs, lc), schedule)]
NewVertices(ns, lcs) ==
  UNION {{[node |-> lc, ei |-> ei] : ei \in NearOnes(lc, NewIntersections(ns, lcs, lc))} : lc \in DOMAIN ns}

\* remove_free_nodes
WithoutFree(ns, lcs) == [lc \in {c \in DOMAIN ns : c \notin lcs \/ ~IsFree(ns[c])} |-> ns[lc]]

-----------------------------------------------------------------------------
LatticeInit ==
  /\ field \in Fields /\ start = {}
  /\ nodes = <<>> /\ unevaluated = {} /\ told = {} /\ vertices = {}
  /\ layer = 0 /\ seeds = {} /\ newSeeds = {} /\ pairs = {} /\ visited = {}

\* clear
LatticeCleared ==
  /\ nodes' = <<>> /\ unevaluated' = {} /\ told' = {} /\ vertices' = {}
  /\ layer' = 0 /\ seeds' = {} /\ newSeeds' = {} /\ pairs' = {} /\ visited' = {}

\* evaluate_field, and what it returns to; EvaluateAfresh forgets what was told before.
Evaluating == {"evaluate layer", "evaluate seeds", "evaluate pairs"}
EvaluateAfresh ==
  /\ pc \in Evaluating
  /\ told' = unevaluated \cap Arb
  /\ unevaluated' = {}
  /\ pc' = IF pc = "evaluate layer" THEN "end layer"
           ELSE IF pc = "evaluate seeds" THEN "track" ELSE "propagate"
  /\ UNCHANGED <<field, start, nodes, vertices, walkVars>>
Evaluate ==
  /\ pc \in Evaluating
  /\ told' = told \cup (unevaluated \cap Arb)
  /\ unevaluated' = {}
  /\ pc' = IF pc = "evaluate layer" THEN "end layer"
           ELSE IF pc = "evaluate seeds" THEN "track" ELSE "propagate"
  /\ UNCHANGED <<field, start, nodes, vertices, walkVars>>

\* add_all_nodes: the nodes of a layer; then, with their values, the vertices on the
\* edges to this layer and the one before, whose nodes need no more edges after that.
Layer(k) == {lc \in Box : lc[3] = k}
Top == Max({lc[3] : lc \in Box})
AddLayer ==
  /\ pc = "layer" /\ pc' = "evaluate layer"
  /\ AddNodes(Layer(layer))
  /\ UNCHANGED <<field, start, told, vertices, walkVars>>
\* The layer itself, before the next one has its edges.
FinishedEarly(k) == Layer(k)
\* The layer before, and the last one.
Finished(k) == Layer(k - 1) \cup (IF k = Top THEN Layer(k) ELSE {})
EndLayer ==
  /\ pc = "end layer" /\ pc' = IF layer = Top THEN "refine" ELSE "layer"
  /\ \E schedule \in Schedules :
       nodes' = WithoutFree(Generated(nodes, Layer(layer), schedule), Finished(layer))
  /\ vertices' = vertices \cup NewVertices(nodes, Layer(layer))
  /\ layer' = layer + 1
  /\ UNCHANGED <<field, start, unevaluated, told, seeds, newSeeds, pairs, visited>>

-----------------------------------------------------------------------------
\* knn_nodes: what is first reached in k steps.
Ring(lc, k) ==
  LET step[i \in 0..k] ==
        IF i = 0 THEN [seen |-> {lc}, ring |-> {lc}]
        ELSE LET last == step[i - 1]
                 next == (Box \cap {Neighbor(n, ei) : n \in last.ring, ei \in EdgeIndex}) \ last.seen
             IN [seen |-> last.seen \cup next, ring |-> next]
  IN step[k].ring
\* The nodes that are evaluated in any case: all, or those of the seeds and around them.
FirstNodes(S) == IF S = {} THEN Box ELSE S \cup UNION {Ring(lc, 1) : lc \in S}
IsBoundary(lc) == \E ei \in EdgeIndex : Neighbor(lc, ei) \notin Box
Seed(lc, k) == [lc |-> lc, k |-> k]

\* The neighbors looked at: up to the first beyond the surface that is no boundary node.
Across(lc) == {ei \in EdgeIndex : Neighbor(lc, ei) \in Box /\ Crossed(lc, Neighbor(lc, ei))}
Found(lc) == {ei \in Across(lc) : ~IsBoundary(Neighbor(lc, ei))}
Tracked(lc) ==
  {{lc, Neighbor(lc, ei)} : ei \in {e \in Across(lc) : Found(lc) = {} \/ e <= Min(Found(lc))}}

\* A seed that has reached the surface, gives up, looks farther or moves on.
TrackSeed(s) ==
  LET ring == Ring(s.lc, s.k)
      nearer == {n \in ring : Abs(field[n]) < Abs(field[s.lc])}
      inner == {n \in nearer : ~IsBoundary(n)}
      farther == Ring(s.lc, s.k + 1)
      stops == s.k = 1 /\ Found(s.lc) # {}
  IN /\ pc = "track" /\ s \in seeds
     /\ seeds' = seeds \ {s}
     /\ pairs' = IF s.k = 1 THEN pairs \cup Tracked(s.lc) ELSE pairs
     /\ \/ /\ stops \/ (inner = {} /\ (s.k >= 10 \/ nearer = {} \/ farther = {}))
           /\ UNCHANGED <<nodes, unevaluated, newSeeds>>
        \/ /\ ~stops /\ inner = {} /\ s.k < 10 /\ nearer # {} /\ farther # {}
           /\ AddNodes(farther)
           /\ newSeeds' = newSeeds \cup {Seed(s.lc, s.k + 1)}
        \/ /\ ~stops
           /\ \E n \in inner :
                AddNodes(Ring(n, 1)) /\ newSeeds' = newSeeds \cup {Seed(n, 1)}
     /\ UNCHANGED <<field, start, told, vertices, layer, visited, pc>>
EndRound ==
  /\ pc = "track" /\ seeds = {} /\ newSeeds # {} /\ pc' = "evaluate seeds"
  /\ seeds' = newSeeds /\ newSeeds' = {}
  /\ UNCHANGED <<field, start, nodes, unevaluated, told, vertices, layer, pairs, visited>>
EndTrack ==
  /\ pc = "track" /\ seeds = {} /\ newSeeds = {} /\ pc' = "propagate"
  /\ UNCHANGED <<field, start, nodes, unevaluated, told, vertices, walkVars>>

\* From each pair across the surface to those around it, which share a node with it;
\* in CrossingAgain from those visited before, too, in CommonAnywhere to any node.
CrossingAgain == {p \in pairs : \E a, b \in p : Crossed(a, b)}
Crossing == {p \in pairs \ visited : \E a, b \in p : Crossed(a, b)}
CommonAnywhere(p) ==
  {n \in {Neighbor(a, ei) : a \in p, ei \in EdgeIndex} : \A a \in p : \E ei \in EdgeIndex : n = Neighbor(a, ei)}
Common(p) == {n \in Box : \A a \in p : \E ei \in EdgeIndex : n = Neighbor(a, ei)}
\* Only one end of a pair paired with the nodes around.
NewPairsOneEnd(p) == {{CHOOSE a \in p : \A b \in p : a = b \/ Less(a, b), n} : n \in Common(p)}
\* new_pairs of a pair
NewPairs(p) == {{a, n} : a \in p, n \in Common(p)}
Propagate ==
  /\ pc = "propagate" /\ pairs # {} /\ pc' = "evaluate pairs"
  /\ AddNodes(UNION {Common(p) : p \in Crossing})
  /\ visited' = visited \cup pairs
  /\ pairs' = UNION {NewPairs(p) : p \in Crossing}
  /\ UNCHANGED <<field, start, told, vertices, layer, seeds, newSeeds>>

GenerateAll ==
  /\ pc = "propagate" /\ pairs = {} /\ pc' = "refine"
  /\ \E schedule \in Schedules :
       nodes' = WithoutFree(Generated(nodes, DOMAIN nodes, schedule), DOMAIN nodes)
  /\ vertices' = NewVertices(nodes, DOMAIN nodes)
  /\ UNCHANGED <<field, start, unevaluated, told, walkVars>>

\* refine_vertices: vertices that pass the midpoint change over to the other node.
MoveVertex(v, ns) ==
  [ns EXCEPT ![v.node] = RemoveVertex(@, v.ei),
             ![OtherEnd(v).node] = InsertVertex(@, v, Opposite(v.ei))]
RefineVertices ==
  /\ pc = "refine" /\ pc' = "cluster"
  /\ \E m \in Moves : nodes' = FoldSet(MoveVertex, nodes, m \cap vertices)
  /\ UNCHANGED <<field, start, unevaluated, told, vertices, walkVars>>

LatticeStep ==
  \/ Evaluate \/ AddLayer \/ EndLayer
  \/ \E s \in seeds : TrackSeed(s)
  \/ EndRound \/ EndTrack \/ Propagate \/ GenerateAll \/ RefineVertices

-----------------------------------------------------------------------------
\* What the lattice is to hold after generate_vertices: of the edges of the nodes
\* that are left, each that the surface crosses has one vertex, kept at one of its
\* ends and found from both, whatever the threads did and wherever vertices moved.
EdgesHaveTheirVertex ==
  pc \in {"refine", "cluster"} =>
    \A lc \in DOMAIN nodes :
      /\ Len(nodes[lc].vis) = Cardinality(nodes[lc].near) /\ nodes[lc].near \subseteq nodes[lc].all
      /\ \A ei \in EdgeIndex :
           LET e == [node |-> lc, ei |-> ei]
               here == HasVertex(nodes[lc], ei)
           IN /\ here => VertexAt(nodes[lc], ei) \in vertices \cap {e, OtherEnd(e)}
              /\ OtherEnd(e).node \in DOMAIN nodes =>
                   /\ Crossed(lc, OtherEnd(e).node) <=>
                        (here # HasVertex(nodes[OtherEnd(e).node], Opposite(ei)))
                   /\ ~(here /\ HasVertex(nodes[OtherEnd(e).node], Opposite(ei)))

\* The tracking goes all around: every node that shares a tetrahedron with an edge
\* across the surface that was visited is in the lattice with its value.
TrackedComplete ==
  pc = "propagate" /\ pairs = {} =>
    \A p \in visited : (\E a, b \in p : Crossed(a, b)) =>
      \A n \in Common(p) : n \in DOMAIN nodes \ unevaluated /\ \A a \in p : {a, n} \in visited
==============================================================================
