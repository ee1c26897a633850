----------------------------- MODULE MeshDefects -----------------------------
(***************************************************************************)
(* isosurface/mesh_defects_finder.cpp: which faces of a mesh intersect     *)
(* another one that they share a single vertex with, from the signs of     *)
(* determinants.  Coordinates are integers and the signs exact.            *)
(***************************************************************************)
EXTENDS Integers, Sequences, FiniteSets, SequencesExt, TLC

CONSTANTS
  Meshes  \* records: vertices, the points; faces, triples of numbers of vertices

VARIABLES
  defectsOf,  \* the mesh
  result,     \* of intersecting_faces
  searched
defectVars == <<defectsOf, result, searched>>

Sub(u, v) == <<u[1] - v[1], u[2] - v[2], u[3] - v[3]>>
Cross(u, v) ==
  <<(u[2] * v[3]) - (u[3] * v[2]), (u[3] * v[1]) - (u[1] * v[3]), (u[1] * v[2]) - (u[2] * v[1])>>
Dot(u, v) == (u[1] * v[1]) + (u[2] * v[2]) + (u[3] * v[3])
Abs(x) == IF x < 0 THEN -x ELSE x
Sign(x) == IF x > 0 THEN 1 ELSE IF x < 0 THEN -1 ELSE 0

orient2d(a, b, c) == ((a[1] - c[1]) * (b[2] - c[2])) - ((a[2] - c[2]) * (b[1] - c[1]))
orient3d(a, b, c, d) == Dot(Sub(a, d), Cross(Sub(b, d), Sub(c, d)))

-----------------------------------------------------------------------------
(* A segment and a triangle                                                 *)

\* By the sides of the line pq that a, b and c are on: the edges (1 is ab, 2 is bc,
\* 3 is ca) that p and q must not be beyond; none if the triangle is on one side.
EdgesToPass ==
  [s \in {<<1, 1, -1>>, <<0, 1, -1>>, <<1, 0, -1>>, <<0, 0, -1>>, <<1, 1, 0>>} |-> <<3, 2>>] @@
  [s \in {<<1, -1, 1>>, <<0, -1, 1>>, <<1, -1, 0>>, <<0, -1, 0>>, <<1, 0, 1>>} |-> <<2, 1>>] @@
  [s \in {<<-1, 1, 1>>, <<-1, 1, 0>>, <<-1, 0, 1>>, <<-1, 0, 0>>, <<0, 1, 1>>} |-> <<1, 3>>] @@
  [s \in {<<1, -1, -1>>, <<1, 0, 0>>, <<0, -1, -1>>} |-> <<3, 1>>] @@
  [s \in {<<-1, 1, -1>>, <<0, 1, 0>>, <<-1, 0, -1>>} |-> <<1, 2>>] @@
  [s \in {<<-1, -1, 1>>, <<0, 0, 1>>, <<-1, -1, 0>>} |-> <<2, 3>>]
\* A segment that is seen as a point meets nothing.
MeetsTriangleUnlessPoint(p, q, t) ==
  LET signs == <<Sign(orient2d(p, q, t[1])), Sign(orient2d(p, q, t[2])), Sign(orient2d(p, q, t[3]))>>
      Before(x, k) == orient2d(x, t[k], t[1 + (k % 3)]) >= 0
  IN signs \in DOMAIN EdgesToPass /\ Before(p, EdgesToPass[signs][1]) /\ Before(q, EdgesToPass[signs][2])
MeetsTriangle(p, q, t) ==
  LET signs == <<Sign(orient2d(p, q, t[1])), Sign(orient2d(p, q, t[2])), Sign(orient2d(p, q, t[3]))>>
      Before(x, k) == orient2d(x, t[k], t[1 + (k % 3)]) >= 0
  IN \/ signs = <<0, 0, 0>>
     \/ signs \in DOMAIN EdgesToPass /\ Before(p, EdgesToPass[signs][1]) /\ Before(q, EdgesToPass[signs][2])

\* Seen along the axis that the normal is closest to, from where the triangle is
\* counterclockwise.
AxesFor(n) ==
  LET of(k) == IF n[k] > 0 THEN <<1 + (k % 3), 1 + ((k + 1) % 3)>> ELSE <<1 + ((k + 1) % 3), 1 + (k % 3)>>
  IN IF Abs(n[1]) >= Abs(n[2]) /\ Abs(n[1]) >= Abs(n[3]) THEN of(1)
     ELSE IF Abs(n[2]) >= Abs(n[1]) /\ Abs(n[2]) >= Abs(n[3]) THEN of(2) ELSE of(3)
Projected(x, axes) == <<x[axes[1]], x[axes[2]]>>
IntersectProjected(p, q, a, b, c, axes) ==
  MeetsTriangle(Projected(p, axes), Projected(q, axes), <<Projected(a, axes), Projected(b, axes), Projected(c, axes)>>)
segment3_triangle3_intersect_coplanar(p, q, a, b, c) ==
  IntersectProjected(p, q, a, b, c, AxesFor(Cross(Sub(b, a), Sub(c, a))))

\* pq passes ab, bc and ca on the same side.
Through(x, y, z) == (x >= 0 /\ y >= 0 /\ z >= 0) \/ (x <= 0 /\ y <= 0 /\ z <= 0)
segment3_triangle3_intersect(p, q, a, b, c) ==
  LET abcp == orient3d(a, b, c, p)
      abcq == orient3d(a, b, c, q)
  IN /\ ~(abcp > 0 /\ abcq > 0) /\ ~(abcp < 0 /\ abcq < 0)
     /\ segment3_triangle3_intersect_coplanar(p, q, a, b, c)
     /\ \/ abcp = 0 /\ abcq = 0
        \/ Through(orient3d(p, q, a, b), orient3d(p, q, b, c), orient3d(p, q, c, a))

-----------------------------------------------------------------------------
(* The faces around a vertex                                                *)

At(m, v) == m.vertices[v]
next_vertex(f, v) == IF f[1] = v THEN f[2] ELSE IF f[2] = v THEN f[3] ELSE f[1]
prev_vertex(f, v) == IF f[1] = v THEN f[3] ELSE IF f[2] = v THEN f[1] ELSE f[2]
vf_map(m, v) == {i \in DOMAIN m.faces : v \in ToSet(m.faces[i])}

edge_face_intersect(m, p, q, f) ==
  segment3_triangle3_intersect(At(m, p), At(m, q), At(m, f[1]), At(m, f[2]), At(m, f[3]))
\* Only whether the edge of the one goes through the other.
IntersectAtOneWay(m, v, f, g) ==
  LET a == next_vertex(f, v)
      b == prev_vertex(f, v)
  IN {a, b} \cap {next_vertex(g, v), prev_vertex(g, v)} = {} /\ edge_face_intersect(m, a, b, g)
IntersectAt(m, v, f, g) ==
  LET a == next_vertex(f, v)
      b == prev_vertex(f, v)
      c == next_vertex(g, v)
      d == prev_vertex(g, v)
  IN /\ {a, b} \cap {c, d} = {}
     /\ edge_face_intersect(m, a, b, g) \/ edge_face_intersect(m, c, d, f)
Pairs(m) == {<<v, i, j>> \in (DOMAIN m.vertices) \X (DOMAIN m.faces) \X (DOMAIN m.faces) :
               i < j /\ {i, j} \subseteq vf_map(m, v)}
intersecting_faces(m) ==
  UNION {{x[2], x[3]} : x \in {y \in Pairs(m) : IntersectAt(m, y[1], m.faces[y[2]], m.faces[y[3]])}}

Init == defectsOf \in Meshes /\ result = {} /\ searched = FALSE
Find ==
  /\ ~searched /\ searched' = TRUE
  /\ result' = intersecting_faces(defectsOf)
  /\ UNCHANGED defectsOf
Next == Find

-----------------------------------------------------------------------------
TypeOK == defectsOf \in Meshes /\ result \subseteq DOMAIN defectsOf.faces /\ searched \in BOOLEAN

\* Two faces that share nothing but a vertex intersect there, or only touch: seen from
\* it they are angles, and some direction is in both or none is.
InAngle(w, u, v, n) == Dot(Cross(u, w), n) >= 0 /\ Dot(Cross(w, v), n) >= 0
AnglesMeet(a, b, c, d, m, n) ==
  LET w == Cross(m, n)
  IN IF w # <<0, 0, 0>>
     THEN \E s \in {w, Sub(<<0, 0, 0>>, w)} : InAngle(s, a, b, m) /\ InAngle(s, c, d, n)
     ELSE \/ Dot(a, n) = 0 /\ (InAngle(a, c, d, n) \/ InAngle(b, c, d, n))
          \/ Dot(a, n) = 0 /\ (InAngle(c, a, b, m) \/ InAngle(d, a, b, m))
Share(m, v, i, j) == ToSet(m.faces[i]) \cap ToSet(m.faces[j]) = {v}
MeetBeyond(m, v, f, g) ==
  LET From(x) == Sub(At(m, x), At(m, v))
      a == From(next_vertex(f, v))
      b == From(prev_vertex(f, v))
      c == From(next_vertex(g, v))
      d == From(prev_vertex(g, v))
  IN AnglesMeet(a, b, c, d, Cross(a, b), Cross(c, d))
IntersectionsFound ==
  searched =>
    result = UNION {{x[2], x[3]} : x \in {y \in Pairs(defectsOf) :
               Share(defectsOf, y[1], y[2], y[3])
               /\ MeetBeyond(defectsOf, y[1], defectsOf.faces[y[2]], defectsOf.faces[y[3]])}}
==============================================================================
