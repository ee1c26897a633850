-------------------------- MODULE SdfDataGenerator --------------------------
(***************************************************************************)
(* src/point_cloud/sdf_data_generator.cpp: to each point with a normal two *)
(* points are added, at an offset to either side, each nearer to its own   *)
(* point than to all others; where they are not the offset shrinks.        *)
(*                                                                         *)
(* Point j is nearer than i to the point at distance d along the normal of *)
(* i exactly if d is beyond the distance at which both are equally near.   *)
(***************************************************************************)
EXTENDS NormalEstimator

CONSTANTS
  Clouds,   \* the clouds of points that are passed in, see IsCloud
  Offsets,  \* the offsets that are passed in, not positive for automatic ones
  Never     \* a distance beyond all others: j is not on that side of i

VARIABLES
  cloud,        \* points and normals
  offset,       \* offset
  side, point,  \* sign and i, the two loops
  distance,     \* d
  rows,         \* sdf_points and sdf_values behind the points: the point and the value
  sdfPc

sdfVars == <<cloud, offset, side, point, distance, rows, sdfPc>>

\* Which points have a normal; the distance to the farthest of the six nearest points;
\* reach[s][i][j], r / cos, the distance from i to side s at which j is as near as i.
\* There are two points or more, all distinct, so that distances are positive.  They are
\* in hundreds, for 0.99.
IsCloud(c) ==
  LET P == 1..Len(c.normal)
  IN  /\ Len(c.normal) >= 2
      /\ c.normal \in Seq(BOOLEAN) /\ c.spacing \in [P -> 100..Never]
      /\ c.reach \in [{-1, 1} -> [P -> [P -> 100..Never]]]
ASSUME SdfAssumption ==
  /\ Never \in Nat /\ \A c \in Clouds : IsCloud(c)
  /\ Offsets \subseteq Int /\ \A o \in Offsets : o < Never

CloudPoint == 1..Len(cloud.normal)
\* d before it shrinks
FirstDistance(a) == IF offset <= 0 THEN cloud.spacing[a] ELSE offset
\* The points that the tree may find nearest to the one at distance dist from i.
Nearest(dist) ==
  LET nearer == {j \in CloudPoint \ {point} : cloud.reach[side][point][j] < dist}
      equal == {j \in CloudPoint \ {point} : cloud.reach[side][point][j] = dist}
  IN  IF nearer # {} THEN nearer ELSE equal \cup {point}

SdfInit ==
  /\ cloud \in Clouds /\ offset \in Offsets
  /\ side = -1 /\ point = 1 /\ distance = 0 /\ rows = <<>>
  /\ sdfPc = "next"

\* The next point, first all on the one side and then all on the other.
Advance ==
  \/ point < Len(cloud.normal) /\ point' = point + 1 /\ sdfPc' = "next" /\ UNCHANGED side
  \/ point = Len(cloud.normal) /\ side = -1 /\ point' = 1 /\ side' = 1 /\ sdfPc' = "next"
  \/ point = Len(cloud.normal) /\ side = 1 /\ sdfPc' = "done" /\ UNCHANGED <<side, point>>

NoNormal ==
  /\ sdfPc = "next" /\ ~cloud.normal[point]
  /\ Advance
  /\ UNCHANGED <<cloud, offset, distance, rows>>

SdfStart ==
  /\ sdfPc = "next" /\ cloud.normal[point]
  /\ distance' = FirstDistance(point)
  /\ sdfPc' = "search"
  /\ UNCHANGED <<cloud, offset, side, point, rows>>

Shrink ==
  /\ sdfPc = "search"
  /\ \E j \in Nearest(distance) \ {point} : distance' = (99 * cloud.reach[side][point][j]) \div 100
  /\ UNCHANGED <<cloud, offset, side, point, rows, sdfPc>>

\* The value is that of the offset before it shrank.
AddPointAtOffset ==
  /\ sdfPc = "search" /\ point \in Nearest(distance)
  /\ rows' = Append(rows, [point |-> point, value |-> side * FirstDistance(point)])
  /\ Advance
  /\ UNCHANGED <<cloud, offset, distance>>

AddPoint ==
  /\ sdfPc = "search" /\ point \in Nearest(distance)
  /\ rows' = Append(rows, [point |-> point, value |-> side * distance])
  /\ Advance
  /\ UNCHANGED <<cloud, offset, distance>>

SdfNext == NoNormal \/ SdfStart \/ Shrink \/ AddPoint
SdfSpec == SdfInit /\ [][SdfNext]_sdfVars

-----------------------------------------------------------------------------
\* The types of the variables.
SdfTypeOK ==
  /\ cloud \in Clouds /\ offset \in Offsets
  /\ side \in {-1, 1} /\ point \in CloudPoint /\ distance \in 0..Never
  /\ \A k \in DOMAIN rows : rows[k].point \in CloudPoint /\ rows[k].value \in -Never..Never
  /\ sdfPc \in {"next", "search", "done"}

\* The value of each added point is its distance to the nearest point, which is its own
\* one, with the sign of its side, and never more than the offset that was asked for;
\* every point with a normal has one on either side in the end.
OffsetsBelong ==
  /\ \A k \in DOMAIN rows :
       LET a == rows[k].point
           s == IF rows[k].value < 0 THEN -1 ELSE 1
       IN  /\ s * rows[k].value \in 1..FirstDistance(a)
           /\ \A b \in CloudPoint \ {a} : cloud.reach[s][a][b] >= s * rows[k].value
  /\ sdfPc = "done" =>
       \A a \in CloudPoint : \A s \in {-1, 1} :
         cloud.normal[a] <=> \E k \in DOMAIN rows : rows[k].point = a /\ s * rows[k].value > 0

\* Orientation of a closed surface: normals agree with those they were oriented after,
\* each is in one component whose highest point looks up, and the strongest links lead.
\* The points then added on either side are nearest to their own, at most at the offset.
NormalsAndOffsets == NormalsAgree /\ EachOrientedOnce /\ StrongestFirst /\ OffsetsBelong

\* The distance cannot shrink for ever.
SdfTerminates == <>(sdfPc = "done")
==============================================================================
