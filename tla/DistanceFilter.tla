-------------------------- MODULE DistanceFilter --------------------------
(***************************************************************************)
(* point_cloud/distance_filter.hpp: points are thinned out, in the order   *)
(* in which they are given, so that no two that are kept are near to each  *)
(* other.  near[i] are the points that a radius search around i returns,   *)
(* i among them.                                                           *)
(***************************************************************************)
EXTENDS Integers, Sequences, Functions

\* The points that each point visited takes out, unless it was taken out itself.
IndicesToRemove(indices, near) ==
  LET gone[k \in 0..Len(indices)] ==
        IF k = 0 THEN {}
        ELSE IF indices[k] \in gone[k - 1] THEN gone[k - 1]
        ELSE gone[k - 1] \cup (near[indices[k]] \ {indices[k]})
  IN  gone[Len(indices)]

\* filtered_indices_, of which the fitters make a set
Filtered(indices, near) == Range(indices) \ IndicesToRemove(indices, near)
=============================================================================
