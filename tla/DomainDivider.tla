--------------------------- MODULE DomainDivider ---------------------------
(***************************************************************************)
(* preconditioner/domain_divider.hpp and domain.hpp: a level of the        *)
(* preconditioner is divided into overlapping domains by halving, until no *)
(* domain is larger than a leaf.  Each point is inner in one domain, the   *)
(* one that will write its weight; the others see it as overlap.           *)
(*                                                                         *)
(* The coordinates enter through the order in which std::sort puts the     *)
(* points: any order of a given set, whichever axis is the longest.  The   *)
(* points of a domain are a set; what the code finds by position in the    *)
(* sorted vector is found here by Upto, the prefix sum at that position.   *)
(***************************************************************************)
EXTENDS Integers, Sequences, FiniteSets, SequencesExt

CONSTANTS
  Dim,     \* kDim: a point with a gradient counts for as many
  Leaf,    \* kMaxLeafSize, 1024
  Roots,   \* the sets of points that are divided
  Orders,  \* the orders in which the points can be sorted
  Poly     \* poly_point_idcs_: the points that fix the polynomial

\* MixedPoint, without the flag inner
Mixed == [index : Nat, grad : BOOLEAN]

ASSUME DimAssumption == Dim \in 1..3
\* 1024 and at most 3; a leaf of less than four points may be halved forever.
ASSUME LeafAssumption == Leaf \in Nat /\ Leaf >= 4 * Dim /\ Leaf % 4 = 0
ASSUME RootsAssumption == \A R \in Roots : R \subseteq Mixed /\ IsFiniteSet(R)
ASSUME OrdersAssumption ==
  \A o \in Orders, R \in Roots : \A p, q \in R : o[p] \in Int /\ (o[p] = o[q] => p = q)
ASSUME PolyAssumption ==
  /\ Poly \in Seq(Nat) /\ IsInjective(Poly)
  /\ \A R \in Roots, i \in 1..Len(Poly) : [index |-> Poly[i], grad |-> FALSE] \in R

VARIABLES
  root,    \* history: the points of the level
  kept,    \* domains_ before the iterator of divide_domains
  rest,    \* domains_ from the iterator on
  merged,  \* the domains that have been through merge_poly_points
  pc

vars == <<root, kept, rest, merged, pc>>

\* num_points() + kDim * num_grad_points()
Mult(S) == Cardinality({p \in S : ~p.grad}) + Dim * Cardinality({p \in S : p.grad})
\* The prefix sum of the multiplicities up to and including p.
Upto(S, order, p) == Mult({q \in S : order[q] <= order[p]})

\* The integers next to a / b: the code multiplies by (1 + q) / 2 with a rounded
\* q, so that a half may go either way.
Nearest(a, b) == {k \in 0..a : 2 * (b * k - a) <= b /\ 2 * (a - b * k) <= b}
\* round_half_to_even(n / 2), which is exact
HalfEven(n) == LET k == n \div 2 IN IF n % 2 = 1 /\ k % 2 = 1 THEN k + 1 ELSE k

Init ==
  /\ root \in Roots
  /\ kept = <<>>
  /\ rest = <<[points |-> root, inner |-> root]>>
  /\ merged = <<>>
  /\ pc = "divide"

\* divide_domains without ++it.
KeepOneForever ==
  /\ pc = "divide" /\ rest # <<>>
  /\ Mult(Head(rest).points) <= Leaf
  /\ UNCHANGED <<root, kept, rest, merged, pc>>

\* The domain at the iterator is small enough.
KeepOne ==
  /\ pc = "divide" /\ rest # <<>>
  /\ Mult(Head(rest).points) <= Leaf
  /\ kept' = Append(kept, Head(rest))
  /\ rest' = Tail(rest)
  /\ UNCHANGED <<root, merged, pc>>

\* The halves when the right one does not look at mid.
HalvesUncut(d, order, sub) ==
  LET n == Mult(d.points)
      At(m) == {p \in d.points : Upto(d.points, order, p) <= m}
  IN  <<[points |-> At(sub), inner |-> d.inner \cap At(HalfEven(n))],
        [points |-> d.points \ At(n - sub), inner |-> d.inner \cap (d.points \ At(n - sub))]>>

\* The halves of a domain when one holds sub of its n points: the left one from
\* the start up to sub, the right one from n - sub on.  Both keep what was inner
\* on their side of the middle.
Halves(d, order, sub) ==
  LET n == Mult(d.points)
      At(m) == {p \in d.points : Upto(d.points, order, p) <= m}
  IN  <<[points |-> At(sub), inner |-> d.inner \cap At(sub) \cap At(HalfEven(n))],
        [points |-> d.points \ At(n - sub),
         inner |-> (d.inner \ At(n - sub)) \ At(HalfEven(n))]>>

\* divide_domain: n_subdomain_points_mult is (1 + q) / 2 * n with q = Leaf / (2 * n).
DivideOne ==
  /\ pc = "divide" /\ rest # <<>>
  /\ LET d == Head(rest) IN
       /\ Mult(d.points) > Leaf
       /\ \E order \in Orders, sub \in Nearest(2 * Mult(d.points) + Leaf, 4) :
            rest' = Tail(rest) \o Halves(d, order, sub)
  /\ UNCHANGED <<root, kept, merged, pc>>

BeginMerge ==
  /\ pc = "divide" /\ rest = <<>>
  /\ pc' = "merge"
  /\ UNCHANGED <<root, kept, rest, merged>>

Value(i) == [index |-> i, grad |-> FALSE]
Indices(S) == {p.index : p \in {q \in S : ~q.grad}}
PolyIndices == {Poly[i] : i \in 1..Len(Poly)}
\* A set of indices in order: the i-th is the one with i of them up to itself.
Ascending(S) == [i \in 1..Cardinality(S) |-> CHOOSE x \in S : Cardinality({y \in S : y <= x}) = i]

\* merge_poly_points without the copy of the flag of a polynomial point.
MergedUnflagged(d) ==
  LET all == Poly \o Ascending(Indices(d.points) \ PolyIndices)
  IN  [point_indices |-> all,
       inner_point |-> [i \in 1..Len(all) |-> i > Len(Poly) /\ Value(all[i]) \in d.inner],
       inner_grad |-> {p \in d.inner : p.grad}]

\* merge_poly_points without the insertion of flags for the polynomial points.
MergedShort(d) ==
  LET others == Ascending(Indices(d.points) \ PolyIndices)
  IN  [point_indices |-> Poly \o others,
       inner_point |-> [i \in 1..Len(others) |-> Value(others[i]) \in d.inner],
       inner_grad |-> {p \in d.inner : p.grad}]

\* merge_poly_points: the polynomial points come first; one that the domain
\* already had is erased from its place among the others, which are in order,
\* and keeps its flag; one that it had not is not inner.
Merged(d) ==
  LET all == Poly \o Ascending(Indices(d.points) \ PolyIndices)
  IN  [point_indices |-> all,
       inner_point |-> [i \in 1..Len(all) |-> Value(all[i]) \in d.inner],
       inner_grad |-> {p \in d.inner : p.grad}]

MergeOne ==
  /\ pc = "merge" /\ kept # <<>>
  /\ merged' = Append(merged, Merged(Head(kept)))
  /\ kept' = Tail(kept)
  /\ UNCHANGED <<root, rest, pc>>

EndMerge ==
  /\ pc = "merge" /\ kept = <<>>
  /\ pc' = "done"
  /\ UNCHANGED <<root, kept, rest, merged>>

Next == KeepOne \/ DivideOne \/ BeginMerge \/ MergeOne \/ EndMerge

Spec == Init /\ [][Next]_vars
\* divide_domains is called by the constructor and runs to its end.
FairSpec == Spec /\ WF_vars(Next)

-----------------------------------------------------------------------------
DomainType == [points : SUBSET Mixed, inner : SUBSET Mixed]
VectorsType == [point_indices : Seq(Nat), inner_point : Seq(BOOLEAN), inner_grad : SUBSET Mixed]

\* The type of every variable; the flags are as many as the points.
TypeOK ==
  /\ root \in Roots
  /\ \A i \in 1..Len(kept) : kept[i].inner \subseteq kept[i].points /\ kept[i].points \subseteq root
  /\ \A i \in 1..Len(rest) : rest[i].inner \subseteq rest[i].points /\ rest[i].points \subseteq root
  /\ \A i \in 1..Len(merged) :
       /\ merged[i] \in VectorsType
       /\ Len(merged[i].point_indices) = Len(merged[i].inner_point)
  /\ pc \in {"divide", "merge", "done"}

\* Exactly one set of the sequence holds p.
InOne(p, sets) ==
  \E i \in 1..Len(sets) : p \in sets[i] /\ \A j \in 1..Len(sets) : p \in sets[j] => j = i

\* While domains are divided, each point of the level is inner in one of them.
InnerOnceDivided ==
  LET list == kept \o rest IN
  pc = "divide" =>
    \A p \in root : InOne(p, [i \in 1..Len(list) |-> list[i].inner])

\* The points that a merged domain will write.
InnerOf(m) ==
  m.inner_grad \cup {Value(m.point_indices[i]) : i \in {i \in 1..Len(m.inner_point) : m.inner_point[i]}}

\* test_domain_divider.cpp:57, 70: merging the polynomial points, which most domains
\* get without having had them, puts them first and in their order, leaves no point
\* in a domain twice, and leaves each point inner in one domain.
InnerOnce ==
  LET sets == [i \in 1..Len(merged) |-> InnerOf(merged[i])]
                \o [i \in 1..Len(kept) |-> kept[i].inner]
  IN  pc # "divide" =>
        /\ \A p \in root : InOne(p, sets)
        /\ \A i \in 1..Len(sets) : sets[i] \subseteq root
        /\ \A i \in 1..Len(merged) :
             /\ IsPrefix(Poly, merged[i].point_indices)
             /\ IsInjective(merged[i].point_indices)

\* Division comes to an end: every half is smaller than what it was cut from.
Terminates == <>(pc = "done")
==============================================================================
