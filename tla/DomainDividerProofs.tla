------------------------ MODULE DomainDividerProofs ------------------------
(***************************************************************************)
(* Proofs about DomainDivider, for every set of points, leaf size,         *)
(* dimension and order.  The argument needs one fact about numbers: the    *)
(* middle of a domain lies in both of its halves.  Then what is inner on   *)
(* either side of the middle stays inner in exactly one half.              *)
(*                                                                         *)
(* Proofs about PolynomialPoints, for all points and all draws.  The table *)
(* of monomials is right at every point: it is told apart entry by entry   *)
(* at two of them, and each entry of a gradient is the derivative as the   *)
(* difference of two products.  The best set is one that was drawn, and    *)
(* its condition is zero until a set is found that can be used.            *)
(***************************************************************************)
EXTENDS DomainDivider, CoarsePoints, PolynomialPoints, FiniteSetTheorems, SequenceTheorems, TLAPS

\* The part of the type that division needs.
Typed ==
  /\ root \in Roots
  /\ pc \in {"divide", "merge", "done"}
  /\ kept \in Seq([points : SUBSET root, inner : SUBSET root])
  /\ rest \in Seq([points : SUBSET root, inner : SUBSET root])
  /\ \A i \in 1..Len(kept) : kept[i].inner \subseteq kept[i].points
  /\ \A i \in 1..Len(rest) : rest[i].inner \subseteq rest[i].points

\* The multiplicity of a finite set of points is a natural number.
LEMMA MultType == \A S : IsFiniteSet(S) => Mult(S) \in Nat
  <1> SUFFICES ASSUME NEW S, IsFiniteSet(S) PROVE Mult(S) \in Nat
    OBVIOUS
  <1>1. IsFiniteSet({p \in S : ~p.grad}) /\ IsFiniteSet({p \in S : p.grad})
    BY FS_Subset
  <1>2. Cardinality({p \in S : ~p.grad}) \in Nat /\ Cardinality({p \in S : p.grad}) \in Nat
    BY <1>1, FS_CardinalityType
  <1> HIDE DEF Mult
  <1>. QED BY <1>2, DimAssumption DEF Mult

\* The middle of a domain that is larger than a leaf: at or after the place
\* where the right half starts, at or before the place where the left half ends.
LEMMA MiddleInBoth ==
  ASSUME NEW n \in Nat, n > Leaf, NEW sub \in Nearest(2 * n + Leaf, 4)
  PROVE  /\ sub \in Nat /\ HalfEven(n) \in Nat
         /\ n - sub <= HalfEven(n) /\ HalfEven(n) <= sub
  <1>1. sub \in Nat /\ 2 * (4 * sub - (2 * n + Leaf)) <= 4 /\ 2 * ((2 * n + Leaf) - 4 * sub) <= 4
    BY LeafAssumption DEF Nearest
  <1>2. Leaf \in Nat /\ Leaf >= 4
    BY LeafAssumption, DimAssumption
  <1>3. PICK k \in Nat : k = n \div 2 /\ (n = 2 * k \/ n = 2 * k + 1)
    OBVIOUS
  <1>4. HalfEven(n) = k \/ (HalfEven(n) = k + 1 /\ n = 2 * k + 1)
    <2>1. n % 2 = 1 => n = 2 * k + 1
      BY <1>3
    <2>. QED BY <2>1, <1>3 DEF HalfEven
  <1>. QED BY <1>1, <1>2, <1>3, <1>4

\* The two halves split what was inner between them.
LEMMA HalvesSplit ==
  ASSUME NEW d, NEW rank, NEW sub, IsFiniteSet(d.points), d.inner \subseteq d.points,
         Mult(d.points) > Leaf, sub \in Nearest(2 * Mult(d.points) + Leaf, 4)
  PROVE  LET h == Halves(d, rank, sub) IN
         /\ h = <<h[1], h[2]>>
         /\ h[1] \in [points : SUBSET d.points, inner : SUBSET d.points]
         /\ h[2] \in [points : SUBSET d.points, inner : SUBSET d.points]
         /\ h[1].inner \subseteq h[1].points /\ h[2].inner \subseteq h[2].points
         /\ h[1].inner \cup h[2].inner = d.inner
         /\ h[1].inner \cap h[2].inner = {}
  <1> DEFINE n == Mult(d.points)
             U(p) == Upto(d.points, rank, p)
             At(m) == {p \in d.points : U(p) <= m}
             mid == HalfEven(n)
             l == [points |-> At(sub), inner |-> d.inner \cap At(sub) \cap At(mid)]
             r == [points |-> d.points \ At(n - sub), inner |-> (d.inner \ At(n - sub)) \ At(mid)]
  <1>1. n \in Nat
    BY MultType
  <1>2. \A p \in d.points : U(p) \in Nat
    <2> TAKE p \in d.points
    <2>1. IsFiniteSet({q \in d.points : rank[q] <= rank[p]})
      BY FS_Subset
    <2>. QED BY <2>1, MultType DEF Upto
  <1>3. Halves(d, rank, sub) = <<l, r>>
    BY DEF Halves
  <1>4. /\ sub \in Nat /\ mid \in Nat
        /\ n - sub <= mid /\ mid <= sub
    BY <1>1, MiddleInBoth
  <1> HIDE DEF n, U, mid
  <1>5. At(mid) \subseteq At(sub) /\ At(n - sub) \subseteq At(mid)
    BY <1>1, <1>2, <1>4
  <1>6. l.inner \subseteq l.points /\ r.inner \subseteq r.points
    OBVIOUS
  <1>7. l.inner \cup r.inner = d.inner /\ l.inner \cap r.inner = {}
    BY <1>5
  <1>8. /\ l \in [points : SUBSET d.points, inner : SUBSET d.points]
        /\ r \in [points : SUBSET d.points, inner : SUBSET d.points]
    OBVIOUS
  <1> HIDE DEF l, r
  <1>. QED BY <1>3, <1>6, <1>7, <1>8
Domains == [points : SUBSET root, inner : SUBSET root]
InnerSets(list) == [i \in 1..Len(list) |-> list[i].inner]

\* Moving the head of a sequence to the end of the one before it.
LEMMA MoveHead ==
  ASSUME NEW D, NEW k \in Seq(D), NEW r \in Seq(D), r # <<>>
  PROVE  Append(k, Head(r)) \o Tail(r) = k \o r
  <1> DEFINE a == Append(k, Head(r)) \o Tail(r)
             b == k \o r
  <1>1. Len(a) = Len(b) /\ a \in Seq(D) /\ b \in Seq(D)
    OBVIOUS
  <1>2. \A i \in 1..Len(b) : a[i] = b[i]
    OBVIOUS
  <1> HIDE DEF a, b
  <1>3. a = b
    BY <1>1, <1>2, SeqEqual
  <1>. QED BY <1>3 DEF a, b

\* The same said of the domains themselves.
InOneOf(p, list) ==
  \E i \in 1..Len(list) :
    p \in list[i].inner /\ \A j \in 1..Len(list) : p \in list[j].inner => j = i

LEMMA InOneSame ==
  ASSUME NEW p, NEW list, Len(list) \in Nat
  PROVE  InOne(p, InnerSets(list)) <=> InOneOf(p, list)
  <1> DEFINE s == InnerSets(list)
  <1>1. Len(s) = Len(list) /\ \A i \in 1..Len(list) : s[i] = list[i].inner
    BY DEF InnerSets
  <1> HIDE DEF s
  <1>. QED BY <1>1 DEF InOne, InOneOf, s

\* The first domain of a list has the properties of all.
LEMMA HeadTail ==
  ASSUME NEW D, NEW r \in Seq(D), r # <<>>, \A i \in 1..Len(r) : r[i].inner \subseteq r[i].points
  PROVE  /\ Head(r) \in D /\ Head(r).inner \subseteq Head(r).points
         /\ Tail(r) \in Seq(D)
         /\ \A i \in 1..Len(Tail(r)) : Tail(r)[i].inner \subseteq Tail(r)[i].points
  <1>1. Head(r) = r[1] /\ 1 \in 1..Len(r) /\ Head(r) \in D /\ Tail(r) \in Seq(D)
    OBVIOUS
  <1>2. \A i \in 1..Len(Tail(r)) : Tail(r)[i] = r[i + 1] /\ i + 1 \in 1..Len(r)
    OBVIOUS
  <1>. QED BY <1>1, <1>2

\* Replacing the first set of the second sequence by two that split it, put at
\* the end, leaves every point in exactly one set.
LEMMA SplitKeepsOne ==
  ASSUME NEW D, NEW k \in Seq(D), NEW r \in Seq(D), r # <<>>,
         NEW h1 \in D, NEW h2 \in D,
         h1.inner \cup h2.inner = Head(r).inner, h1.inner \cap h2.inner = {},
         NEW p, InOneOf(p, k \o r)
  PROVE  InOneOf(p, k \o (Tail(r) \o <<h1, h2>>))
  <1> DEFINE a == k \o r
             b == k \o (Tail(r) \o <<h1, h2>>)
             K == Len(k)
             n == Len(k) + Len(r)
  <1>1. K \in Nat /\ Len(r) \in Nat /\ Len(r) >= 1
    OBVIOUS
  <1>2. Len(a) = n /\ Len(b) = n + 1
    OBVIOUS
  <1>3. \A i \in 1..K : b[i] = a[i]
    OBVIOUS
  <1>4. \A i \in (K + 1)..(n - 1) : b[i] = a[i + 1]
    OBVIOUS
  <1>5. a[K + 1] = Head(r) /\ b[n] = h1 /\ b[n + 1] = h2
    OBVIOUS
  <1> HIDE DEF a, b, K, n
  <1>6. PICK i \in 1..n : p \in a[i].inner /\ \A j \in 1..n : p \in a[j].inner => j = i
    BY <1>2 DEF InOneOf, a
  <1>7. n \in Nat /\ K + 1 <= n
    BY <1>1 DEF n, K
  <1>8. SUFFICES \E m \in 1..(n + 1) :
                    p \in b[m].inner /\ \A j \in 1..(n + 1) : p \in b[j].inner => j = m
    BY <1>2, <1>7 DEF InOneOf, b
  <1>9. \A j \in 1..(n + 1) : j \in 1..K \/ j \in (K + 1)..(n - 1) \/ j = n \/ j = n + 1
    BY <1>7, <1>1
  <1>10. CASE i = K + 1
    <2>1. \A j \in 1..K : p \notin b[j].inner
      BY <1>1, <1>3, <1>6, <1>7, <1>10
    <2>2. \A j \in (K + 1)..(n - 1) : p \notin b[j].inner
      BY <1>1, <1>4, <1>6, <1>7, <1>10
    <2>3. (p \in h1.inner /\ p \notin h2.inner) \/ (p \in h2.inner /\ p \notin h1.inner)
      BY <1>5, <1>6, <1>10
    <2>4. CASE p \in h1.inner /\ p \notin h2.inner
      <3>1. n \in 1..(n + 1)
        BY <1>7, <1>1
      <3>. QED BY <2>1, <2>2, <2>4, <3>1, <1>5, <1>9
    <2>5. CASE p \in h2.inner /\ p \notin h1.inner
      <3>1. n + 1 \in 1..(n + 1)
        BY <1>7, <1>1
      <3>. QED BY <2>1, <2>2, <2>5, <3>1, <1>5, <1>9
    <2>. QED BY <2>3, <2>4, <2>5
  <1>11. CASE i \in 1..K
    <2>1. p \notin h1.inner /\ p \notin h2.inner
      <3>1. K + 1 \in 1..n /\ K + 1 # i
        BY <1>1, <1>7, <1>11
      <3>. QED BY <3>1, <1>5, <1>6
    <2>2. \A j \in 1..K : p \in b[j].inner => j = i
      BY <1>1, <1>3, <1>6, <1>7
    <2>3. \A j \in (K + 1)..(n - 1) : p \notin b[j].inner
      BY <1>1, <1>4, <1>6, <1>7, <1>11
    <2>4. i \in 1..(n + 1) /\ p \in b[i].inner
      BY <1>3, <1>6, <1>7, <1>11
    <2>. QED BY <2>1, <2>2, <2>3, <2>4, <1>5, <1>9
  <1>12. CASE i \in (K + 2)..n
    <2>1. p \notin h1.inner /\ p \notin h2.inner
      <3>1. K + 1 \in 1..n /\ K + 1 # i
        BY <1>1, <1>7, <1>12
      <3>. QED BY <3>1, <1>5, <1>6
    <2>2. \A j \in 1..K : p \notin b[j].inner
      BY <1>1, <1>3, <1>6, <1>7, <1>12
    <2>3. \A j \in (K + 1)..(n - 1) : p \in b[j].inner => j = i - 1
      <3> TAKE j \in (K + 1)..(n - 1)
      <3>1. b[j] = a[j + 1] /\ j + 1 \in 1..n
        BY <1>1, <1>4, <1>7
      <3>2. p \in b[j].inner => j + 1 = i
        BY <3>1, <1>6
      <3>. QED BY <3>2, <1>1, <1>7, <1>12
    <2>4. i - 1 \in 1..(n + 1) /\ p \in b[i - 1].inner
      <3>1. i - 1 \in (K + 1)..(n - 1) /\ (i - 1) + 1 = i
        BY <1>1, <1>7, <1>12
      <3>2. b[i - 1] = a[i]
        BY <3>1, <1>4
      <3>. QED BY <3>1, <3>2, <1>1, <1>6, <1>7
    <2>. QED BY <2>1, <2>2, <2>3, <2>4, <1>5, <1>9
  <1>. QED
    <2>1. i \in 1..K \/ i = K + 1 \/ i \in (K + 2)..n
      BY <1>1, <1>6, <1>7
    <2>. QED BY <2>1, <1>10, <1>11, <1>12

Inv == Typed /\ InnerOnceDivided

LEMMA InvInit == Init => Inv
  <1> SUFFICES ASSUME Init PROVE Inv
    OBVIOUS
  <1> DEFINE d == [points |-> root, inner |-> root]
  <1>1. Typed
    BY DEF Init, Typed
  <1>2. kept \o rest = <<d>>
    BY DEF Init
  <1>3. InnerOnceDivided
    BY <1>2 DEF InnerOnceDivided, InOne
  <1>. QED BY <1>1, <1>3 DEF Inv

\* What divide_domain makes of the first domain.
LEMMA DivideMakes ==
  ASSUME Inv, DivideOne
  PROVE  \E h1, h2 \in Domains :
           /\ rest' = Tail(rest) \o <<h1, h2>>
           /\ h1.inner \subseteq h1.points /\ h2.inner \subseteq h2.points
           /\ h1.inner \cup h2.inner = Head(rest).inner
           /\ h1.inner \cap h2.inner = {}
  <1> DEFINE d == Head(rest)
  <1>1. d \in Domains /\ d.inner \subseteq d.points
    BY HeadTail DEF Inv, Typed, DivideOne, Domains
  <1>2. IsFiniteSet(d.points)
    BY <1>1, RootsAssumption, FS_Subset DEF Inv, Typed, Domains
  <1>3. PICK rank \in Orders, sub \in Nearest(2 * Mult(d.points) + Leaf, 4) :
          rest' = Tail(rest) \o Halves(d, rank, sub)
    BY DEF DivideOne
  <1>4. Mult(d.points) > Leaf
    BY DEF DivideOne
  <1> HIDE DEF d
  <1> DEFINE h == Halves(d, rank, sub)
  <1>5. /\ h = <<h[1], h[2]>>
        /\ h[1] \in [points : SUBSET d.points, inner : SUBSET d.points]
        /\ h[2] \in [points : SUBSET d.points, inner : SUBSET d.points]
        /\ h[1].inner \subseteq h[1].points /\ h[2].inner \subseteq h[2].points
        /\ h[1].inner \cup h[2].inner = d.inner
        /\ h[1].inner \cap h[2].inner = {}
    BY <1>1, <1>2, <1>4, HalvesSplit
  <1>6. rest' = Tail(rest) \o h
    BY <1>3
  <1> HIDE DEF h
  <1>7. h[1] \in Domains /\ h[2] \in Domains
    <2>1. d.points \subseteq root
      BY <1>1 DEF Domains
    <2>. QED BY <2>1, <1>5 DEF Domains
  <1>8. rest' = Tail(rest) \o <<h[1], h[2]>>
    BY <1>5, <1>6
  <1>. QED BY <1>5, <1>7, <1>8 DEF d

LEMMA InvNext == Inv /\ [Next]_vars => Inv'
  <1> SUFFICES ASSUME Inv, [Next]_vars PROVE Inv'
    OBVIOUS
  <1> USE DEF Inv
  <1>0. Typed /\ kept \in Seq(Domains) /\ rest \in Seq(Domains)
    BY DEF Typed, Domains
  <1>1. CASE KeepOne
    <2>1. /\ rest # <<>>
          /\ Head(rest) \in Domains /\ Head(rest).inner \subseteq Head(rest).points
          /\ Tail(rest) \in Seq(Domains)
          /\ \A i \in 1..Len(Tail(rest)) : Tail(rest)[i].inner \subseteq Tail(rest)[i].points
      BY <1>0, <1>1, HeadTail DEF KeepOne, Typed
    <2>2. kept' = Append(kept, Head(rest)) /\ rest' = Tail(rest) /\ pc' = pc /\ root' = root
      BY <1>1 DEF KeepOne
    <2>3. Typed'
      <3>1. /\ kept' \in Seq(Domains)
            /\ \A i \in 1..Len(kept') : kept'[i].inner \subseteq kept'[i].points
        BY <1>0, <2>1, <2>2 DEF Typed
      <3>. QED BY <1>0, <2>1, <2>2, <3>1 DEF Typed, Domains
    <2>4. kept' \o rest' = kept \o rest
      BY <1>0, <2>1, <2>2, MoveHead
    <2>5. InnerOnceDivided'
      <3>1. (InnerOnceDivided)' <=> (pc = "divide"
              => \A p \in root : InOne(p, InnerSets(kept' \o rest')))
        BY <2>2 DEF InnerOnceDivided, InnerSets, InOne
      <3>. QED BY <2>4, <3>1 DEF InnerOnceDivided, InnerSets
    <2>. QED BY <2>3, <2>5
  <1>2. CASE DivideOne
    <2>1. PICK h1, h2 \in Domains :
            /\ rest' = Tail(rest) \o <<h1, h2>>
            /\ h1.inner \subseteq h1.points /\ h2.inner \subseteq h2.points
            /\ h1.inner \cup h2.inner = Head(rest).inner
            /\ h1.inner \cap h2.inner = {}
      BY <1>2, DivideMakes
    <2>2. rest # <<>> /\ pc = "divide" /\ kept' = kept /\ root' = root /\ pc' = pc
      BY <1>2 DEF DivideOne
    <2>3. Typed'
      <3>1. rest' \in Seq(Domains)
        BY <1>0, <2>1, <2>2
      <3>2. \A i \in 1..Len(rest') : rest'[i].inner \subseteq rest'[i].points
        BY <1>0, <2>1, <2>2 DEF Typed
      <3>. QED BY <1>0, <2>2, <3>1, <3>2 DEF Typed, Domains
    <2>4. ASSUME NEW p \in root
          PROVE  InOne(p, InnerSets(kept' \o rest'))
      <3>1. InOne(p, InnerSets(kept \o rest))
        BY <2>2, <2>4 DEF InnerOnceDivided, InnerSets
      <3>2. InOneOf(p, kept \o rest)
        BY <1>0, <3>1, InOneSame
      <3>3. InOneOf(p, kept \o (Tail(rest) \o <<h1, h2>>))
        BY <1>0, <2>1, <2>2, <3>2, SplitKeepsOne
      <3>4. kept' \o rest' = kept \o (Tail(rest) \o <<h1, h2>>)
        BY <2>1, <2>2
      <3>5. Len(kept' \o rest') \in Nat
        BY <1>0, <2>1, <2>2, <3>4
      <3>. QED BY <3>3, <3>4, <3>5, InOneSame
    <2>5. InnerOnceDivided'
      BY <2>2, <2>4 DEF InnerOnceDivided, InnerSets
    <2>. QED BY <2>3, <2>5
  <1>3. CASE BeginMerge
    BY <1>0, <1>3 DEF BeginMerge, Typed, InnerOnceDivided
  <1>4. CASE MergeOne
    <2>1. kept' \in Seq(Domains) /\ \A i \in 1..Len(kept') : kept'[i].inner \subseteq kept'[i].points
      BY <1>0, <1>4, HeadTail DEF MergeOne, Typed
    <2>2. pc = "merge" /\ UNCHANGED <<root, rest, pc>>
      BY <1>4 DEF MergeOne
    <2>. QED BY <1>0, <2>1, <2>2 DEF Typed, Domains, InnerOnceDivided
  <1>5. CASE EndMerge
    BY <1>0, <1>5 DEF EndMerge, Typed, InnerOnceDivided
  <1>6. CASE UNCHANGED vars
    <2>1. UNCHANGED <<root, kept, rest, pc>>
      BY <1>6 DEF vars
    <2>2. Typed'
      BY <1>0, <2>1 DEF Typed
    <2>3. InnerOnceDivided'
      <3>1. kept' \o rest' = kept \o rest /\ pc' = pc /\ root' = root
        BY <2>1
      <3>2. ASSUME NEW p \in root, pc = "divide"
            PROVE  InOne(p, InnerSets(kept' \o rest'))
        <4>1. InOne(p, InnerSets(kept \o rest))
          BY <3>2 DEF InnerOnceDivided, InnerSets
        <4>. QED BY <3>1, <4>1
      <3>. QED BY <3>1, <3>2 DEF InnerOnceDivided, InnerSets
    <2>. QED BY <2>2, <2>3
  <1>. QED BY <1>1, <1>2, <1>3, <1>4, <1>5, <1>6 DEF Next

\* DomainDivider::divide_domains: whatever the points, the order in which they
\* are sorted and the way a half is rounded, each point stays inner in exactly
\* one domain.
THEOREM DividedOnce == Spec => []InnerOnceDivided
  <1>1. Inv => InnerOnceDivided
    BY DEF Inv
  <1>. QED BY <1>1, InvInit, InvNext, PTL DEF Spec

-----------------------------------------------------------------------------
(***************************************************************************)
(* merge_poly_points: the domains come out of the list one after the       *)
(* other, and each keeps what was inner in it.                             *)
(***************************************************************************)

\* Of two indices of a set, the smaller has fewer of them up to itself.
LEMMA RankGrows ==
  ASSUME NEW S, S \subseteq Nat, IsFiniteSet(S), NEW x \in S, NEW z \in S, x < z
  PROVE  Cardinality({y \in S : y <= x}) < Cardinality({y \in S : y <= z})
  <1> DEFINE A == {y \in S : y <= x}
             B == {y \in S : y <= z}
  <1>1. A \subseteq B /\ z \in B /\ z \notin A
    <2>1. x \in Nat /\ z \in Nat /\ \A y \in S : y \in Nat
      OBVIOUS
    <2>2. \A y \in S : y <= x => y <= z
      BY <2>1
    <2>3. z <= z /\ ~(z <= x)
      BY <2>1
    <2>. QED BY <2>2, <2>3
  <1>2. IsFiniteSet(B)
    BY FS_Subset
  <1> HIDE DEF A, B
  <1>3. IsFiniteSet(A) /\ Cardinality(A) <= Cardinality(B) /\ Cardinality(A) # Cardinality(B)
    BY <1>1, <1>2, FS_Subset
  <1>4. Cardinality(A) \in Nat /\ Cardinality(B) \in Nat
    BY <1>2, <1>3, FS_CardinalityType
  <1>. QED BY <1>3, <1>4 DEF A, B

\* Ascending lists a finite set of indices: each of them once, and nothing else.
LEMMA AscendingLists ==
  ASSUME NEW S, S \subseteq Nat, IsFiniteSet(S)
  PROVE  /\ Ascending(S) \in Seq(S) /\ Len(Ascending(S)) = Cardinality(S)
         /\ Cardinality(S) \in Nat
         /\ \A i, j \in 1..Cardinality(S) : Ascending(S)[i] = Ascending(S)[j] => i = j
         /\ \A x \in S : \E i \in 1..Cardinality(S) : Ascending(S)[i] = x
  <1> DEFINE n == Cardinality(S)
             R(x) == Cardinality({y \in S : y <= x})
             r == [x \in S |-> R(x)]
             a == Ascending(S)
  <1>1. n \in Nat
    BY FS_CardinalityType
  <1>2. \A x \in S : R(x) \in 1..n
    <2> TAKE x \in S
    <2> DEFINE A == {y \in S : y <= x}
    <2>1. A \subseteq S /\ A # {}
      OBVIOUS
    <2> HIDE DEF A
    <2>2. IsFiniteSet(A) /\ Cardinality(A) <= n
      BY <2>1, FS_Subset
    <2>3. Cardinality(A) \in Nat /\ Cardinality(A) # 0
      BY <2>1, <2>2, FS_CardinalityType, FS_EmptySet
    <2>4. Cardinality(A) \in 1..n
      BY <1>1, <2>2, <2>3
    <2>. QED BY <2>4 DEF A
  <1>3. \A x, z \in S : R(x) = R(z) => x = z
    <2> SUFFICES ASSUME NEW x \in S, NEW z \in S, x # z PROVE R(x) # R(z)
      OBVIOUS
    <2>1. R(x) < R(z) \/ R(z) < R(x)
      <3>1. x \in Nat /\ z \in Nat
        OBVIOUS
      <3>2. x < z \/ z < x
        BY <3>1
      <3> HIDE DEF R
      <3>. QED BY <3>2, RankGrows DEF R
    <2>2. R(x) \in 1..n /\ R(z) \in 1..n
      BY <1>2
    <2> HIDE DEF R
    <2>. QED BY <1>1, <2>1, <2>2
  <1> HIDE DEF R, n
  <1>4. r \in Injection(S, 1..n)
    BY <1>2, <1>3 DEF Injection, IsInjective
  <1>5. IsFiniteSet(1..n) /\ Cardinality(1..n) = n
    <2>1. n \in Int /\ 1 \in Int /\ (n = 0 \/ n >= 1)
      BY <1>1
    <2>2. IsFiniteSet(1..n) /\ Cardinality(1..n) = IF 1 > n THEN 0 ELSE n - 1 + 1
      BY <2>1, FS_Interval
    <2>. QED BY <1>1, <2>1, <2>2
  <1>6. r \in Surjection(S, 1..n)
    BY <1>4, <1>5, FS_Injection DEF n
  <1>7. \A i \in 1..n : \E x \in S : R(x) = i
    BY <1>6 DEF Surjection
  <1>8. a = [i \in 1..n |-> CHOOSE x \in S : R(x) = i]
    BY DEF Ascending, R, n
  <1> HIDE DEF a, r
  <1>9. \A i \in 1..n : a[i] \in S /\ R(a[i]) = i
    BY <1>7, <1>8
  <1>10. a \in [1..n -> S]
    BY <1>8, <1>9
  <1>11. a \in Seq(S) /\ Len(a) = n
    BY <1>1, <1>10
  <1>12. \A i, j \in 1..n : a[i] = a[j] => i = j
    BY <1>9
  <1>13. \A x \in S : a[R(x)] = x /\ R(x) \in 1..n
    BY <1>2, <1>3, <1>9
  <1>. QED BY <1>1, <1>11, <1>12, <1>13 DEF a, n

\* What a domain is before and after the merge.
Vectors == {m \in VectorsType : Len(m.point_indices) = Len(m.inner_point)}

\* No point is twice in what is merged, and the polynomial points come first.
PolynomialFirst(m) == IsPrefix(Poly, m.point_indices) /\ IsInjective(m.point_indices)

\* The polynomial points come first, in their order, and no point comes twice.
LEMMA MergedPoints ==
  ASSUME NEW d, d.points \subseteq Mixed, IsFiniteSet(d.points), d.inner \subseteq d.points
  PROVE  /\ Merged(d) \in Vectors
         /\ PolynomialFirst(Merged(d))
         /\ \A k \in Indices(d.points) :
              \E i \in 1..Len(Merged(d).point_indices) : Merged(d).point_indices[i] = k
  <1> DEFINE S == Indices(d.points) \ PolyIndices
             a == Ascending(S)
             all == Poly \o a
             flags == [i \in 1..Len(all) |-> Value(all[i]) \in d.inner]
             grads == {p \in d.inner : p.grad}
  <1>1. Merged(d) = [point_indices |-> all, inner_point |-> flags, inner_grad |-> grads]
    BY DEF Merged
  <1>2. Poly \in Seq(Nat) /\ \A i, j \in 1..Len(Poly) : Poly[i] = Poly[j] => i = j
    BY PolyAssumption DEF IsInjective
  <1>3. S \subseteq Nat /\ IsFiniteSet(S)
    <2>1. Indices(d.points) \subseteq Nat
      BY DEF Indices, Mixed
    <2>2. IsFiniteSet({q \in d.points : ~q.grad})
      BY FS_Subset
    <2>3. IsFiniteSet(Indices(d.points))
      <3> DEFINE T == {q \in d.points : ~q.grad}
                 f == [q \in T |-> q.index]
      <3>1. f \in Surjection(T, Indices(d.points))
        BY DEF Surjection, Indices
      <3> HIDE DEF T, f
      <3>. QED BY <2>2, <3>1, FS_Surjection DEF T
    <2>. QED BY <2>1, <2>3, FS_Difference
  <1>4. /\ a \in Seq(S) /\ Len(a) \in Nat
        /\ \A i, j \in 1..Len(a) : a[i] = a[j] => i = j
        /\ \A x \in S : \E i \in 1..Len(a) : a[i] = x
    <2> HIDE DEF S
    <2>. QED BY <1>3, AscendingLists
  <1>5. \A x \in S : \A i \in 1..Len(Poly) : Poly[i] # x
    BY DEF PolyIndices
  <1>6. \A k \in Indices(d.points) : k \in S \/ \E i \in 1..Len(Poly) : Poly[i] = k
    BY DEF PolyIndices
  <1> HIDE DEF S, a
  <1>7. a \in Seq(Nat)
    <2>1. a = [i \in 1..Len(a) |-> a[i]] /\ \A i \in 1..Len(a) : a[i] \in Nat
      BY <1>3, <1>4
    <2>. QED BY <1>4, <2>1
  <1>8. /\ all \in Seq(Nat) /\ Len(all) = Len(Poly) + Len(a)
        /\ \A i \in 1..Len(Poly) : all[i] = Poly[i]
        /\ \A i \in 1..Len(a) : all[Len(Poly) + i] = a[i]
    BY <1>2, <1>7
  <1>9. \A i \in 1..Len(all) : i \in 1..Len(Poly) \/ \E j \in 1..Len(a) : i = Len(Poly) + j
    <2> SUFFICES ASSUME NEW i \in 1..Len(all), i \notin 1..Len(Poly)
                 PROVE  i - Len(Poly) \in 1..Len(a) /\ i = Len(Poly) + (i - Len(Poly))
      OBVIOUS
    <2>. QED BY <1>2, <1>4, <1>8
  <1> HIDE DEF all
  <1>10. \A i, j \in 1..Len(all) : all[i] = all[j] => i = j
    <2> SUFFICES ASSUME NEW i \in 1..Len(all), NEW j \in 1..Len(all), all[i] = all[j]
                 PROVE  i = j
      OBVIOUS
    <2>1. CASE i \in 1..Len(Poly) /\ j \in 1..Len(Poly)
      BY <1>2, <1>8, <2>1
    <2>2. CASE \E k \in 1..Len(a) : i = Len(Poly) + k
      <3>1. PICK k \in 1..Len(a) : i = Len(Poly) + k
        BY <2>2
      <3>2. all[i] = a[k] /\ a[k] \in S
        <4>1. all[i] = a[k]
          BY <1>8, <3>1
        <4>2. a[k] \in S
          BY <1>4
        <4>. QED BY <4>1, <4>2
      <3>3. PICK l \in 1..Len(a) : j = Len(Poly) + l
        <4>1. all[j] \in S
          BY <3>2
        <4>2. j \notin 1..Len(Poly)
          BY <1>5, <1>8, <4>1
        <4>. QED BY <1>9, <4>2
      <3>4. all[j] = a[l]
        BY <1>8, <3>3
      <3>5. l = k
        BY <1>4, <3>2, <3>4
      <3>. QED BY <3>1, <3>3, <3>5
    <2>3. CASE \E k \in 1..Len(a) : j = Len(Poly) + k
      <3>1. PICK k \in 1..Len(a) : j = Len(Poly) + k
        BY <2>3
      <3>2. all[j] = a[k] /\ a[k] \in S
        <4>1. all[j] = a[k]
          BY <1>8, <3>1
        <4>2. a[k] \in S
          BY <1>4
        <4>. QED BY <4>1, <4>2
      <3>3. PICK l \in 1..Len(a) : i = Len(Poly) + l
        BY <1>5, <1>8, <1>9, <3>2
      <3>4. all[i] = a[l]
        BY <1>8, <3>3
      <3>5. l = k
        BY <1>4, <3>2, <3>4
      <3>. QED BY <3>1, <3>3, <3>5
    <2>. QED BY <1>9, <2>1, <2>2, <2>3
  <1>11. IsPrefix(Poly, all)
    <2>1. Len(Poly) \in Nat /\ Len(all) \in Nat /\ Len(Poly) <= Len(all)
      BY <1>2, <1>4, <1>8
    <2>2. SubSeq(Poly, 1, Len(Poly)) = SubSeq(all, 1, Len(Poly))
      BY <1>2, <1>8, <2>1
    <2>. QED BY <2>1, <2>2 DEF IsPrefix
  <1>12. IsInjective(all)
    BY <1>8, <1>10 DEF IsInjective
  <1>13. \A k \in Indices(d.points) : \E i \in 1..Len(all) : all[i] = k
    <2> SUFFICES ASSUME NEW k \in Indices(d.points) PROVE \E i \in 1..Len(all) : all[i] = k
      OBVIOUS
    <2>1. CASE k \in S
      <3>1. PICK i \in 1..Len(a) : a[i] = k
        BY <1>4, <2>1
      <3>2. Len(Poly) \in Nat /\ Len(Poly) + i \in 1..Len(all)
        <4>1. Len(Poly) \in Nat /\ Len(a) \in Nat /\ Len(all) = Len(Poly) + Len(a)
          BY <1>2, <1>4, <1>8
        <4>. QED BY <4>1
      <3>. QED BY <1>8, <3>1, <3>2
    <2>2. CASE \E i \in 1..Len(Poly) : Poly[i] = k
      BY <1>2, <1>4, <1>8, <2>2
    <2>. QED BY <1>6, <2>1, <2>2
  <1>14. flags \in Seq(BOOLEAN) /\ Len(flags) = Len(all) /\ grads \in SUBSET Mixed
    BY <1>8
  <1> HIDE DEF flags, grads
  <1>. QED BY <1>1, <1>8, <1>11, <1>12, <1>13, <1>14 DEF Vectors, VectorsType, PolynomialFirst

\* The flags of a merged domain say what was inner before.
LEMMA MergedInner ==
  ASSUME NEW d, d.points \subseteq Mixed, IsFiniteSet(d.points), d.inner \subseteq d.points
  PROVE  InnerOf(Merged(d)) = d.inner
  <1> DEFINE m == Merged(d)
             all == Poly \o Ascending(Indices(d.points) \ PolyIndices)
  <1>1. m = [point_indices |-> all,
             inner_point |-> [i \in 1..Len(all) |-> Value(all[i]) \in d.inner],
             inner_grad |-> {p \in d.inner : p.grad}]
    BY DEF Merged
  <1> HIDE DEF all
  <1>2. m.point_indices \in Seq(Nat) /\ Len(m.inner_point) = Len(m.point_indices)
    BY MergedPoints DEF Vectors, VectorsType
  <1>3. \A i \in 1..Len(m.inner_point) : m.inner_point[i] <=> Value(m.point_indices[i]) \in d.inner
    <2>1. /\ m.point_indices = all
          /\ m.inner_point = [i \in 1..Len(all) |-> Value(all[i]) \in d.inner]
      BY <1>1
    <2> HIDE DEF m
    <2>. QED BY <1>2, <2>1
  <1>4. m.inner_grad = {p \in d.inner : p.grad}
    BY <1>1
  <1>5. \A k \in Indices(d.points) : \E i \in 1..Len(m.inner_point) : m.point_indices[i] = k
    BY <1>2, MergedPoints
  <1>6. \A p \in d.inner : p.grad \/ (p.index \in Indices(d.points) /\ Value(p.index) = p)
    BY DEF Indices, Value, Mixed
  <1> HIDE DEF m
  <1>7. InnerOf(m) \subseteq d.inner
    BY <1>3, <1>4 DEF InnerOf
  <1>8. ASSUME NEW p \in d.inner PROVE p \in InnerOf(m)
    <2>1. CASE p.grad
      BY <1>4, <2>1 DEF InnerOf
    <2>2. CASE p.index \in Indices(d.points) /\ Value(p.index) = p
      <3>1. PICK i \in 1..Len(m.inner_point) : m.point_indices[i] = p.index
        BY <1>5, <2>2
      <3>2. m.inner_point[i]
        BY <1>3, <2>2, <3>1
      <3>. QED BY <2>2, <3>1, <3>2 DEF InnerOf
    <2>. QED BY <1>6, <2>1, <2>2
  <1>. QED BY <1>7, <1>8 DEF m

\* The sets of inner points, of the domains that are merged and of those that are not.
MergeSets(m, k) == [i \in 1..Len(m) |-> InnerOf(m[i])] \o [i \in 1..Len(k) |-> k[i].inner]

LEMMA MergeSetsAre ==
  ASSUME NEW m \in Seq(Vectors), NEW k \in Seq(Domains)
  PROVE  LET s == MergeSets(m, k) IN
         /\ s \in Seq({InnerOf(v) : v \in Vectors} \cup SUBSET root)
         /\ Len(s) = Len(m) + Len(k)
         /\ \A i \in 1..Len(m) : s[i] = InnerOf(m[i])
         /\ \A i \in 1..Len(k) : s[Len(m) + i] = k[i].inner
  <1> DEFINE U == {InnerOf(v) : v \in Vectors} \cup SUBSET root
             a == [i \in 1..Len(m) |-> InnerOf(m[i])]
             b == [i \in 1..Len(k) |-> k[i].inner]
  <1>1. a \in Seq(U) /\ Len(a) = Len(m) /\ \A i \in 1..Len(m) : a[i] = InnerOf(m[i])
    OBVIOUS
  <1>2. b \in Seq(U) /\ Len(b) = Len(k) /\ \A i \in 1..Len(k) : b[i] = k[i].inner
    <2>1. \A i \in 1..Len(k) : k[i] \in Domains
      OBVIOUS
    <2>2. \A i \in 1..Len(k) : k[i].inner \in U
      BY <2>1 DEF Domains
    <2>. QED BY <2>2
  <1>3. MergeSets(m, k) = a \o b
    BY DEF MergeSets
  <1> HIDE DEF U, a, b
  <1>4. /\ a \o b \in Seq(U) /\ Len(a \o b) = Len(a) + Len(b)
        /\ \A i \in 1..Len(a) : (a \o b)[i] = a[i]
        /\ \A i \in 1..Len(b) : (a \o b)[Len(a) + i] = b[i]
    <2>1. a \in Seq(U) /\ b \in Seq(U)
      BY <1>1, <1>2
    <2>. QED BY <2>1
  <1>. QED BY <1>1, <1>2, <1>3, <1>4 DEF U

\* Merging the first domain of the list changes none of these sets.
LEMMA MergeKeepsSets ==
  ASSUME NEW m \in Seq(Vectors), NEW k \in Seq(Domains), k # <<>>,
         NEW v \in Vectors, InnerOf(v) = Head(k).inner
  PROVE  MergeSets(Append(m, v), Tail(k)) = MergeSets(m, k)
  <1> DEFINE s == MergeSets(m, k)
             m2 == Append(m, v)
             k2 == Tail(k)
             t == MergeSets(m2, k2)
             U == {InnerOf(w) : w \in Vectors} \cup SUBSET root
  <1>1. /\ m2 \in Seq(Vectors) /\ Len(m2) = Len(m) + 1
        /\ \A i \in 1..Len(m) : m2[i] = m[i]
        /\ m2[Len(m) + 1] = v
    OBVIOUS
  <1>2. /\ k2 \in Seq(Domains) /\ Len(k2) = Len(k) - 1 /\ Head(k) = k[1]
        /\ \A i \in 1..Len(k2) : k2[i] = k[i + 1]
        /\ Len(k) \in Nat /\ Len(k) >= 1 /\ Len(m) \in Nat
    OBVIOUS
  <1> HIDE DEF m2, k2
  <1>3. /\ s \in Seq(U) /\ Len(s) = Len(m) + Len(k)
        /\ \A i \in 1..Len(m) : s[i] = InnerOf(m[i])
        /\ \A i \in 1..Len(k) : s[Len(m) + i] = k[i].inner
    BY MergeSetsAre
  <1>4. /\ t \in Seq(U) /\ Len(t) = Len(m2) + Len(k2)
        /\ \A i \in 1..Len(m2) : t[i] = InnerOf(m2[i])
        /\ \A i \in 1..Len(k2) : t[Len(m2) + i] = k2[i].inner
    BY <1>1, <1>2, MergeSetsAre
  <1> HIDE DEF s, t, U
  <1>5. Len(s) = Len(t)
    BY <1>1, <1>2, <1>3, <1>4
  <1>6. ASSUME NEW i \in 1..Len(s) PROVE s[i] = t[i]
    <2>1. CASE i \in 1..Len(m)
      BY <1>1, <1>2, <1>3, <1>4, <2>1
    <2>2. CASE i = Len(m) + 1
      <3>1. 1 \in 1..Len(k) /\ i \in 1..Len(m2)
        BY <1>1, <1>2, <2>2
      <3>2. s[i] = k[1].inner /\ t[i] = InnerOf(v)
        BY <1>1, <1>3, <1>4, <2>2, <3>1
      <3>. QED BY <1>2, <3>2
    <2>3. CASE i > Len(m) + 1
      <3> DEFINE j == i - Len(m) - 1
      <3>1. j \in 1..Len(k2) /\ j + 1 \in 1..Len(k) /\ i = Len(m) + (j + 1) /\ i = Len(m2) + j
        BY <1>1, <1>2, <1>3, <2>3
      <3> HIDE DEF j
      <3>2. s[i] = k[j + 1].inner /\ t[i] = k2[j].inner
        BY <1>3, <1>4, <3>1
      <3>. QED BY <1>2, <3>1, <3>2
    <2>4. i \in Nat /\ i >= 1
      BY <1>3
    <2>. QED BY <1>2, <2>1, <2>2, <2>3, <2>4
  <1>7. s = t
    BY <1>3, <1>4, <1>5, <1>6, SeqEqual
  <1>. QED BY <1>7 DEF s, t, m2, k2

\* Nothing is merged before the division has ended, and then no set of inner
\* points changes.
MergeInv ==
  /\ merged \in Seq(Vectors)
  /\ \A i \in 1..Len(merged) : PolynomialFirst(merged[i])
  /\ pc = "divide" => merged = <<>>
  /\ pc # "divide" =>
       /\ \A p \in root : InOne(p, MergeSets(merged, kept))
       /\ \A i \in 1..(Len(merged) + Len(kept)) : MergeSets(merged, kept)[i] \subseteq root

LEMMA MergeInit == Init => MergeInv
  BY DEF Init, MergeInv

LEMMA MergeNext == Inv /\ MergeInv /\ [Next]_vars => MergeInv'
  <1> SUFFICES ASSUME Inv, MergeInv, [Next]_vars PROVE MergeInv'
    OBVIOUS
  <1>0. /\ Typed /\ kept \in Seq(Domains) /\ rest \in Seq(Domains)
        /\ merged \in Seq(Vectors) /\ root \subseteq Mixed /\ IsFiniteSet(root)
    BY RootsAssumption DEF Inv, Typed, Domains, MergeInv
  <1>1. CASE KeepOne \/ DivideOne
    BY <1>1 DEF KeepOne, DivideOne, MergeInv
  <1>2. CASE BeginMerge
    <2>1. /\ pc = "divide" /\ rest = <<>> /\ pc' = "merge" /\ merged = <<>>
          /\ UNCHANGED <<root, kept, rest, merged>>
      BY <1>2 DEF BeginMerge, MergeInv
    <2>2. kept \o rest = kept
      BY <1>0, <2>1
    <2>3. \A p \in root : InOne(p, InnerSets(kept))
      BY <2>1, <2>2 DEF Inv, InnerOnceDivided, InnerSets
    <2>4. /\ InnerSets(kept) \in Seq(SUBSET root) /\ Len(InnerSets(kept)) = Len(kept)
          /\ \A i \in 1..Len(kept) : InnerSets(kept)[i] \subseteq root
      <3>1. \A i \in 1..Len(kept) : kept[i] \in Domains
        BY <1>0
      <3>2. \A i \in 1..Len(kept) : kept[i].inner \in SUBSET root
        BY <3>1 DEF Domains
      <3>. QED BY <1>0, <3>2 DEF InnerSets
    <2>5. MergeSets(merged, kept) = InnerSets(kept)
      BY <2>1, <2>4 DEF MergeSets, InnerSets
    <2>6. Len(merged) + Len(kept) = Len(kept)
      BY <1>0, <2>1
    <2>. QED BY <1>0, <2>1, <2>3, <2>4, <2>5, <2>6 DEF MergeInv
  <1>3. CASE MergeOne
    <2> DEFINE d == Head(kept)
               v == Merged(d)
    <2>1. /\ pc = "merge" /\ kept # <<>> /\ merged' = Append(merged, v) /\ kept' = Tail(kept)
          /\ UNCHANGED <<root, pc>>
      BY <1>3 DEF MergeOne
    <2>2. d \in Domains /\ d.inner \subseteq d.points
      BY <1>0, <2>1, HeadTail DEF Typed
    <2>3. d.points \subseteq Mixed /\ IsFiniteSet(d.points)
      BY <1>0, <2>2, FS_Subset DEF Domains
    <2> HIDE DEF d
    <2>4. v \in Vectors /\ PolynomialFirst(v) /\ InnerOf(v) = d.inner
      BY <2>2, <2>3, MergedPoints, MergedInner
    <2> HIDE DEF v
    <2>5. MergeSets(merged', kept') = MergeSets(merged, kept)
      BY <1>0, <2>1, <2>4, MergeKeepsSets DEF d
    <2>6. Len(merged') + Len(kept') = Len(merged) + Len(kept)
      BY <1>0, <2>1
    <2>7. merged' \in Seq(Vectors) /\ \A i \in 1..Len(merged') : PolynomialFirst(merged'[i])
      BY <1>0, <2>1, <2>4 DEF MergeInv
    <2>8. /\ \A p \in root : InOne(p, MergeSets(merged', kept'))
          /\ \A i \in 1..(Len(merged') + Len(kept')) : MergeSets(merged', kept')[i] \subseteq root
      BY <2>1, <2>5, <2>6 DEF MergeInv
    <2>. QED BY <2>1, <2>7, <2>8 DEF MergeInv
  <1>4. CASE EndMerge
    BY <1>4 DEF EndMerge, MergeInv
  <1>5. CASE UNCHANGED vars
    BY <1>5 DEF vars, MergeInv
  <1>. QED BY <1>1, <1>2, <1>3, <1>4, <1>5 DEF Next

\* DomainDivider::merge_poly_points: merging the polynomial points into domains that
\* have not had them leaves each point inner in exactly one domain, gives no domain
\* an inner point from outside the level, puts the polynomial points first and in
\* their order, and puts no point into a domain twice.
THEOREM MergedOnce == Spec => []InnerOnce
  <1>1. ASSUME Inv, MergeInv PROVE InnerOnce
    <2> DEFINE s == MergeSets(merged, kept)
    <2>1. Len(s) = Len(merged) + Len(kept)
      <3>1. kept \in Seq(Domains) /\ merged \in Seq(Vectors)
        BY <1>1 DEF Inv, Typed, Domains, MergeInv
      <3>. QED BY <3>1, MergeSetsAre
    <2>2. InnerOnce <=>
            (pc # "divide" =>
               /\ \A p \in root : InOne(p, s)
               /\ \A i \in 1..Len(s) : s[i] \subseteq root
               /\ \A i \in 1..Len(merged) : PolynomialFirst(merged[i]))
      BY DEF InnerOnce, MergeSets, PolynomialFirst
    <2> HIDE DEF s
    <2>3. pc # "divide" => (\A p \in root : InOne(p, s)) /\ \A i \in 1..Len(s) : s[i] \subseteq root
      BY <1>1, <2>1 DEF MergeInv, s
    <2>4. \A i \in 1..Len(merged) : PolynomialFirst(merged[i])
      BY <1>1 DEF MergeInv
    <2>. QED BY <2>2, <2>3, <2>4
  <1>2. Inv /\ MergeInv => InnerOnce
    BY <1>1
  <1>. QED BY <1>2, InvInit, InvNext, MergeInit, MergeNext, PTL DEF Spec

\* No domain gets a point from outside the level, none is inner that is not in the
\* domain, and the flags of a merged domain are as many as its points.
THEOREM DomainsInLevel == Spec => []TypeOK
  <1>1. Inv /\ MergeInv => TypeOK
    <2> SUFFICES ASSUME Inv, MergeInv PROVE TypeOK
      OBVIOUS
    <2>1. ASSUME NEW list \in Seq(Domains), NEW i \in 1..Len(list)
          PROVE  list[i].points \subseteq root
      <3>1. list[i] \in Domains
        OBVIOUS
      <3>. QED BY <3>1 DEF Domains
    <2>2. kept \in Seq(Domains) /\ rest \in Seq(Domains)
      BY DEF Inv, Typed, Domains
    <2>3. \A i \in 1..Len(merged) : merged[i] \in Vectors
      BY DEF MergeInv
    <2>. QED BY <2>1, <2>2, <2>3 DEF Inv, Typed, TypeOK, Vectors
  <1>. QED BY <1>1, InvInit, InvNext, MergeInit, MergeNext, PTL DEF Spec

-----------------------------------------------------------------------------
(***************************************************************************)
(* The coarse points.  What a turn of the loop preserves is that clusters  *)
(* are disjoint and hold their centers, so that no two share a center.     *)
(***************************************************************************)

\* Clusters as the queue holds them: no two of them share a point.
GoodQueue(queue) ==
  /\ IsFiniteSet(queue)
  /\ \A c \in queue : /\ c = [level |-> c.level, points |-> c.points, center |-> c.center]
                      /\ c.points \subseteq CoarseSet /\ c.center \in c.points
  /\ \A c, d \in queue : c # d => c.points \cap d.points = {}

\* The points of the clusters of a queue.
PointsOf(queue) == UNION {c.points : c \in queue}

\* Clusters of levels at most two apart.
Close(queue) ==
  /\ \A c \in queue : c.level \in Int
  /\ \A c, d \in queue : c.level <= d.level + 2

\* What the loop of choose_coarse_points keeps.  A size beyond the wanted one is
\* that of the last split, which replaces a center by at most two.
CoarseInv ==
  /\ wanted \in Nat
  /\ coarsePc \in {"split", "done"}
  /\ coarsePc = "split" =>
       /\ GoodQueue(clusters)
       /\ PointsOf(clusters) = RootPoints
       /\ size = QueueSize(clusters)
       /\ wanted > 0 => size <= wanted + 2 * GradMult - 2
  /\ Close(clusters)
  /\ CoarseSize

\* A point is one of a queue if a cluster has it.
LEMMA PointOf == \A Q, p : p \in PointsOf(Q) <=> \E c \in Q : p \in c.points
  BY DEF PointsOf

\* A finite queue counts as the numbers of its centers without and with a gradient.
LEMMA QueueSizeType ==
  ASSUME NEW Q, IsFiniteSet(Q)
  PROVE  /\ IsFiniteSet({c \in Q : ~c.center.grad}) /\ IsFiniteSet({c \in Q : c.center.grad})
         /\ Cardinality({c \in Q : ~c.center.grad}) \in Nat
         /\ Cardinality({c \in Q : c.center.grad}) \in Nat
         /\ QueueSize(Q) \in Nat
  <1>1. IsFiniteSet({c \in Q : ~c.center.grad}) /\ IsFiniteSet({c \in Q : c.center.grad})
    BY FS_Subset
  <1>2. Cardinality({c \in Q : ~c.center.grad}) \in Nat
          /\ Cardinality({c \in Q : c.center.grad}) \in Nat
    BY <1>1, FS_CardinalityType
  <1>. QED BY <1>1, <1>2, GradMultAssumption DEF QueueSize

\* The number of elements of two disjoint finite sets.
LEMMA DisjointCount ==
  ASSUME NEW S, NEW T, IsFiniteSet(S), IsFiniteSet(T), S \cap T = {}
  PROVE  /\ IsFiniteSet(S \cup T)
         /\ Cardinality(S) \in Nat /\ Cardinality(T) \in Nat
         /\ Cardinality(S \cup T) = Cardinality(S) + Cardinality(T)
  <1>1. IsFiniteSet(S \cup T)
          /\ Cardinality(S \cup T) = Cardinality(S) + Cardinality(T) - Cardinality({})
    BY FS_Union
  <1>2. Cardinality(S) \in Nat /\ Cardinality(T) \in Nat /\ Cardinality({}) = 0
    BY FS_CardinalityType, FS_EmptySet
  <1>. QED BY <1>1, <1>2

\* The size of two queues that have no cluster in common is the sum of theirs.
LEMMA QueueSizeSum ==
  ASSUME NEW Q, NEW R, IsFiniteSet(Q), IsFiniteSet(R), Q \cap R = {}
  PROVE  QueueSize(Q \cup R) = QueueSize(Q) + QueueSize(R)
  <1> DEFINE QP == {c \in Q : ~c.center.grad}
             RP == {c \in R : ~c.center.grad}
             QG == {c \in Q : c.center.grad}
             RG == {c \in R : c.center.grad}
  <1>1. IsFiniteSet(QP) /\ IsFiniteSet(RP) /\ IsFiniteSet(QG) /\ IsFiniteSet(RG)
    BY QueueSizeType
  <1>2. /\ {c \in Q \cup R : ~c.center.grad} = QP \cup RP
        /\ {c \in Q \cup R : c.center.grad} = QG \cup RG
    OBVIOUS
  <1>3. QP \cap RP = {} /\ QG \cap RG = {}
    OBVIOUS
  <1>4. /\ QueueSize(Q \cup R) = Cardinality(QP \cup RP) + GradMult * Cardinality(QG \cup RG)
        /\ QueueSize(Q) = Cardinality(QP) + GradMult * Cardinality(QG)
        /\ QueueSize(R) = Cardinality(RP) + GradMult * Cardinality(RG)
    BY <1>2 DEF QueueSize
  <1> HIDE DEF QP, RP, QG, RG
  <1>5. /\ Cardinality(QP) \in Nat /\ Cardinality(RP) \in Nat
        /\ Cardinality(QP \cup RP) = Cardinality(QP) + Cardinality(RP)
    BY <1>1, <1>3, DisjointCount
  <1>6. /\ Cardinality(QG) \in Nat /\ Cardinality(RG) \in Nat
        /\ Cardinality(QG \cup RG) = Cardinality(QG) + Cardinality(RG)
    BY <1>1, <1>3, DisjointCount
  <1>. QED BY <1>4, <1>5, <1>6, GradMultAssumption

\* A queue of one cluster has the multiplicity of its center, an empty one none.
LEMMA QueueSizeOne ==
  /\ QueueSize({}) = 0
  /\ \A c : c.center.grad \in BOOLEAN =>
       QueueSize({c}) = Multiplicity(c.center) /\ Multiplicity(c.center) \in 1..GradMult
  <1>1. QueueSize({}) = 0
    BY FS_EmptySet, GradMultAssumption DEF QueueSize
  <1>2. ASSUME NEW c, c.center.grad \in BOOLEAN
        PROVE  QueueSize({c}) = Multiplicity(c.center) /\ Multiplicity(c.center) \in 1..GradMult
    <2>1. Cardinality({}) = 0 /\ Cardinality({c}) = 1
      BY FS_EmptySet, FS_Singleton
    <2>2. CASE c.center.grad
      <3>1. {d \in {c} : ~d.center.grad} = {} /\ {d \in {c} : d.center.grad} = {c}
        BY <2>2
      <3>. QED BY <2>1, <2>2, <3>1, GradMultAssumption DEF QueueSize, Multiplicity
    <2>3. CASE ~c.center.grad
      <3>1. {d \in {c} : ~d.center.grad} = {c} /\ {d \in {c} : d.center.grad} = {}
        BY <2>3
      <3>. QED BY <2>1, <2>3, <3>1, GradMultAssumption DEF QueueSize, Multiplicity
    <2>. QED BY <1>2, <2>2, <2>3
  <1>. QED BY <1>1, <1>2

\* Counting the levels anew neither merges clusters nor changes what they hold.
LEMMA FromLowestSame ==
  ASSUME NEW Q, GoodQueue(Q)
  PROVE  /\ GoodQueue(FromLowest(Q))
         /\ PointsOf(FromLowest(Q)) = PointsOf(Q)
         /\ QueueSize(FromLowest(Q)) = QueueSize(Q)
  <1> DEFINE New(c) == [c EXCEPT !.level = c.level - Lowest(Q)]
             f == [c \in Q |-> New(c)]
  <1>1. \A c \in Q : New(c)
          = [level |-> c.level - Lowest(Q), points |-> c.points, center |-> c.center]
    BY DEF GoodQueue
  <1>2. FromLowest(Q) = {New(c) : c \in Q}
    BY DEF FromLowest
  <1> HIDE DEF New
  <1>3. \A c \in Q : New(c).points = c.points /\ New(c).center = c.center
    BY <1>1
  <1>4. \A c, d \in Q : New(c) = New(d) => c = d
    BY <1>3 DEF GoodQueue
  <1>5. GoodQueue(FromLowest(Q))
    <2>1. IsFiniteSet(FromLowest(Q))
      <3>1. f \in Surjection(Q, FromLowest(Q))
        BY <1>2 DEF Surjection
      <3>. QED BY <3>1, FS_Surjection DEF GoodQueue
    <2>2. ASSUME NEW c \in Q
          PROVE  /\ New(c) = [level |-> New(c).level, points |-> New(c).points, center |->
                      New(c).center]
                 /\ New(c).points \subseteq CoarseSet /\ New(c).center \in New(c).points
      BY <1>1 DEF GoodQueue
    <2>3. \A c, d \in Q : New(c) # New(d) => New(c).points \cap New(d).points = {}
      BY <1>3 DEF GoodQueue
    <2>. QED BY <1>2, <2>1, <2>2, <2>3 DEF GoodQueue
  <1>6. PointsOf(FromLowest(Q)) = PointsOf(Q)
    <2>1. ASSUME NEW p PROVE p \in PointsOf(FromLowest(Q)) <=> p \in PointsOf(Q)
      BY <1>2, <1>3, PointOf
    <2>. QED BY <2>1
  <1>7. ASSUME NEW A, A \subseteq Q
        PROVE  Cardinality({New(c) : c \in A}) = Cardinality(A)
    <2> DEFINE g == [c \in A |-> New(c)]
    <2>1. g \in Bijection(A, {New(c) : c \in A})
      BY <1>4, <1>7 DEF Bijection, Injection, Surjection, IsInjective
    <2>2. IsFiniteSet(A)
      BY <1>7, FS_Subset DEF GoodQueue
    <2>. QED BY <2>1, <2>2, FS_Bijection DEF ExistsBijection
  <1>8. /\ {c \in FromLowest(Q) : ~c.center.grad} = {New(c) : c \in {c \in Q : ~c.center.grad}}
        /\ {c \in FromLowest(Q) : c.center.grad} = {New(c) : c \in {c \in Q : c.center.grad}}
    BY <1>2, <1>3
  <1>9. QueueSize(FromLowest(Q)) = QueueSize(Q)
    BY <1>7, <1>8 DEF QueueSize
  <1>. QED BY <1>5, <1>6, <1>9

\* What is pushed for some points: nothing, or one cluster of them.
LEMMA PushedOne ==
  ASSUME NEW S \in SUBSET CoarseSet, NEW level, NEW l \in Pushed(S, level)
  PROVE  /\ GoodQueue(l) /\ PointsOf(l) = S
         /\ QueueSize(l) \in 0..GradMult
  <1>1. CASE S = {}
    <2>1. l = {}
      BY <1>1 DEF Pushed
    <2>2. GoodQueue(l)
      BY <2>1, FS_EmptySet DEF GoodQueue
    <2>3. PointsOf(l) = {}
      BY <2>1, PointOf
    <2>. QED BY <2>1, <2>2, <2>3, <1>1, QueueSizeOne, GradMultAssumption
  <1>2. CASE S # {}
    <2>1. PICK c \in S : l = {Cluster(S, level, c)}
      BY <1>2 DEF Pushed
    <2> DEFINE k == Cluster(S, level, c)
    <2>2. k = [level |-> level, points |-> S, center |-> c]
      BY DEF Cluster
    <2>3. k.level = level /\ k.points = S /\ k.center = c
      BY <2>2
    <2>4. c.grad \in BOOLEAN
      BY CoarseSetAssumption
    <2> HIDE DEF k
    <2>5. IsFiniteSet({k})
      BY FS_Singleton
    <2>6. GoodQueue({k})
      BY <2>2, <2>3, <2>5 DEF GoodQueue
    <2>7. PointsOf({k}) = S
      BY <2>3, PointOf
    <2>8. QueueSize({k}) \in 1..GradMult
      BY <2>3, <2>4, QueueSizeOne
    <2>. QED BY <2>1, <2>6, <2>7, <2>8, GradMultAssumption DEF k
  <1>. QED BY <1>1, <1>2

\* Two good queues of different points are one good queue.
LEMMA JoinQueues ==
  ASSUME NEW Q, NEW R, GoodQueue(Q), GoodQueue(R),
         PointsOf(Q) \cap PointsOf(R) = {}
  PROVE  GoodQueue(Q \cup R) /\ QueueSize(Q \cup R) = QueueSize(Q) + QueueSize(R)
  <1>1. \A c \in Q, d \in R : c.points \cap d.points = {}
    BY PointOf
  <1>2. Q \cap R = {}
    BY <1>1 DEF GoodQueue
  <1>3. IsFiniteSet(Q) /\ IsFiniteSet(R)
    BY DEF GoodQueue
  <1>4. QueueSize(Q \cup R) = QueueSize(Q) + QueueSize(R)
    BY <1>2, <1>3, QueueSizeSum
  <1>5. IsFiniteSet(Q \cup R)
    BY <1>3, FS_Union
  <1>6. \A c, d \in Q \cup R : c # d => c.points \cap d.points = {}
    BY <1>1 DEF GoodQueue
  <1>. QED BY <1>4, <1>5, <1>6 DEF GoodQueue

\* The cluster on top and the rest of the queue.
LEMMA PopQueue ==
  ASSUME NEW Q, GoodQueue(Q), NEW top \in Q
  PROVE  /\ GoodQueue(Q \ {top})
         /\ PointsOf(Q \ {top}) = PointsOf(Q) \ top.points
         /\ QueueSize(Q) = QueueSize(Q \ {top}) + Multiplicity(top.center)
         /\ Multiplicity(top.center) \in 1..GradMult
  <1>1. IsFiniteSet(Q \ {top}) /\ IsFiniteSet({top})
    BY FS_RemoveElement, FS_Singleton DEF GoodQueue
  <1>2. GoodQueue(Q \ {top})
    BY <1>1 DEF GoodQueue
  <1>3. PointsOf(Q \ {top}) = PointsOf(Q) \ top.points
    <2>1. ASSUME NEW p PROVE p \in PointsOf(Q \ {top}) <=> p \in PointsOf(Q) /\ p \notin top.points
      <3>1. \A c \in Q : p \in c.points /\ p \in top.points => c = top
        BY DEF GoodQueue
      <3>. QED BY <3>1, PointOf
    <2>. QED BY <2>1
  <1>4. (Q \ {top}) \cap {top} = {} /\ Q = (Q \ {top}) \cup {top}
    OBVIOUS
  <1>5. QueueSize(Q) = QueueSize(Q \ {top}) + QueueSize({top})
    BY <1>1, <1>4, QueueSizeSum
  <1>6. top.center.grad \in BOOLEAN
    BY CoarseSetAssumption DEF GoodQueue
  <1>7. /\ QueueSize({top}) = Multiplicity(top.center)
        /\ Multiplicity(top.center) \in 1..GradMult
    BY <1>6, QueueSizeOne
  <1>. QED BY <1>2, <1>3, <1>5, <1>7

\* The centers of a good queue are as many as it counts: no two are the same point.
LEMMA CentersCounted ==
  ASSUME NEW Q, GoodQueue(Q)
  PROVE  SizeOf({c.center : c \in Q}) = QueueSize(Q)
  <1>1. \A c, d \in Q : c.center = d.center => c = d
    BY DEF GoodQueue
  <1>2. ASSUME NEW A, A \subseteq Q
        PROVE  Cardinality({c.center : c \in A}) = Cardinality(A)
    <2> DEFINE g == [c \in A |-> c.center]
    <2>1. g \in Bijection(A, {c.center : c \in A})
      BY <1>1, <1>2 DEF Bijection, Injection, Surjection, IsInjective
    <2>2. IsFiniteSet(A)
      BY <1>2, FS_Subset DEF GoodQueue
    <2>. QED BY <2>1, <2>2, FS_Bijection DEF ExistsBijection
  <1>3. /\ {p \in {c.center : c \in Q} : ~p.grad} = {c.center : c \in {c \in Q : ~c.center.grad}}
        /\ {p \in {c.center : c \in Q} : p.grad} = {c.center : c \in {c \in Q : c.center.grad}}
    OBVIOUS
  <1>. QED BY <1>2, <1>3 DEF QueueSize, SizeOf

\* With the polynomial points before them, of which none has a gradient.
LEMMA ChosenCounted ==
  ASSUME NEW C \in SUBSET RootPoints
  PROVE  SizeOf(CoarsePoly \cup C) = SizeOf(C) + Cardinality(CoarsePoly)
  <1> DEFINE P == {p \in C : ~p.grad}
             G == {p \in C : p.grad}
  <1>1. CoarsePoly \subseteq CoarseSet /\ C \subseteq CoarseSet
    BY CoarseSetAssumption DEF RootPoints
  <1>2. IsFiniteSet(CoarsePoly) /\ IsFiniteSet(P) /\ IsFiniteSet(G)
    BY <1>1, CoarseSetAssumption, FS_Subset
  <1>3. /\ {p \in CoarsePoly \cup C : ~p.grad} = CoarsePoly \cup P
        /\ {p \in CoarsePoly \cup C : p.grad} = G
    BY CoarseSetAssumption
  <1>4. CoarsePoly \cap P = {}
    BY DEF RootPoints
  <1>5. SizeOf(CoarsePoly \cup C) = Cardinality(CoarsePoly \cup P) + GradMult * Cardinality(G)
    BY <1>3 DEF SizeOf
  <1>6. SizeOf(C) = Cardinality(P) + GradMult * Cardinality(G)
    BY DEF SizeOf
  <1> HIDE DEF P, G
  <1>7. /\ Cardinality(CoarsePoly) \in Nat /\ Cardinality(P) \in Nat
        /\ Cardinality(CoarsePoly \cup P) = Cardinality(CoarsePoly) + Cardinality(P)
    BY <1>2, <1>4, DisjointCount
  <1>8. Cardinality(G) \in Nat
    BY <1>2, FS_CardinalityType
  <1>. QED BY <1>5, <1>6, <1>7, <1>8, GradMultAssumption

\* The top of a queue of close clusters is of the lowest level.
LEMMA LowestOf ==
  ASSUME NEW Q, Close(Q), Q # {}
  PROVE  /\ Lowest(Q) \in Int
         /\ \E c \in Q : c.level = Lowest(Q)
         /\ \A c \in Q : Lowest(Q) <= c.level
  <1> DEFINE levels == {c.level : c \in Q}
  <1>1. PICK b \in Q : TRUE
    OBVIOUS
  <1>2. levels \subseteq Int /\ b.level \in levels
    BY <1>1 DEF Close
  <1>3. \A k \in levels : b.level - 2 <= k
    BY <1>1, <1>2 DEF Close
  <1> HIDE DEF levels
  <1>4. PICK k \in levels : \A j \in levels : k <= j
    <2>1. CASE b.level - 2 \in levels
      BY <2>1, <1>2, <1>3
    <2>2. CASE b.level - 2 \notin levels /\ b.level - 1 \in levels
      <3>1. ASSUME NEW j \in levels PROVE b.level - 1 <= j
        <4>1. j \in Int /\ b.level \in Int /\ b.level - 2 <= j /\ j # b.level - 2
          BY <2>2, <1>2, <1>3
        <4>. QED BY <4>1
      <3>. QED BY <2>2, <3>1
    <2>3. CASE b.level - 2 \notin levels /\ b.level - 1 \notin levels
      <3>1. ASSUME NEW j \in levels PROVE b.level <= j
        <4>1. j \in Int /\ b.level \in Int /\ b.level - 2 <= j
          BY <1>2, <1>3
        <4>2. j # b.level - 2 /\ j # b.level - 1
          BY <2>3
        <4>. QED BY <4>1, <4>2
      <3>. QED BY <1>2, <3>1
    <2>. QED BY <2>1, <2>2, <2>3
  <1>5. Min(levels) \in levels /\ \A j \in levels : Min(levels) <= j
    BY <1>4 DEF Min
  <1>6. Lowest(Q) = Min(levels)
    BY DEF Lowest, levels
  <1>. QED BY <1>2, <1>5, <1>6 DEF levels

\* Counted anew, the levels are as close as they were.
LEMMA FromLowestClose ==
  ASSUME NEW Q, Close(Q), GoodQueue(Q)
  PROVE  Close(FromLowest(Q))
  <1>1. CASE Q = {}
    BY <1>1 DEF FromLowest, Close
  <1>2. CASE Q # {}
    <2> DEFINE New(c) == [c EXCEPT !.level = c.level - Lowest(Q)]
    <2>1. Lowest(Q) \in Int
      BY <1>2, LowestOf
    <2>2. \A c \in Q : New(c).level = c.level - Lowest(Q)
      BY DEF GoodQueue
    <2>3. FromLowest(Q) = {New(c) : c \in Q}
      BY DEF FromLowest
    <2> HIDE DEF New
    <2>. QED BY <2>1, <2>2, <2>3 DEF Close
  <1>. QED BY <1>1, <1>2

\* The clusters made of some points are of the level they are given.
LEMMA PushedLevel ==
  ASSUME NEW S, NEW level, NEW c \in Pushed(S, level)
  PROVE  \A d \in c : d.level = level
  BY DEF Pushed, Cluster

\* A split keeps the clusters close: its halves get the level after the lowest of those that
\* are left, or that of the popped one and its half.
LEMMA SplitClose ==
  ASSUME NEW Q, Close(Q), NEW top \in Q, top.level = Lowest(Q),
         NEW left, NEW right,
         NEW l \in Pushed(left, LevelSeen(Q \ {top}, top) + 1),
         NEW r \in Pushed(right, LevelSeen((Q \ {top}) \cup l, top) + 1)
  PROVE  Close((Q \ {top}) \cup l \cup r)
  <1> DEFINE popped == Q \ {top}
  <1>1. Lowest(Q) \in Int /\ \A c \in Q : Lowest(Q) <= c.level /\ c.level \in Int
    BY LowestOf DEF Close
  <1>2. \A c \in Q : c.level <= Lowest(Q) + 2
    BY DEF Close
  <1>3. /\ \A d \in l : d.level = LevelSeen(popped, top) + 1
        /\ \A d \in r : d.level = LevelSeen(popped \cup l, top) + 1
    BY PushedLevel
  <1>4. CASE popped = {}
    <2>1. LevelSeen(popped, top) = Lowest(Q)
      BY <1>4 DEF LevelSeen
    <2>2. \A d \in l : d.level = Lowest(Q) + 1
      BY <1>3, <2>1
    <2>3. Close(l)
      BY <1>1, <2>2 DEF Close
    <2>4. LevelSeen(popped \cup l, top) \in {Lowest(Q), Lowest(Q) + 1}
      <3>1. CASE l = {}
        BY <1>4, <3>1 DEF LevelSeen
      <3>2. CASE l # {}
        <4>1. popped \cup l = l
          BY <1>4
        <4>. QED BY <3>2, <4>1, <2>2, <2>3, LowestOf DEF LevelSeen
      <3>. QED BY <3>1, <3>2
    <2>5. \A d \in r : d.level = Lowest(Q) + 1 \/ d.level = Lowest(Q) + 1 + 1
      BY <1>3, <2>4
    <2>6. \A d \in l \cup r : d.level = Lowest(Q) + 1 \/ d.level = Lowest(Q) + 1 + 1
      BY <2>2, <2>5
    <2>7. popped \cup l \cup r = l \cup r
      BY <1>4
    <2>. QED BY <1>1, <2>6, <2>7 DEF Close
  <1>5. CASE popped # {}
    <2>1. Close(popped)
      BY DEF Close
    <2> DEFINE k == Lowest(popped)
    <2>2. k \in Int /\ Lowest(Q) <= k /\ \A c \in popped : k <= c.level
      BY <1>1, <1>5, <2>1, LowestOf
    <2>3. \A d \in l : d.level = k + 1
      BY <1>3, <1>5 DEF LevelSeen
    <2> HIDE DEF k
    <2>4. ASSUME NEW c \in popped PROVE c.level \in Int /\ k <= c.level /\ c.level <= k + 2
      <3>1. c.level \in Int /\ Lowest(Q) \in Int /\ k \in Int /\ Lowest(Q) <= k /\ k <= c.level
        BY <1>1, <2>2
      <3>2. c.level <= Lowest(Q) + 2
        BY <1>2
      <3>. QED BY <3>1, <3>2
    <2>5. Close(popped \cup l)
      <3>1. ASSUME NEW c \in popped \cup l PROVE c.level \in Int /\ k <= c.level /\ c.level <= k + 2
        <4>1. CASE c \in popped
          BY <2>4, <4>1
        <4>2. CASE c \in l
          BY <2>2, <2>3, <4>2
        <4>. QED BY <4>1, <4>2
      <3>. QED BY <2>2, <3>1 DEF Close
    <2>6. Lowest(popped \cup l) = k
      <3>1. PICK c \in popped : c.level = k
        BY <1>5, <2>1, LowestOf DEF k
      <3>2. /\ Lowest(popped \cup l) \in Int
            /\ \E d \in popped \cup l : d.level = Lowest(popped \cup l)
            /\ Lowest(popped \cup l) <= c.level
        BY <1>5, <2>5, LowestOf
      <3>3. PICK d \in popped \cup l : d.level = Lowest(popped \cup l)
        BY <3>2
      <3>4. k <= d.level
        BY <2>2, <2>3
      <3>. QED BY <2>2, <3>1, <3>2, <3>3, <3>4
    <2>7. \A d \in r : d.level = k + 1
      <3>1. popped \cup l # {}
        BY <1>5
      <3>. QED BY <1>3, <2>6, <3>1 DEF LevelSeen
    <2>8. ASSUME NEW c \in popped \cup l \cup r PROVE c.level \in Int /\ k <= c.level
                   /\ c.level <= k + 2
      <3>1. CASE c \in popped
        BY <2>4, <3>1
      <3>2. CASE c \in l \cup r
        BY <2>2, <2>3, <2>7, <3>2
      <3>. QED BY <3>1, <3>2
    <2> HIDE DEF popped
    <2>. QED
      <3>1. Close(popped \cup l \cup r)
        BY <2>2, <2>8 DEF Close
      <3>. QED BY <3>1 DEF popped
  <1>. QED BY <1>4, <1>5

LEMMA CoarseInvInit == CoarseInit => CoarseInv
  <1> SUFFICES ASSUME CoarseInit PROVE CoarseInv
    OBVIOUS
  <1>1. PICK c \in RootPoints :
          clusters = {Cluster(RootPoints, 0, c)} /\ size = Multiplicity(c)
    BY DEF CoarseInit
  <1>2. clusters \in Pushed(RootPoints, 0) /\ RootPoints \in SUBSET CoarseSet
    BY <1>1 DEF Pushed, RootPoints
  <1>3. GoodQueue(clusters) /\ PointsOf(clusters) = RootPoints
    BY <1>2, PushedOne
  <1>4. Cluster(RootPoints, 0, c).center = c /\ c.grad \in BOOLEAN
    BY CoarseSetAssumption DEF Cluster, RootPoints
  <1>5. size = QueueSize(clusters) /\ size \in 1..GradMult
    BY <1>1, <1>4, QueueSizeOne
  <1>6. wanted \in Nat /\ coarsePc = "split"
    BY WantedAssumption DEF CoarseInit
  <1>7. wanted > 0 => size <= wanted + 2 * GradMult - 2
    BY <1>5, <1>6, GradMultAssumption
  <1>8. Close(clusters)
    BY <1>1 DEF Close, Cluster
  <1>. QED BY <1>3, <1>5, <1>6, <1>7, <1>8 DEF CoarseInv, CoarseSize

LEMMA CoarseInvNext == CoarseInv /\ [CoarseNext]_coarseVars => CoarseInv'
  <1> SUFFICES ASSUME CoarseInv, [CoarseNext]_coarseVars PROVE CoarseInv'
    OBVIOUS
  <1>1. CASE Split
    <2>1. coarsePc = "split" /\ size < wanted /\ wanted' = wanted /\ coarsePc' = "split"
      BY <1>1 DEF Split
    <2>2. /\ GoodQueue(clusters) /\ PointsOf(clusters) = RootPoints
          /\ size = QueueSize(clusters) /\ wanted \in Nat
      BY <2>1 DEF CoarseInv
    <2>0. PICK top \in clusters : \E left, level1, level2 :
            left \subseteq top.points
              /\ \E l \in Pushed(left, level1) : \E r \in Pushed(top.points \ left, level2) :
              /\ clusters' = FromLowest((clusters \ {top}) \cup l \cup r)
              /\ size' = size - Multiplicity(top.center) + QueueSize(l) + QueueSize(r)
      BY <1>1 DEF Split
    <2>3. PICK left, level1, level2 :
            left \subseteq top.points
              /\ \E l \in Pushed(left, level1) : \E r \in Pushed(top.points \ left, level2) :
              /\ clusters' = FromLowest((clusters \ {top}) \cup l \cup r)
              /\ size' = size - Multiplicity(top.center) + QueueSize(l) + QueueSize(r)
      BY <2>0
    <2>4. PICK l \in Pushed(left, level1), r \in Pushed(top.points \ left, level2) :
              /\ clusters' = FromLowest((clusters \ {top}) \cup l \cup r)
              /\ size' = size - Multiplicity(top.center) + QueueSize(l) + QueueSize(r)
      BY <2>3
    <2> DEFINE popped == clusters \ {top}
               most == popped \cup l
    <2>5. top.points \subseteq CoarseSet /\ top.points \subseteq RootPoints
      BY <2>2, PointOf DEF GoodQueue
    <2>6. /\ GoodQueue(popped) /\ PointsOf(popped) = RootPoints \ top.points
          /\ size = QueueSize(popped) + Multiplicity(top.center)
          /\ Multiplicity(top.center) \in 1..GradMult
      BY <2>2, PopQueue
    <2>7. /\ GoodQueue(l) /\ PointsOf(l) = left /\ QueueSize(l) \in 0..GradMult
          /\ GoodQueue(r) /\ PointsOf(r) = top.points \ left
          /\ QueueSize(r) \in 0..GradMult
      <3>1. left \in SUBSET CoarseSet /\ top.points \ left \in SUBSET CoarseSet
        BY <2>3, <2>5
      <3>. QED BY <3>1, <2>4, PushedOne
    <2> HIDE DEF popped
    <2>8. GoodQueue(most) /\ QueueSize(most) = QueueSize(popped) + QueueSize(l)
      <3>1. PointsOf(popped) \cap PointsOf(l) = {}
        BY <2>3, <2>6, <2>7
      <3>. QED BY <3>1, <2>6, <2>7, JoinQueues
    <2>9. PointsOf(most) = (RootPoints \ top.points) \cup left
      <3>1. PointsOf(most) = PointsOf(popped) \cup PointsOf(l)
        BY PointOf
      <3>. QED BY <3>1, <2>6, <2>7
    <2> HIDE DEF most
    <2>10. GoodQueue(most \cup r) /\ QueueSize(most \cup r) = QueueSize(most) + QueueSize(r)
      BY <2>7, <2>8, <2>9, JoinQueues
    <2>11. PointsOf(most \cup r) = RootPoints
      <3>1. PointsOf(most \cup r)
              = PointsOf(most) \cup PointsOf(r)
        BY PointOf
      <3>. QED BY <3>1, <2>3, <2>5, <2>7, <2>9
    <2>12. clusters' = FromLowest(most \cup r)
      BY <2>4 DEF most, popped
    <2>13. /\ GoodQueue(clusters') /\ PointsOf(clusters') = RootPoints
           /\ QueueSize(clusters') = QueueSize(most \cup r)
      BY <2>10, <2>11, <2>12, FromLowestSame
    <2>14. QueueSize(popped) \in Nat
      BY <2>6, QueueSizeType DEF GoodQueue
    <2>15. size' = QueueSize(clusters')
      BY <2>4, <2>6, <2>7, <2>8, <2>10, <2>13, <2>14, GradMultAssumption
    <2>16. size' <= wanted + 2 * GradMult - 2
      BY <2>1, <2>2, <2>4, <2>6, <2>7, <2>14, GradMultAssumption
    <2>17. (PointsOf(clusters) = RootPoints)'
      BY <2>13
    <2>18. GoodQueue(clusters)' /\ (size = QueueSize(clusters))'
      BY <2>13, <2>15
    <2>19. Close(clusters)'
      <3>1. Close(clusters)
        BY <2>1 DEF CoarseInv
      <3>2a. PICK first \in clusters : \E some, others :
              \E m \in Pushed(some, LevelSeen(clusters \ {first}, first) + 1) :
                \E n \in Pushed(others, LevelSeen((clusters \ {first}) \cup m, first) + 1) :
                  /\ first.level = Lowest(clusters)
                  /\ others = first.points \ some /\ some \subseteq first.points
                  /\ clusters' = FromLowest((clusters \ {first}) \cup m \cup n)
        <4>1. PICK first \in {c \in clusters : c.level = Lowest(clusters)}, axis \in CoarseOrders :
                LET mid == MidPoint(first.points, axis)
                    half == {q \in first.points : axis[q] < axis[mid]}
                    popped1 == clusters \ {first}
                IN  \E m \in Pushed(half, LevelSeen(popped1, first) + 1) :
                      \E n \in Pushed(first.points \ half, LevelSeen(popped1 \cup m, first) + 1) :
                        clusters' = FromLowest(popped1 \cup m \cup n)
          BY <1>1 DEF Split
        <4> DEFINE half == {q \in first.points : axis[q] < axis[MidPoint(first.points, axis)]}
        <4>2. half \subseteq first.points
          OBVIOUS
        <4>3. \E m \in Pushed(half, LevelSeen(clusters \ {first}, first) + 1) :
                \E n \in Pushed(first.points \ half,
                                LevelSeen((clusters \ {first}) \cup m, first) + 1) :
                  clusters' = FromLowest((clusters \ {first}) \cup m \cup n)
          BY <4>1
        <4> HIDE DEF half
        <4>. QED BY <4>1, <4>2, <4>3
      <3>2b. PICK some, others :
              \E m \in Pushed(some, LevelSeen(clusters \ {first}, first) + 1) :
                \E n \in Pushed(others, LevelSeen((clusters \ {first}) \cup m, first) + 1) :
                  /\ first.level = Lowest(clusters)
                  /\ others = first.points \ some /\ some \subseteq first.points
                  /\ clusters' = FromLowest((clusters \ {first}) \cup m \cup n)
        BY <3>2a
      <3>3. PICK m \in Pushed(some, LevelSeen(clusters \ {first}, first) + 1) :
              \E n \in Pushed(others, LevelSeen((clusters \ {first}) \cup m, first) + 1) :
                /\ first.level = Lowest(clusters)
                /\ others = first.points \ some /\ some \subseteq first.points
                /\ clusters' = FromLowest((clusters \ {first}) \cup m \cup n)
        BY <3>2b
      <3>4. PICK n \in Pushed(others, LevelSeen((clusters \ {first}) \cup m, first) + 1) :
              /\ first.level = Lowest(clusters)
              /\ others = first.points \ some /\ some \subseteq first.points
              /\ clusters' = FromLowest((clusters \ {first}) \cup m \cup n)
        BY <3>3
      <3> DEFINE queue == (clusters \ {first}) \cup m \cup n
      <3>5. Close(queue)
        BY <3>1, <3>4, SplitClose
      <3>6. GoodQueue(queue)
        <4>1. first.points \subseteq CoarseSet
          BY <2>2 DEF GoodQueue
        <4>2. some \in SUBSET CoarseSet /\ others \in SUBSET CoarseSet
          BY <3>4, <4>1
        <4>3. /\ GoodQueue(m) /\ PointsOf(m) = some
              /\ GoodQueue(n) /\ PointsOf(n) = others
          BY <4>2, PushedOne
        <4>4. GoodQueue(clusters \ {first})
                /\ PointsOf(clusters \ {first}) = RootPoints \ first.points
          BY <2>2, PopQueue
        <4>5. PointsOf(clusters \ {first}) \cap PointsOf(m) = {}
          BY <3>4, <4>3, <4>4
        <4>6. GoodQueue((clusters \ {first}) \cup m)
          BY <4>3, <4>4, <4>5, JoinQueues
        <4>7. PointsOf((clusters \ {first}) \cup m) = PointsOf(clusters \ {first}) \cup PointsOf(m)
          BY PointOf
        <4>8. PointsOf((clusters \ {first}) \cup m) \cap PointsOf(n) = {}
          BY <3>4, <4>3, <4>4, <4>7
        <4>. QED BY <4>3, <4>6, <4>8, JoinQueues
      <3> HIDE DEF queue
      <3>7. clusters' = FromLowest(queue)
        BY <3>4 DEF queue
      <3>8. Close(clusters')
        BY <3>5, <3>6, <3>7, FromLowestClose
      <3>. QED BY <3>8
    <2>. QED BY <2>1, <2>2, <2>16, <2>17, <2>18, <2>19 DEF CoarseInv, CoarseSize
  <1>2. CASE Collect
    <2>1. /\ coarsePc = "split" /\ size >= wanted /\ wanted' = wanted /\ coarsePc' = "done"
          /\ chosen' = CoarsePoly \cup {c.center : c \in clusters}
      BY <1>2 DEF Collect
    <2>2. /\ GoodQueue(clusters) /\ PointsOf(clusters) = RootPoints
          /\ size = QueueSize(clusters) /\ wanted \in Nat
          /\ wanted > 0 => size <= wanted + 2 * GradMult - 2
      BY <2>1 DEF CoarseInv
    <2>3. {c.center : c \in clusters} \in SUBSET RootPoints
      BY <2>2, PointOf DEF GoodQueue
    <2>4. SizeOf({c.center : c \in clusters}) = size
      BY <2>2, CentersCounted
    <2>5. SizeOf(chosen') = size + Cardinality(CoarsePoly)
      BY <2>1, <2>3, <2>4, ChosenCounted
    <2>6. size \in Nat
      BY <2>2, QueueSizeType DEF GoodQueue
    <2>7. Cardinality(CoarsePoly) \in Nat
      <3>1. IsFiniteSet(CoarsePoly)
        BY CoarseSetAssumption, FS_Subset
      <3>. QED BY <3>1, FS_CardinalityType
    <2>8. SizeOf(chosen') >= wanted + Cardinality(CoarsePoly)
      BY <2>1, <2>2, <2>5, <2>6, <2>7
    <2>9. wanted > 0 => SizeOf(chosen') <= wanted + Cardinality(CoarsePoly) + 2 * GradMult - 2
      BY <2>2, <2>5, <2>6, <2>7, GradMultAssumption
    <2>10. CoarseSize'
      BY <2>1, <2>8, <2>9 DEF CoarseSize
    <2>11. Close(clusters)'
      <3>1. clusters' = {}
        BY <1>2 DEF Collect
      <3>. QED BY <3>1 DEF Close
    <2>. QED BY <2>1, <2>2, <2>10, <2>11 DEF CoarseInv
  <1>3. CASE UNCHANGED coarseVars
    BY <1>3 DEF coarseVars, CoarseInv, CoarseSize
  <1>. QED BY <1>1, <1>2, <1>3 DEF CoarseNext

\* choose_coarse_points, for any points, orders and number wanted: the clusters stay a
\* partition of the points that do not fix the polynomial, and what is returned is the
\* polynomial points and as many others as were asked for, or as few more as the last
\* split can add; no cluster is more than two levels ahead of another.
THEOREM CoarseChosen == CoarseSpec => []CoarsePointsChosen
  <1>1. CoarseInv => ClustersPartition /\ CoarseSize
    BY DEF CoarseInv, ClustersPartition, GoodQueue, RootPoints, PointsOf
  <1>2. CoarseInv => LevelsClose
    BY DEF CoarseInv, LevelsClose, Close
  <1>3. CoarseInv => CoarsePointsChosen
    BY <1>1, <1>2 DEF CoarsePointsChosen
  <1>. QED BY <1>3, CoarseInvInit, CoarseInvNext, PTL DEF CoarseSpec

-----------------------------------------------------------------------------
\* What a product gains from one side of a point to the other.
LEMMA ProductSteps ==
  /\ \A x \in Int : (x + 1) * (x + 1) - (x - 1) * (x - 1) = 2 * (2 * x)
  /\ \A x \in Int, y \in Int : (x + 1) * y - (x - 1) * y = 2 * y
  /\ \A x \in Int, y \in Int : y * (x + 1) - y * (x - 1) = 2 * y
  /\ \A x \in Int, y \in Int : x * y - x * y = 0
  OBVIOUS

LEMMA MovedIs ==
  ASSUME NEW n \in 1..3, NEW p \in [1..n -> Int], NEW axis \in 1..n, NEW by \in Int
  PROVE  /\ Moved(p, axis, by)[axis] = p[axis] + by
         /\ \A a \in 1..n : a # axis => Moved(p, axis, by)[a] = p[a]
  BY DEF Moved

\* The rows of gradients are derivatives at every point of integers.
LEMMA Derivatives1 ==
  ASSUME NEW p \in [1..1 -> Int], NEW degree \in 0..2
  PROVE  RowsAreDerivatives(1, degree, p)
  <1> DEFINE u == Moved(p, 1, 1)
             d == Moved(p, 1, -1)
  <1>1. p[1] \in Int
    OBVIOUS
  <1>2. u[1] = p[1] + 1 /\ d[1] = p[1] - 1
    BY MovedIs, <1>1
  <1> HIDE DEF u, d
  <1>3. CASE degree = 0
    BY <1>1, <1>2, <1>3
      DEF RowsAreDerivatives, basis_size, Gradients, gradients1, Values, values1, u, d
  <1>4. CASE degree = 1
    <2>1. \A k \in 1..2 : 2 * gradients1(1, p)[1][k] = values1(1, u)[k] - values1(1, d)[k]
      BY <1>1, <1>2 DEF gradients1, values1
    <2>. QED BY <1>4, <2>1 DEF RowsAreDerivatives, basis_size, Gradients, Values, u, d
  <1>5. CASE degree = 2
    <2>1. u[1] * u[1] - d[1] * d[1] = 2 * (2 * p[1])
      BY <1>1, <1>2
    <2>2. \A k \in 1..3 : 2 * gradients1(2, p)[1][k] = values1(2, u)[k] - values1(2, d)[k]
      BY <1>1, <1>2, <2>1 DEF gradients1, values1
    <2>. QED BY <1>5, <2>2 DEF RowsAreDerivatives, basis_size, Gradients, Values, u, d
  <1>. QED BY <1>3, <1>4, <1>5

LEMMA BasisSizes ==
  /\ basis_size(1, 0) = 1 /\ basis_size(1, 1) = 2 /\ basis_size(1, 2) = 3
  /\ basis_size(2, 0) = 1 /\ basis_size(2, 1) = 3 /\ basis_size(2, 2) = 6
  /\ basis_size(3, 0) = 1 /\ basis_size(3, 1) = 4 /\ basis_size(3, 2) = 10
  BY DEF basis_size

LEMMA NoColumns == \A dim \in 1..3 : basis_size(dim, -1) = 0
  <1> TAKE dim \in 1..3
  <1>1. -1 < 0 /\ ~(-1 >= 0)
    OBVIOUS
  <1>. QED BY <1>1, Zenon DEF basis_size

LEMMA Derivatives2 ==
  ASSUME NEW p \in [1..2 -> Int], NEW degree \in 0..2, NEW axis \in 1..2,
         NEW u, NEW d, u = Moved(p, axis, 1), d = Moved(p, axis, -1)
  PROVE  \A k \in 1..basis_size(2, degree) :
           2 * gradients2(degree, p)[axis][k] = values2(degree, u)[k] - values2(degree, d)[k]
  <1>1. PICK x \in Int, y \in Int : x = p[1] /\ y = p[2]
    OBVIOUS
  <1>2. CASE axis = 1
    <2>1. u[1] = x + 1 /\ d[1] = x - 1
      BY MovedIs, <1>1, <1>2
    <2>2. u[2] = y /\ d[2] = y
      BY MovedIs, <1>1, <1>2
    <2>3. CASE degree = 0
      BY <1>1, <1>2, <2>1, <2>2, <2>3, BasisSizes DEF gradients2, values2
    <2>4. CASE degree = 1
      BY <1>1, <1>2, <2>1, <2>2, <2>4, BasisSizes DEF gradients2, values2
    <2>5. CASE degree = 2
      <3>1. u[1] * u[1] - d[1] * d[1] = 2 * (2 * x)
        <4>1. (x + 1) * (x + 1) - (x - 1) * (x - 1) = 2 * (2 * x)
          BY ProductSteps
        <4>. QED BY <2>1, <2>2, <4>1
      <3>2. u[1] * u[2] - d[1] * d[2] = 2 * y
        <4>1. (x + 1) * y - (x - 1) * y = 2 * y
          BY ProductSteps
        <4>. QED BY <2>1, <2>2, <4>1
      <3>3. u[2] * u[2] - d[2] * d[2] = 0
        <4>1. y * y - y * y = 0
          BY ProductSteps
        <4>. QED BY <2>1, <2>2, <4>1
      <3>4. \A k \in 1..6 : 2 * gradients2(2, p)[1][k] = values2(2, u)[k] - values2(2, d)[k]
        <4>1. \A k \in 1..3 : 2 * gradients2(2, p)[1][k] = values2(2, u)[k] - values2(2, d)[k]
          BY <1>1, <2>1, <2>2, <3>1, <3>2, <3>3 DEF gradients2, values2
        <4>2. \A k \in 4..6 : 2 * gradients2(2, p)[1][k] = values2(2, u)[k] - values2(2, d)[k]
          BY <1>1, <2>1, <2>2, <3>1, <3>2, <3>3 DEF gradients2, values2
        <4>. QED BY <4>1, <4>2
      <3>. QED BY <1>2, <2>5, <3>4, BasisSizes
    <2>. QED BY <2>3, <2>4, <2>5
  <1>3. CASE axis = 2
    <2>1. u[2] = y + 1 /\ d[2] = y - 1
      BY MovedIs, <1>1, <1>3
    <2>2. u[1] = x /\ d[1] = x
      BY MovedIs, <1>1, <1>3
    <2>3. CASE degree = 0
      BY <1>1, <1>3, <2>1, <2>2, <2>3, BasisSizes DEF gradients2, values2
    <2>4. CASE degree = 1
      BY <1>1, <1>3, <2>1, <2>2, <2>4, BasisSizes DEF gradients2, values2
    <2>5. CASE degree = 2
      <3>1. u[1] * u[1] - d[1] * d[1] = 0
        <4>1. x * x - x * x = 0
          BY ProductSteps
        <4>. QED BY <2>1, <2>2, <4>1
      <3>2. u[1] * u[2] - d[1] * d[2] = 2 * x
        <4>1. x * (y + 1) - x * (y - 1) = 2 * x
          BY ProductSteps
        <4>. QED BY <2>1, <2>2, <4>1
      <3>3. u[2] * u[2] - d[2] * d[2] = 2 * (2 * y)
        <4>1. (y + 1) * (y + 1) - (y - 1) * (y - 1) = 2 * (2 * y)
          BY ProductSteps
        <4>. QED BY <2>1, <2>2, <4>1
      <3>4. \A k \in 1..6 : 2 * gradients2(2, p)[2][k] = values2(2, u)[k] - values2(2, d)[k]
        <4>1. \A k \in 1..3 : 2 * gradients2(2, p)[2][k] = values2(2, u)[k] - values2(2, d)[k]
          BY <1>1, <2>1, <2>2, <3>1, <3>2, <3>3 DEF gradients2, values2
        <4>2. \A k \in 4..6 : 2 * gradients2(2, p)[2][k] = values2(2, u)[k] - values2(2, d)[k]
          BY <1>1, <2>1, <2>2, <3>1, <3>2, <3>3 DEF gradients2, values2
        <4>. QED BY <4>1, <4>2
      <3>. QED BY <1>3, <2>5, <3>4, BasisSizes
    <2>. QED BY <2>3, <2>4, <2>5
  <1>. QED BY <1>2, <1>3

LEMMA Derivatives3 ==
  ASSUME NEW p \in [1..3 -> Int], NEW degree \in 0..2, NEW axis \in 1..3,
         NEW u, NEW d, u = Moved(p, axis, 1), d = Moved(p, axis, -1)
  PROVE  \A k \in 1..basis_size(3, degree) :
           2 * gradients3(degree, p)[axis][k] = values3(degree, u)[k] - values3(degree, d)[k]
  <1>1. PICK x \in Int, y \in Int, z \in Int : x = p[1] /\ y = p[2] /\ z = p[3]
    OBVIOUS
  <1>2. CASE axis = 1
    <2>1. u[1] = x + 1 /\ d[1] = x - 1
      BY MovedIs, <1>1, <1>2
    <2>2. u[2] = y /\ d[2] = y
      BY MovedIs, <1>1, <1>2
    <2>3. u[3] = z /\ d[3] = z
      BY MovedIs, <1>1, <1>2
    <2>4. CASE degree = 0
      BY <1>1, <1>2, <2>1, <2>2, <2>3, <2>4, BasisSizes DEF gradients3, values3
    <2>5. CASE degree = 1
      BY <1>1, <1>2, <2>1, <2>2, <2>3, <2>5, BasisSizes DEF gradients3, values3
    <2>6. CASE degree = 2
      <3>1. u[1] * u[1] - d[1] * d[1] = 2 * (2 * x)
        <4>1. (x + 1) * (x + 1) - (x - 1) * (x - 1) = 2 * (2 * x)
          BY ProductSteps
        <4>. QED BY <2>1, <2>2, <2>3, <4>1
      <3>2. u[1] * u[2] - d[1] * d[2] = 2 * y
        <4>1. (x + 1) * y - (x - 1) * y = 2 * y
          BY ProductSteps
        <4>. QED BY <2>1, <2>2, <2>3, <4>1
      <3>3. u[1] * u[3] - d[1] * d[3] = 2 * z
        <4>1. (x + 1) * z - (x - 1) * z = 2 * z
          BY ProductSteps
        <4>. QED BY <2>1, <2>2, <2>3, <4>1
      <3>4. u[2] * u[2] - d[2] * d[2] = 0
        <4>1. y * y - y * y = 0
          BY ProductSteps
        <4>. QED BY <2>1, <2>2, <2>3, <4>1
      <3>5. u[2] * u[3] - d[2] * d[3] = 0
        <4>1. y * z - y * z = 0
          BY ProductSteps
        <4>. QED BY <2>1, <2>2, <2>3, <4>1
      <3>6. u[3] * u[3] - d[3] * d[3] = 0
        <4>1. z * z - z * z = 0
          BY ProductSteps
        <4>. QED BY <2>1, <2>2, <2>3, <4>1
      <3>7. \A k \in 1..10 : 2 * gradients3(2, p)[1][k] = values3(2, u)[k] - values3(2, d)[k]
        <4>1. \A k \in 1..5 : 2 * gradients3(2, p)[1][k] = values3(2, u)[k] - values3(2, d)[k]
          BY <1>1, <2>1, <2>2, <2>3, <3>1, <3>2, <3>3, <3>4, <3>5, <3>6 DEF gradients3, values3
        <4>2. \A k \in 6..10 : 2 * gradients3(2, p)[1][k] = values3(2, u)[k] - values3(2, d)[k]
          BY <1>1, <2>1, <2>2, <2>3, <3>1, <3>2, <3>3, <3>4, <3>5, <3>6 DEF gradients3, values3
        <4>. QED BY <4>1, <4>2
      <3>. QED BY <1>2, <2>6, <3>7, BasisSizes
    <2>. QED BY <2>4, <2>5, <2>6
  <1>3. CASE axis = 2
    <2>1. u[2] = y + 1 /\ d[2] = y - 1
      BY MovedIs, <1>1, <1>3
    <2>2. u[1] = x /\ d[1] = x
      BY MovedIs, <1>1, <1>3
    <2>3. u[3] = z /\ d[3] = z
      BY MovedIs, <1>1, <1>3
    <2>4. CASE degree = 0
      BY <1>1, <1>3, <2>1, <2>2, <2>3, <2>4, BasisSizes DEF gradients3, values3
    <2>5. CASE degree = 1
      BY <1>1, <1>3, <2>1, <2>2, <2>3, <2>5, BasisSizes DEF gradients3, values3
    <2>6. CASE degree = 2
      <3>1. u[1] * u[1] - d[1] * d[1] = 0
        <4>1. x * x - x * x = 0
          BY ProductSteps
        <4>. QED BY <2>1, <2>2, <2>3, <4>1
      <3>2. u[1] * u[2] - d[1] * d[2] = 2 * x
        <4>1. x * (y + 1) - x * (y - 1) = 2 * x
          BY ProductSteps
        <4>. QED BY <2>1, <2>2, <2>3, <4>1
      <3>3. u[1] * u[3] - d[1] * d[3] = 0
        <4>1. x * z - x * z = 0
          BY ProductSteps
        <4>. QED BY <2>1, <2>2, <2>3, <4>1
      <3>4. u[2] * u[2] - d[2] * d[2] = 2 * (2 * y)
        <4>1. (y + 1) * (y + 1) - (y - 1) * (y - 1) = 2 * (2 * y)
          BY ProductSteps
        <4>. QED BY <2>1, <2>2, <2>3, <4>1
      <3>5. u[2] * u[3] - d[2] * d[3] = 2 * z
        <4>1. (y + 1) * z - (y - 1) * z = 2 * z
          BY ProductSteps
        <4>. QED BY <2>1, <2>2, <2>3, <4>1
      <3>6. u[3] * u[3] - d[3] * d[3] = 0
        <4>1. z * z - z * z = 0
          BY ProductSteps
        <4>. QED BY <2>1, <2>2, <2>3, <4>1
      <3>7. \A k \in 1..10 : 2 * gradients3(2, p)[2][k] = values3(2, u)[k] - values3(2, d)[k]
        <4>1. \A k \in 1..5 : 2 * gradients3(2, p)[2][k] = values3(2, u)[k] - values3(2, d)[k]
          BY <1>1, <2>1, <2>2, <2>3, <3>1, <3>2, <3>3, <3>4, <3>5, <3>6 DEF gradients3, values3
        <4>2. \A k \in 6..10 : 2 * gradients3(2, p)[2][k] = values3(2, u)[k] - values3(2, d)[k]
          BY <1>1, <2>1, <2>2, <2>3, <3>1, <3>2, <3>3, <3>4, <3>5, <3>6 DEF gradients3, values3
        <4>. QED BY <4>1, <4>2
      <3>. QED BY <1>3, <2>6, <3>7, BasisSizes
    <2>. QED BY <2>4, <2>5, <2>6
  <1>4. CASE axis = 3
    <2>1. u[3] = z + 1 /\ d[3] = z - 1
      BY MovedIs, <1>1, <1>4
    <2>2. u[1] = x /\ d[1] = x
      BY MovedIs, <1>1, <1>4
    <2>3. u[2] = y /\ d[2] = y
      BY MovedIs, <1>1, <1>4
    <2>4. CASE degree = 0
      BY <1>1, <1>4, <2>1, <2>2, <2>3, <2>4, BasisSizes DEF gradients3, values3
    <2>5. CASE degree = 1
      BY <1>1, <1>4, <2>1, <2>2, <2>3, <2>5, BasisSizes DEF gradients3, values3
    <2>6. CASE degree = 2
      <3>1. u[1] * u[1] - d[1] * d[1] = 0
        <4>1. x * x - x * x = 0
          BY ProductSteps
        <4>. QED BY <2>1, <2>2, <2>3, <4>1
      <3>2. u[1] * u[2] - d[1] * d[2] = 0
        <4>1. x * y - x * y = 0
          BY ProductSteps
        <4>. QED BY <2>1, <2>2, <2>3, <4>1
      <3>3. u[1] * u[3] - d[1] * d[3] = 2 * x
        <4>1. x * (z + 1) - x * (z - 1) = 2 * x
          BY ProductSteps
        <4>. QED BY <2>1, <2>2, <2>3, <4>1
      <3>4. u[2] * u[2] - d[2] * d[2] = 0
        <4>1. y * y - y * y = 0
          BY ProductSteps
        <4>. QED BY <2>1, <2>2, <2>3, <4>1
      <3>5. u[2] * u[3] - d[2] * d[3] = 2 * y
        <4>1. y * (z + 1) - y * (z - 1) = 2 * y
          BY ProductSteps
        <4>. QED BY <2>1, <2>2, <2>3, <4>1
      <3>6. u[3] * u[3] - d[3] * d[3] = 2 * (2 * z)
        <4>1. (z + 1) * (z + 1) - (z - 1) * (z - 1) = 2 * (2 * z)
          BY ProductSteps
        <4>. QED BY <2>1, <2>2, <2>3, <4>1
      <3>7. \A k \in 1..10 : 2 * gradients3(2, p)[3][k] = values3(2, u)[k] - values3(2, d)[k]
        <4>1. \A k \in 1..5 : 2 * gradients3(2, p)[3][k] = values3(2, u)[k] - values3(2, d)[k]
          BY <1>1, <2>1, <2>2, <2>3, <3>1, <3>2, <3>3, <3>4, <3>5, <3>6 DEF gradients3, values3
        <4>2. \A k \in 6..10 : 2 * gradients3(2, p)[3][k] = values3(2, u)[k] - values3(2, d)[k]
          BY <1>1, <2>1, <2>2, <2>3, <3>1, <3>2, <3>3, <3>4, <3>5, <3>6 DEF gradients3, values3
        <4>. QED BY <4>1, <4>2
      <3>. QED BY <1>4, <2>6, <3>7, BasisSizes
    <2>. QED BY <2>4, <2>5, <2>6
  <1>. QED BY <1>2, <1>3, <1>4

-----------------------------------------------------------------------------
\* The two points at which the monomials are told apart.
Telling1(dim) == [a \in 1..dim |-> <<2, 3, 5>>[a]]
Telling2(dim) == [a \in 1..dim |-> <<-3, 5, 2>>[a]]

LEMMA TellingPoints ==
  ASSUME NEW dim \in 1..3
  PROVE  Telling(dim) = {Telling1(dim), Telling2(dim)}
  <1>1. \A c \in {<<2, 3, 5>>, <<-3, 5, 2>>} : c = <<2, 3, 5>> \/ c = <<-3, 5, 2>>
    OBVIOUS
  <1>. QED BY Zenon DEF Telling, Telling1, Telling2

LEMMA ValuesAre ==
  ASSUME NEW degree, NEW p
  PROVE  /\ Values(1, degree, p) = values1(degree, p)
         /\ Values(2, degree, p) = values2(degree, p)
         /\ Values(3, degree, p) = values3(degree, p)
  <1>1. 1 # 2 /\ 1 # 3 /\ 2 # 3
    OBVIOUS
  <1>. QED BY <1>1 DEF Values

LEMMA GradientsAre ==
  ASSUME NEW degree, NEW p
  PROVE  /\ Gradients(1, degree, p) = gradients1(degree, p)
         /\ Gradients(2, degree, p) = gradients2(degree, p)
         /\ Gradients(3, degree, p) = gradients3(degree, p)
  <1>1. 1 # 2 /\ 1 # 3 /\ 2 # 3
    OBVIOUS
  <1>. QED BY <1>1 DEF Gradients

LEMMA PowersOf ==
  /\ \A x \in Int : Power(x, 0) = 1 /\ Power(x, 1) = x
  /\ Power(2, 2) = 4 /\ Power(3, 2) = 9 /\ Power(5, 2) = 25 /\ Power(-3, 2) = 9
  BY DEF Power

Tells(dim, degree, n, first, second) ==
  /\ \A k \in 1..n : /\ Values(dim, degree, Telling1(dim))[k] = first[k]
                     /\ Values(dim, degree, Telling2(dim))[k] = second[k]
  /\ \A j \in 1..n, k \in 1..n : first[j] = first[k] => j = k
  /\ \A e \in Powers(dim, degree) : \E k \in 1..n :
       Monomial(dim, e, Telling1(dim)) = first[k] /\ Monomial(dim, e, Telling2(dim)) = second[k]
  /\ \A k \in 1..n : \E e \in Powers(dim, degree) :
       Monomial(dim, e, Telling1(dim)) = first[k] /\ Monomial(dim, e, Telling2(dim)) = second[k]

\* What stands in a column at the two points tells which monomial it is.
LEMMA ToldApart ==
  ASSUME NEW dim \in 1..3, NEW degree \in 0..2, NEW n, n = basis_size(dim, degree),
         NEW first, NEW second, Tells(dim, degree, n, first, second)
  PROVE  ColumnsAreMonomials(dim, degree, Telling(dim))
  <1> DEFINE Same(k, e, p) == Values(dim, degree, p)[k] = Monomial(dim, e, p)
  <1>1. \A k, e : IsColumn(dim, degree, k, e, Telling(dim)) <=>
          Same(k, e, Telling1(dim)) /\ Same(k, e, Telling2(dim))
    <2>1. Telling(dim) = {Telling1(dim), Telling2(dim)}
      BY TellingPoints
    <2>2. \A k, e : IsColumn(dim, degree, k, e, Telling(dim)) <=> \A p
            \in Telling(dim) : Same(k, e, p)
      BY DEF IsColumn
    <2> HIDE DEF Same
    <2>. QED BY <2>1, <2>2
  <1>2. ASSUME NEW k \in 1..n
        PROVE  \E e \in Powers(dim, degree) : IsColumn(dim, degree, k, e, Telling(dim))
    BY <1>1 DEF Tells
  <1>3. ASSUME NEW e \in Powers(dim, degree)
        PROVE  \E k \in 1..n : /\ IsColumn(dim, degree, k, e, Telling(dim))
                               /\ \A j \in 1..n : IsColumn(dim, degree, j, e, Telling(dim)) => j = k
    <2>1. PICK k \in 1..n : Monomial(dim, e, Telling1(dim)) = first[k]
                 /\ Monomial(dim, e, Telling2(dim)) = second[k]
      BY DEF Tells
    <2>2. IsColumn(dim, degree, k, e, Telling(dim))
      BY <1>1, <2>1 DEF Tells
    <2>3. \A j \in 1..n : IsColumn(dim, degree, j, e, Telling(dim)) => j = k
      BY <1>1, <2>1 DEF Tells
    <2>. QED BY <2>2, <2>3
  <1>. QED BY <1>2, <1>3 DEF ColumnsAreMonomials

LEMMA Columns1 ==
  ASSUME NEW degree \in 0..2
  PROVE  ColumnsAreMonomials(1, degree, Telling(1))
  <1> DEFINE n == basis_size(1, degree)
             t1 == Telling1(1)
             t2 == Telling2(1)
             first == <<1, 2, 4>>
             second == <<1, -3, 9>>
             M(e, k) == Monomial(1, e, t1) = first[k] /\ Monomial(1, e, t2) = second[k]
             Is(e, a, b, c) == e[1] = a /\ e[2] = b /\ e[3] = c
  <1>1. (degree = 0 /\ n = 1) \/ (degree = 1 /\ n = 2) \/ (degree = 2 /\ n = 3)
    BY BasisSizes
  <1>2. n \in 1..3
    BY <1>1
  <1>3. t1[1] = 2 /\ t2[1] = -3
    BY DEF Telling1, Telling2
  <1> HIDE DEF n, t1, t2
  <1>4. \A k \in 1..n : Values(1, degree, t1)[k] = first[k] /\ Values(1, degree, t2)[k] = second[k]
    <2>1. \A k \in 1..n : values1(degree, t1)[k] = first[k]
      BY <1>1, <1>3 DEF values1
    <2>2. \A k \in 1..n : values1(degree, t2)[k] = second[k]
      BY <1>1, <1>3 DEF values1
    <2>. QED BY <2>1, <2>2, ValuesAre
  <1>5. \A j \in 1..3, k \in 1..3 : first[j] = first[k] => j = k
    OBVIOUS
  <1>6. \A e \in [1..3 -> 0..2] :
          /\ Is(e, 0, 0, 0) => M(e, 1)
          /\ Is(e, 1, 0, 0) => M(e, 2)
          /\ Is(e, 2, 0, 0) => M(e, 3)
    BY <1>3, PowersOf DEF Monomial
  <1> HIDE DEF M, first, second
  <1>7. ASSUME NEW e \in Powers(1, degree)
        PROVE  \E k \in 1..n : M(e, k)
    <2>1. e \in [1..3 -> 0..2] /\ e[1] \in 0..2 /\ e[2] \in 0..2 /\ e[3] \in 0..2
          /\ e[1] + e[2] + e[3] <= degree /\ e[2] = 0 /\ e[3] = 0
      BY DEF Powers
    <2>2. CASE degree = 0
      <3>1. Is(e, 0, 0, 0)
        BY <2>1, <2>2
      <3> HIDE DEF Is
      <3>2. Is(e, 0, 0, 0) => M(e, 1) /\ 1 \in 1..n
        BY <1>1, <1>6, <2>1, <2>2
      <3>. QED BY <3>1, <3>2
    <2>3. CASE degree = 1
      <3>1. Is(e, 0, 0, 0) \/ Is(e, 1, 0, 0)
        BY <2>1, <2>3
      <3> HIDE DEF Is
      <3>2. Is(e, 0, 0, 0) => M(e, 1) /\ 1 \in 1..n
        BY <1>1, <1>6, <2>1, <2>3
      <3>3. Is(e, 1, 0, 0) => M(e, 2) /\ 2 \in 1..n
        BY <1>1, <1>6, <2>1, <2>3
      <3>. QED BY <3>1, <3>2, <3>3
    <2>4. CASE degree = 2
      <3>1. Is(e, 0, 0, 0) \/ Is(e, 1, 0, 0) \/ Is(e, 2, 0, 0)
        BY <2>1, <2>4
      <3> HIDE DEF Is
      <3>2. Is(e, 0, 0, 0) => M(e, 1) /\ 1 \in 1..n
        BY <1>1, <1>6, <2>1, <2>4
      <3>3. Is(e, 1, 0, 0) => M(e, 2) /\ 2 \in 1..n
        BY <1>1, <1>6, <2>1, <2>4
      <3>4. Is(e, 2, 0, 0) => M(e, 3) /\ 3 \in 1..n
        BY <1>1, <1>6, <2>1, <2>4
      <3>. QED BY <3>1, <3>2, <3>3, <3>4
    <2>. QED BY <2>2, <2>3, <2>4
  <1>8. ASSUME NEW k \in 1..n
        PROVE  \E e \in Powers(1, degree) : M(e, k)
    <2> DEFINE x == <<<<0, 0, 0>>, <<1, 0, 0>>, <<2, 0, 0>>>>[k]
               e == [a \in 1..3 |-> x[a]]
    <2>1. k \in 1..3
      BY <1>2
    <2>2. e[1] = x[1] /\ e[2] = x[2] /\ e[3] = x[3]
      OBVIOUS
    <2>3. x[1] \in 0..degree /\ x[2] \in 0..degree /\ x[3] \in 0..degree
            /\ x[1] + x[2] + x[3] <= degree /\ x[2] = 0 /\ x[3] = 0
      BY <1>1, <2>1
    <2>4. (k = 1 /\ x = <<0, 0, 0>>) \/ (k = 2 /\ x = <<1, 0, 0>>) \/ (k = 3 /\ x = <<2, 0, 0>>)
      BY <2>1
    <2> HIDE DEF x
    <2>5. e \in [1..3 -> 0..degree] /\ e \in [1..3 -> 0..2]
      BY <2>2, <2>3
    <2>6. M(e, k)
      <3>1. (k = 1 /\ Is(e, 0, 0, 0)) \/ (k = 2 /\ Is(e, 1, 0, 0)) \/ (k = 3 /\ Is(e, 2, 0, 0))
        BY <2>2, <2>4
      <3> HIDE DEF Is, e
      <3>. QED BY <1>6, <2>5, <3>1
    <2>7. e \in Powers(1, degree)
      <3>1. \A axis \in 2..3 : e[axis] = 0
        BY <2>2, <2>3
      <3>2. e[1] + e[2] + e[3] <= degree
        BY <2>2, <2>3
      <3> HIDE DEF e
      <3>. QED BY <2>5, <3>1, <3>2 DEF Powers
    <2> HIDE DEF e
    <2>. QED BY <2>6, <2>7
  <1>9. \A j \in 1..n, k \in 1..n : first[j] = first[k] => j = k
    BY <1>2, <1>5
  <1>10. \A e \in Powers(1, degree) : \E k \in 1..n :
           Monomial(1, e, t1) = first[k] /\ Monomial(1, e, t2) = second[k]
    BY <1>7 DEF M
  <1>11. \A k \in 1..n : \E e \in Powers(1, degree) :
           Monomial(1, e, t1) = first[k] /\ Monomial(1, e, t2) = second[k]
    BY <1>8 DEF M
  <1>12. Tells(1, degree, n, first, second)
    BY <1>4, <1>9, <1>10, <1>11, Zenon DEF Tells, t1, t2
  <1>. QED BY <1>12, ToldApart DEF n

LEMMA Columns2 ==
  ASSUME NEW degree \in 0..2
  PROVE  ColumnsAreMonomials(2, degree, Telling(2))
  <1> DEFINE n == basis_size(2, degree)
             t1 == Telling1(2)
             t2 == Telling2(2)
             first == <<1, 2, 3, 4, 6, 9>>
             second == <<1, -3, 5, 9, -15, 25>>
             M(e, k) == Monomial(2, e, t1) = first[k] /\ Monomial(2, e, t2) = second[k]
             Is(e, a, b, c) == e[1] = a /\ e[2] = b /\ e[3] = c
  <1>1. (degree = 0 /\ n = 1) \/ (degree = 1 /\ n = 3) \/ (degree = 2 /\ n = 6)
    BY BasisSizes
  <1>2. n \in 1..6
    BY <1>1
  <1>3. t1[1] = 2 /\ t1[2] = 3 /\ t2[1] = -3 /\ t2[2] = 5
    BY DEF Telling1, Telling2
  <1> HIDE DEF n, t1, t2
  <1>4. \A k \in 1..n : Values(2, degree, t1)[k] = first[k] /\ Values(2, degree, t2)[k] = second[k]
    <2>1. \A k \in 1..n : values2(degree, t1)[k] = first[k]
      BY <1>1, <1>3 DEF values2
    <2>2. \A k \in 1..n : values2(degree, t2)[k] = second[k]
      BY <1>1, <1>3 DEF values2
    <2>. QED BY <2>1, <2>2, ValuesAre
  <1>5. \A j \in 1..6, k \in 1..6 : first[j] = first[k] => j = k
    OBVIOUS
  <1>6. \A e \in [1..3 -> 0..2] :
          /\ Is(e, 0, 0, 0) => M(e, 1)
          /\ Is(e, 1, 0, 0) => M(e, 2)
          /\ Is(e, 0, 1, 0) => M(e, 3)
          /\ Is(e, 2, 0, 0) => M(e, 4)
          /\ Is(e, 1, 1, 0) => M(e, 5)
          /\ Is(e, 0, 2, 0) => M(e, 6)
    BY <1>3, PowersOf DEF Monomial
  <1> HIDE DEF M, first, second
  <1>7. ASSUME NEW e \in Powers(2, degree)
        PROVE  \E k \in 1..n : M(e, k)
    <2>1. e \in [1..3 -> 0..2] /\ e[1] \in 0..2 /\ e[2] \in 0..2 /\ e[3] \in 0..2
          /\ e[1] + e[2] + e[3] <= degree /\ e[3] = 0
      BY DEF Powers
    <2>2. CASE degree = 0
      <3>1. Is(e, 0, 0, 0)
        BY <2>1, <2>2
      <3> HIDE DEF Is
      <3>2. Is(e, 0, 0, 0) => M(e, 1) /\ 1 \in 1..n
        BY <1>1, <1>6, <2>1, <2>2
      <3>. QED BY <3>1, <3>2
    <2>3. CASE degree = 1
      <3>1. Is(e, 0, 0, 0) \/ Is(e, 1, 0, 0) \/ Is(e, 0, 1, 0)
        BY <2>1, <2>3
      <3> HIDE DEF Is
      <3>2. Is(e, 0, 0, 0) => M(e, 1) /\ 1 \in 1..n
        BY <1>1, <1>6, <2>1, <2>3
      <3>3. Is(e, 1, 0, 0) => M(e, 2) /\ 2 \in 1..n
        BY <1>1, <1>6, <2>1, <2>3
      <3>4. Is(e, 0, 1, 0) => M(e, 3) /\ 3 \in 1..n
        BY <1>1, <1>6, <2>1, <2>3
      <3>. QED BY <3>1, <3>2, <3>3, <3>4
    <2>4. CASE degree = 2
      <3>1. Is(e, 0, 0, 0) \/ Is(e, 1, 0, 0) \/ Is(e, 0, 1, 0) \/ Is(e, 2, 0, 0) \/ Is(e, 1, 1,
              0) \/ Is(e, 0, 2, 0)
        BY <2>1, <2>4
      <3> HIDE DEF Is
      <3>2. Is(e, 0, 0, 0) => M(e, 1) /\ 1 \in 1..n
        BY <1>1, <1>6, <2>1, <2>4
      <3>3. Is(e, 1, 0, 0) => M(e, 2) /\ 2 \in 1..n
        BY <1>1, <1>6, <2>1, <2>4
      <3>4. Is(e, 0, 1, 0) => M(e, 3) /\ 3 \in 1..n
        BY <1>1, <1>6, <2>1, <2>4
      <3>5. Is(e, 2, 0, 0) => M(e, 4) /\ 4 \in 1..n
        BY <1>1, <1>6, <2>1, <2>4
      <3>6. Is(e, 1, 1, 0) => M(e, 5) /\ 5 \in 1..n
        BY <1>1, <1>6, <2>1, <2>4
      <3>7. Is(e, 0, 2, 0) => M(e, 6) /\ 6 \in 1..n
        BY <1>1, <1>6, <2>1, <2>4
      <3>. QED BY <3>1, <3>2, <3>3, <3>4, <3>5, <3>6, <3>7
    <2>. QED BY <2>2, <2>3, <2>4
  <1>8. ASSUME NEW k \in 1..n
        PROVE  \E e \in Powers(2, degree) : M(e, k)
    <2> DEFINE x == <<<<0, 0, 0>>, <<1, 0, 0>>, <<0, 1, 0>>, <<2, 0, 0>>, <<1, 1, 0>>,
          <<0, 2, 0>>>>[k]
               e == [a \in 1..3 |-> x[a]]
    <2>1. k \in 1..6
      BY <1>2
    <2>2. e[1] = x[1] /\ e[2] = x[2] /\ e[3] = x[3]
      OBVIOUS
    <2>3. x[1] \in 0..degree /\ x[2] \in 0..degree /\ x[3] \in 0..degree
            /\ x[1] + x[2] + x[3] <= degree /\ x[3] = 0
      BY <1>1, <2>1
    <2>4. (k = 1 /\ x = <<0, 0, 0>>) \/ (k = 2 /\ x = <<1, 0, 0>>) \/ (k = 3
            /\ x = <<0, 1, 0>>) \/ (k = 4 /\ x = <<2, 0, 0>>)
            \/ (k = 5 /\ x = <<1, 1, 0>>) \/ (k = 6 /\ x = <<0, 2, 0>>)
      BY <2>1
    <2> HIDE DEF x
    <2>5. e \in [1..3 -> 0..degree] /\ e \in [1..3 -> 0..2]
      BY <2>2, <2>3
    <2>6. M(e, k)
      <3>1. (k = 1 /\ Is(e, 0, 0, 0)) \/ (k = 2 /\ Is(e, 1, 0, 0)) \/ (k = 3
              /\ Is(e, 0, 1, 0)) \/ (k = 4 /\ Is(e, 2, 0, 0))
              \/ (k = 5 /\ Is(e, 1, 1, 0)) \/ (k = 6 /\ Is(e, 0, 2, 0))
        BY <2>2, <2>4
      <3> HIDE DEF Is, e
      <3>. QED BY <1>6, <2>5, <3>1
    <2>7. e \in Powers(2, degree)
      <3>1. \A axis \in 3..3 : e[axis] = 0
        BY <2>2, <2>3
      <3>2. e[1] + e[2] + e[3] <= degree
        BY <2>2, <2>3
      <3> HIDE DEF e
      <3>. QED BY <2>5, <3>1, <3>2 DEF Powers
    <2> HIDE DEF e
    <2>. QED BY <2>6, <2>7
  <1>9. \A j \in 1..n, k \in 1..n : first[j] = first[k] => j = k
    BY <1>2, <1>5
  <1>10. \A e \in Powers(2, degree) : \E k \in 1..n :
           Monomial(2, e, t1) = first[k] /\ Monomial(2, e, t2) = second[k]
    BY <1>7 DEF M
  <1>11. \A k \in 1..n : \E e \in Powers(2, degree) :
           Monomial(2, e, t1) = first[k] /\ Monomial(2, e, t2) = second[k]
    BY <1>8 DEF M
  <1>12. Tells(2, degree, n, first, second)
    BY <1>4, <1>9, <1>10, <1>11, Zenon DEF Tells, t1, t2
  <1>. QED BY <1>12, ToldApart DEF n

LEMMA Columns3 ==
  ASSUME NEW degree \in 0..2
  PROVE  ColumnsAreMonomials(3, degree, Telling(3))
  <1> DEFINE n == basis_size(3, degree)
             t1 == Telling1(3)
             t2 == Telling2(3)
             first == <<1, 2, 3, 5, 4, 6, 10, 9, 15, 25>>
             second == <<1, -3, 5, 2, 9, -15, -6, 25, 10, 4>>
             M(e, k) == Monomial(3, e, t1) = first[k] /\ Monomial(3, e, t2) = second[k]
             Is(e, a, b, c) == e[1] = a /\ e[2] = b /\ e[3] = c
  <1>1. (degree = 0 /\ n = 1) \/ (degree = 1 /\ n = 4) \/ (degree = 2 /\ n = 10)
    BY BasisSizes
  <1>2. n \in 1..10
    BY <1>1
  <1>3. t1[1] = 2 /\ t1[2] = 3 /\ t1[3] = 5 /\ t2[1] = -3 /\ t2[2] = 5 /\ t2[3] = 2
    BY DEF Telling1, Telling2
  <1> HIDE DEF n, t1, t2
  <1>4. \A k \in 1..n : Values(3, degree, t1)[k] = first[k] /\ Values(3, degree, t2)[k] = second[k]
    <2>1. \A k \in 1..n : values3(degree, t1)[k] = first[k]
      BY <1>1, <1>3 DEF values3
    <2>2. \A k \in 1..n : values3(degree, t2)[k] = second[k]
      BY <1>1, <1>3 DEF values3
    <2>. QED BY <2>1, <2>2, ValuesAre
  <1>5. \A j \in 1..10, k \in 1..10 : first[j] = first[k] => j = k
    OBVIOUS
  <1>6. \A e \in [1..3 -> 0..2] :
          /\ Is(e, 0, 0, 0) => M(e, 1)
          /\ Is(e, 1, 0, 0) => M(e, 2)
          /\ Is(e, 0, 1, 0) => M(e, 3)
          /\ Is(e, 0, 0, 1) => M(e, 4)
          /\ Is(e, 2, 0, 0) => M(e, 5)
          /\ Is(e, 1, 1, 0) => M(e, 6)
          /\ Is(e, 1, 0, 1) => M(e, 7)
          /\ Is(e, 0, 2, 0) => M(e, 8)
          /\ Is(e, 0, 1, 1) => M(e, 9)
          /\ Is(e, 0, 0, 2) => M(e, 10)
    BY <1>3, PowersOf DEF Monomial
  <1> HIDE DEF M, first, second
  <1>7. ASSUME NEW e \in Powers(3, degree)
        PROVE  \E k \in 1..n : M(e, k)
    <2>1. e \in [1..3 -> 0..2] /\ e[1] \in 0..2 /\ e[2] \in 0..2 /\ e[3] \in 0..2
          /\ e[1] + e[2] + e[3] <= degree
      BY DEF Powers
    <2>2. CASE degree = 0
      <3>1. Is(e, 0, 0, 0)
        BY <2>1, <2>2
      <3> HIDE DEF Is
      <3>2. Is(e, 0, 0, 0) => M(e, 1) /\ 1 \in 1..n
        BY <1>1, <1>6, <2>1, <2>2
      <3>. QED BY <3>1, <3>2
    <2>3. CASE degree = 1
      <3>1. Is(e, 0, 0, 0) \/ Is(e, 1, 0, 0) \/ Is(e, 0, 1, 0) \/ Is(e, 0, 0, 1)
        BY <2>1, <2>3
      <3> HIDE DEF Is
      <3>2. Is(e, 0, 0, 0) => M(e, 1) /\ 1 \in 1..n
        BY <1>1, <1>6, <2>1, <2>3
      <3>3. Is(e, 1, 0, 0) => M(e, 2) /\ 2 \in 1..n
        BY <1>1, <1>6, <2>1, <2>3
      <3>4. Is(e, 0, 1, 0) => M(e, 3) /\ 3 \in 1..n
        BY <1>1, <1>6, <2>1, <2>3
      <3>5. Is(e, 0, 0, 1) => M(e, 4) /\ 4 \in 1..n
        BY <1>1, <1>6, <2>1, <2>3
      <3>. QED BY <3>1, <3>2, <3>3, <3>4, <3>5
    <2>4. CASE degree = 2
      <3>1. Is(e, 0, 0, 0) \/ Is(e, 1, 0, 0) \/ Is(e, 0, 1, 0) \/ Is(e, 0, 0, 1) \/ Is(e, 2, 0,
              0) \/ Is(e, 1, 1, 0) \/ Is(e, 1, 0, 1) \/ Is(e, 0, 2, 0) \/ Is(e, 0, 1, 1) \/ Is(e,
                0, 0, 2)
        BY <2>1, <2>4
      <3> HIDE DEF Is
      <3>2. Is(e, 0, 0, 0) => M(e, 1) /\ 1 \in 1..n
        BY <1>1, <1>6, <2>1, <2>4
      <3>3. Is(e, 1, 0, 0) => M(e, 2) /\ 2 \in 1..n
        BY <1>1, <1>6, <2>1, <2>4
      <3>4. Is(e, 0, 1, 0) => M(e, 3) /\ 3 \in 1..n
        BY <1>1, <1>6, <2>1, <2>4
      <3>5. Is(e, 0, 0, 1) => M(e, 4) /\ 4 \in 1..n
        BY <1>1, <1>6, <2>1, <2>4
      <3>6. Is(e, 2, 0, 0) => M(e, 5) /\ 5 \in 1..n
        BY <1>1, <1>6, <2>1, <2>4
      <3>7. Is(e, 1, 1, 0) => M(e, 6) /\ 6 \in 1..n
        BY <1>1, <1>6, <2>1, <2>4
      <3>8. Is(e, 1, 0, 1) => M(e, 7) /\ 7 \in 1..n
        BY <1>1, <1>6, <2>1, <2>4
      <3>9. Is(e, 0, 2, 0) => M(e, 8) /\ 8 \in 1..n
        BY <1>1, <1>6, <2>1, <2>4
      <3>10. Is(e, 0, 1, 1) => M(e, 9) /\ 9 \in 1..n
        BY <1>1, <1>6, <2>1, <2>4
      <3>11. Is(e, 0, 0, 2) => M(e, 10) /\ 10 \in 1..n
        BY <1>1, <1>6, <2>1, <2>4
      <3>. QED BY <3>1, <3>2, <3>3, <3>4, <3>5, <3>6, <3>7, <3>8, <3>9, <3>10, <3>11
    <2>. QED BY <2>2, <2>3, <2>4
  <1>8. ASSUME NEW k \in 1..n
        PROVE  \E e \in Powers(3, degree) : M(e, k)
    <2> DEFINE x == <<<<0, 0, 0>>, <<1, 0, 0>>, <<0, 1, 0>>, <<0, 0, 1>>, <<2, 0, 0>>,
          <<1, 1, 0>>, <<1, 0, 1>>, <<0, 2, 0>>, <<0, 1, 1>>, <<0, 0, 2>>>>[k]
               e == [a \in 1..3 |-> x[a]]
    <2>1. k \in 1..10
      BY <1>2
    <2>2. e[1] = x[1] /\ e[2] = x[2] /\ e[3] = x[3]
      OBVIOUS
    <2>3. x[1] \in 0..degree /\ x[2] \in 0..degree /\ x[3] \in 0..degree
            /\ x[1] + x[2] + x[3] <= degree
      BY <1>1, <2>1
    <2>4. (k = 1 /\ x = <<0, 0, 0>>) \/ (k = 2 /\ x = <<1, 0, 0>>) \/ (k = 3
            /\ x = <<0, 1, 0>>) \/ (k = 4 /\ x = <<0, 0, 1>>) \/ (k = 5
            /\ x = <<2, 0, 0>>) \/ (k = 6 /\ x = <<1, 1, 0>>) \/ (k = 7
            /\ x = <<1, 0, 1>>) \/ (k = 8 /\ x = <<0, 2, 0>>) \/ (k = 9
            /\ x = <<0, 1, 1>>) \/ (k = 10 /\ x = <<0, 0, 2>>)
      BY <2>1
    <2> HIDE DEF x
    <2>5. e \in [1..3 -> 0..degree] /\ e \in [1..3 -> 0..2]
      BY <2>2, <2>3
    <2>6. M(e, k)
      <3>1. (k = 1 /\ Is(e, 0, 0, 0)) \/ (k = 2 /\ Is(e, 1, 0, 0)) \/ (k = 3
              /\ Is(e, 0, 1, 0)) \/ (k = 4 /\ Is(e, 0, 0, 1)) \/ (k = 5
              /\ Is(e, 2, 0, 0)) \/ (k = 6 /\ Is(e, 1, 1, 0)) \/ (k = 7
              /\ Is(e, 1, 0, 1)) \/ (k = 8 /\ Is(e, 0, 2, 0)) \/ (k = 9
              /\ Is(e, 0, 1, 1)) \/ (k = 10 /\ Is(e, 0, 0, 2))
        BY <2>2, <2>4
      <3> HIDE DEF Is, e
      <3>. QED BY <1>6, <2>5, <3>1
    <2>7. e \in Powers(3, degree)
      <3>1. \A axis \in 4..3 : e[axis] = 0
        BY <2>2, <2>3
      <3>2. e[1] + e[2] + e[3] <= degree
        BY <2>2, <2>3
      <3> HIDE DEF e
      <3>. QED BY <2>5, <3>1, <3>2 DEF Powers
    <2> HIDE DEF e
    <2>. QED BY <2>6, <2>7
  <1>9. \A j \in 1..n, k \in 1..n : first[j] = first[k] => j = k
    BY <1>2, <1>5
  <1>10. \A e \in Powers(3, degree) : \E k \in 1..n :
           Monomial(3, e, t1) = first[k] /\ Monomial(3, e, t2) = second[k]
    BY <1>7 DEF M
  <1>11. \A k \in 1..n : \E e \in Powers(3, degree) :
           Monomial(3, e, t1) = first[k] /\ Monomial(3, e, t2) = second[k]
    BY <1>8 DEF M
  <1>12. Tells(3, degree, n, first, second)
    BY <1>4, <1>9, <1>10, <1>11, Zenon DEF Tells, t1, t2
  <1>. QED BY <1>12, ToldApart DEF n
\* The tables for each dimension and degree have the right entries.
LEMMA AllMonomialsRight == MonomialsRight
  <1> SUFFICES ASSUME NEW dim \in 1..3, NEW degree \in 0..2
               PROVE  /\ \A p \in Grid(dim) : RowsAreDerivatives(dim, degree, p)
                      /\ ColumnsAreMonomials(dim, degree, Telling(dim))
    BY DEF MonomialsRight
  <1>1. dim = 1 \/ dim = 2 \/ dim = 3
    OBVIOUS
  <1>2. ColumnsAreMonomials(dim, degree, Telling(dim))
    BY <1>1, Columns1, Columns2, Columns3
  <1>3. ASSUME NEW p \in Grid(dim)
        PROVE  RowsAreDerivatives(dim, degree, p)
    <2>1. p \in [1..dim -> Int]
      BY <1>3 DEF Grid
    <2>2. CASE dim = 1
      BY <2>1, <2>2, Derivatives1
    <2>3. CASE dim = 2
      <3>1. ASSUME NEW axis \in 1..2, NEW k \in 1..basis_size(2, degree)
            PROVE  2 * gradients2(degree, p)[axis][k] =
                     values2(degree, Moved(p, axis, 1))[k] - values2(degree, Moved(p, axis, -1))[k]
        BY <2>1, <2>3, Derivatives2
      <3>2. \A q : Gradients(2, degree, q) = gradients2(degree, q)
              /\ Values(2, degree, q) = values2(degree, q)
        BY ValuesAre, GradientsAre
      <3>. QED BY <2>3, <3>1, <3>2 DEF RowsAreDerivatives
    <2>4. CASE dim = 3
      <3>1. ASSUME NEW axis \in 1..3, NEW k \in 1..basis_size(3, degree)
            PROVE  2 * gradients3(degree, p)[axis][k] =
                     values3(degree, Moved(p, axis, 1))[k] - values3(degree, Moved(p, axis, -1))[k]
        BY <2>1, <2>4, Derivatives3
      <3>2. \A q : Gradients(3, degree, q) = gradients3(degree, q)
              /\ Values(3, degree, q) = values3(degree, q)
        BY ValuesAre, GradientsAre
      <3>. QED BY <2>4, <3>1, <3>2 DEF RowsAreDerivatives
    <2>. QED BY <1>1, <2>2, <2>3, <2>4
  <1>. QED BY <1>2, <1>3

-----------------------------------------------------------------------------
\* Determinants of integers are integers.
LEMMA DeterminantType ==
  ASSUME NEW n \in 1..4, NEW m, Len(m) = n, \A i \in 1..n, j \in 1..n : m[i][j] \in Int
  PROVE  Determinant(m) \in Int
  <1>0. \A x \in Int, y \in Int : x * y \in Int
    OBVIOUS
  <1>1. \A a, b : a[1] \in Int /\ a[2] \in Int /\ b[1] \in Int /\ b[2] \in Int
          => Determinant2(a, b) \in Int
    BY DEF Determinant2
  <1>2. ASSUME NEW a, NEW b, NEW c, \A j \in 1..3 : a[j] \in Int /\ b[j] \in Int /\ c[j] \in Int
        PROVE  Determinant3(a, b, c) \in Int
    <2>1. \A x \in Int, y \in Int, z \in Int, w \in Int : Determinant2(<<x, y>>, <<z, w>>) \in Int
      BY DEF Determinant2
    <2>2. /\ a[1] \in Int /\ a[2] \in Int /\ a[3] \in Int
          /\ b[1] \in Int /\ b[2] \in Int /\ b[3] \in Int
          /\ c[1] \in Int /\ c[2] \in Int /\ c[3] \in Int
      BY <1>2
    <2> DEFINE d1 == Determinant2(<<b[2], b[3]>>, <<c[2], c[3]>>)
               d2 == Determinant2(<<b[1], b[3]>>, <<c[1], c[3]>>)
               d3 == Determinant2(<<b[1], b[2]>>, <<c[1], c[2]>>)
    <2>3. d1 \in Int /\ d2 \in Int /\ d3 \in Int
      BY <2>1, <2>2
    <2>4. Determinant3(a, b, c) = (a[1] * d1 - a[2] * d2) + a[3] * d3
      BY Zenon DEF Determinant3
    <2> HIDE DEF d1, d2, d3
    <2>5. a[1] * d1 \in Int /\ a[2] * d2 \in Int /\ a[3] * d3 \in Int
      BY <1>0, <2>2, <2>3
    <2>. QED BY <2>4, <2>5
  <1>3. n = 1 \/ n = 2 \/ n = 3 \/ n = 4
    OBVIOUS
  <1>4. CASE n = 1
    BY <1>4 DEF Determinant
  <1>5. CASE n = 2
    <2>1. Determinant(m) = Determinant2(m[1], m[2])
      BY <1>5 DEF Determinant
    <2>. QED BY <1>1, <1>5, <2>1
  <1>6. CASE n = 3
    <2>1. Determinant(m) = Determinant3(m[1], m[2], m[3])
      BY <1>6 DEF Determinant
    <2>. QED BY <1>2, <1>6, <2>1
  <1>7. CASE n = 4
    <2> DEFINE Minor(k) == Determinant3(Without(m[2], k), Without(m[3], k), Without(m[4], k))
    <2>1. Determinant(m)
            = ((m[1][1] * Minor(1)) - (m[1][2] * Minor(2))) + ((m[1][3] * Minor(3)) - (m[1][4] * Minor(4)))
      BY <1>7 DEF Determinant
    <2>2. ASSUME NEW k \in 1..4 PROVE Minor(k) \in Int
      <3>1. \A i \in 2..4, j \in 1..3 : Without(m[i], k)[j] \in Int
        BY <1>7 DEF Without
      <3>. QED BY <1>2, <3>1
    <2>3. m[1][1] \in Int /\ m[1][2] \in Int /\ m[1][3] \in Int /\ m[1][4] \in Int
      BY <1>7
    <2> HIDE DEF Minor
    <2>4. Minor(1) \in Int /\ Minor(2) \in Int /\ Minor(3) \in Int /\ Minor(4) \in Int
      BY <2>2
    <2>5. m[1][1] * Minor(1) \in Int /\ m[1][2] * Minor(2) \in Int
          /\ m[1][3] * Minor(3) \in Int /\ m[1][4] * Minor(4) \in Int
      BY <1>0, <2>3, <2>4
    <2>. QED BY <2>1, <2>5
  <1>. QED BY <1>3, <1>4, <1>5, <1>6, <1>7

\* A problem, its points and its number of columns.
IsProblem ==
  /\ problem \in Problems
  /\ problem.dim \in 1..3 /\ problem.degree \in -1..2
  /\ problem.points \in Seq([1..problem.dim -> Int])
       /\ problem.grads \in Seq([1..problem.dim -> Int])
  /\ Size \in 0..4
  /\ PointIndices = 1..Len(problem.points) /\ PointIndices \subseteq Nat
  /\ Len(problem.points) \in Nat
  /\ IsFiniteSet(PointIndices) /\ Cardinality(PointIndices) = Len(problem.points)

LEMMA ProblemIs ==
  ASSUME problem \in Problems
  PROVE  IsProblem
  <1>1. /\ problem.dim \in 1..3 /\ problem.degree \in -1..2 /\ Size <= 4
        /\ problem.points \in Seq([1..problem.dim -> Int])
             /\ problem.grads \in Seq([1..problem.dim -> Int])
    BY ProblemsAssumption DEF Size
  <1>2. Size \in Nat
    <2>1. problem.dim = 1 \/ problem.dim = 2 \/ problem.dim = 3
      BY <1>1
    <2>2. problem.degree = -1 \/ problem.degree = 0 \/ problem.degree = 1 \/ problem.degree = 2
      BY <1>1
    <2>. QED BY <1>1, <2>1, <2>2, BasisSizes, NoColumns DEF Size
  <1>3. Len(problem.points) \in Nat /\ PointIndices = 1..Len(problem.points)
    BY <1>1 DEF PointIndices
  <1>4. IsFiniteSet(1..Len(problem.points))
          /\ Cardinality(1..Len(problem.points)) = Len(problem.points)
    <2>1. 1 \in Int /\ Len(problem.points) \in Int
      BY <1>3
    <2>. QED BY <1>3, <2>1, FS_Interval
  <1>. QED BY <1>1, <1>2, <1>3, <1>4 DEF IsProblem

LEMMA ValuesType ==
  ASSUME NEW dim \in 1..3, NEW degree \in 0..2, NEW p \in [1..dim -> Int]
  PROVE  \A j \in 1..basis_size(dim, degree) : Values(dim, degree, p)[j] \in Int
  <1>0. \A x \in Int, y \in Int : x * y \in Int
    OBVIOUS
  <1>1. CASE dim = 1
    <2>1. p[1] \in Int /\ p[1] * p[1] \in Int
      BY <1>0, <1>1
    <2>2. \A j \in 1..basis_size(1, degree) : values1(degree, p)[j] \in Int
      BY <2>1, BasisSizes DEF values1
    <2>. QED BY <1>1, <2>2, ValuesAre
  <1>2. CASE dim = 2
    <2>1. p[1] \in Int /\ p[2] \in Int
      BY <1>2
    <2>2. p[1] * p[1] \in Int /\ p[1] * p[2] \in Int /\ p[2] * p[2] \in Int
      BY <1>0, <2>1
    <2>3. \A j \in 1..basis_size(2, degree) : values2(degree, p)[j] \in Int
      BY <2>1, <2>2, BasisSizes DEF values2
    <2>. QED BY <1>2, <2>3, ValuesAre
  <1>3. CASE dim = 3
    <2>1. p[1] \in Int /\ p[2] \in Int /\ p[3] \in Int
      BY <1>3
    <2>2. /\ p[1] * p[1] \in Int /\ p[1] * p[2] \in Int /\ p[1] * p[3] \in Int
          /\ p[2] * p[2] \in Int /\ p[2] * p[3] \in Int /\ p[3] * p[3] \in Int
      BY <1>0, <2>1
    <2>3. \A j \in 1..basis_size(3, degree) : values3(degree, p)[j] \in Int
      <3>1. CASE degree = 0
        BY <3>1, BasisSizes DEF values3
      <3>2. CASE degree = 1
        BY <2>1, <3>2, BasisSizes DEF values3
      <3>3. CASE degree = 2
        <4>1. \A j \in 1..10 : values3(2, p)[j] \in Int
          <5>1. ASSUME NEW t, NEW a \in Int, NEW b \in Int, NEW c \in Int, NEW d \in Int, NEW e
                         \in Int,
                       NEW f \in Int, NEW g \in Int, NEW h \in Int, NEW i \in Int,
                       t = <<1, a, b, c, d, e, f, g, h, i>>
                PROVE  \A j \in 1..10 : t[j] \in Int
            BY <5>1
          <5>2. values3(2, p) = <<1, p[1], p[2], p[3], p[1] * p[1], p[1] * p[2], p[1] * p[3],
                                 p[2] * p[2], p[2] * p[3], p[3] * p[3]>>
            BY DEF values3
          <5>. QED BY <2>1, <2>2, <5>1, <5>2, Zenon
        <4>. QED BY <3>3, <4>1, BasisSizes
      <3>. QED BY <3>1, <3>2, <3>3
    <2>. QED BY <1>3, <2>3, ValuesAre
  <1>. QED BY <1>1, <1>2, <1>3

LEMMA EvaluateIs ==
  ASSUME NEW dim, NEW degree, NEW points, NEW grads, NEW mu, mu = Len(points), NEW n, n = Len(grads)
  PROVE  evaluate(dim, degree, points, grads) =
           [r \in 1..(mu + (dim * n)) |->
              IF r <= mu THEN Values(dim, degree, points[r])
              ELSE Gradients(dim, degree,
                grads[((r - mu - 1) \div dim) + 1])[((r - mu - 1) % dim) + 1]]
  BY Zenon DEF evaluate

\* Without gradients the matrix has the values of the points in its rows.
LEMMA RowsOf ==
  ASSUME IsProblem, Size > 0, NEW idcs \in Seq(PointIndices), Len(idcs) = Size
  PROVE  /\ Len(LagrangeRows(idcs, <<>>)) = Size
         /\ \A i \in 1..Size, j \in 1..Size : LagrangeRows(idcs, <<>>)[i][j] \in Int
  <1> DEFINE pts == [k \in DOMAIN idcs |-> problem.points[idcs[k]]]
             dim == problem.dim
             degree == problem.degree
  <1>1. dim \in 1..3 /\ degree \in 0..2 /\ Size \in Nat
    <2>1. dim \in 1..3 /\ degree \in -1..2 /\ Size \in 0..4
      BY DEF IsProblem
    <2>2. degree # -1
      BY <2>1, NoColumns DEF Size
    <2>. QED BY <2>1, <2>2
  <1>2. \A k \in 1..Size : pts[k] \in [1..dim -> Int]
    <2> TAKE k \in 1..Size
    <2>1. idcs[k] \in PointIndices /\ k \in DOMAIN idcs
      BY <1>1
    <2>. QED BY <2>1 DEF IsProblem
  <1>3. Len(pts) = Size /\ Len(<<>>) = 0
    BY <1>1
  <1> HIDE DEF pts
  <1>4. LagrangeRows(idcs, <<>>) = evaluate(dim, degree, pts, <<>>)
    BY Zenon DEF LagrangeRows, pts
  <1>5. Size + dim * 0 = Size
    BY <1>1
  <1> DEFINE row(r) == IF r <= Size THEN Values(dim, degree, pts[r])
                       ELSE Gradients(dim, degree,
                         <<>>[((r - Size - 1) \div dim) + 1])[((r - Size - 1) % dim) + 1]
  <1>6. evaluate(dim, degree, pts, <<>>) = [r \in 1..Size |-> row(r)]
    <2>1. evaluate(dim, degree, pts, <<>>) = [r \in 1..(Size + (dim * 0)) |-> row(r)]
      <3> DEFINE none == <<>>
      <3>1. Len(none) = 0
        OBVIOUS
      <3> HIDE DEF none, dim, degree, row
      <3>3. Size = Len(pts) /\ 0 = Len(none)
        BY <1>3, <3>1
      <3>2. evaluate(dim, degree, pts, none) =
              [r \in 1..(Size + (dim * 0)) |->
                 IF r <= Size THEN Values(dim, degree, pts[r])
                 ELSE Gradients(dim, degree,
                   none[((r - Size - 1) \div dim) + 1])[((r - Size - 1) % dim) + 1]]
        BY <3>3, EvaluateIs
      <3>. QED BY <3>2, Zenon DEF none, row
    <2> HIDE DEF row
    <2>. QED BY <1>5, <2>1
  <1> DEFINE m == LagrangeRows(idcs, <<>>)
  <1>7. DOMAIN m = 1..Size
    BY <1>4, <1>6
  <1>8. \A i \in 1..Size : m[i] = Values(dim, degree, pts[i])
    BY <1>1, <1>4, <1>6
  <1>9. Len(m) = Size
    BY <1>1, <1>4, <1>6
  <1> HIDE DEF m
  <1>10. ASSUME NEW i \in 1..Size, NEW j \in 1..Size PROVE m[i][j] \in Int
    <2>1. j \in 1..basis_size(dim, degree)
      BY DEF Size
    <2>2. Values(dim, degree, pts[i])[j] \in Int
      BY <1>1, <1>2, <2>1, ValuesType
    <2>. QED BY <1>8, <2>2
  <1>. QED BY <1>9, <1>10 DEF m

\* Sorted lists the indices of a set, each once.
LEMMA SortedIs ==
  ASSUME NEW S, S \subseteq Nat, IsFiniteSet(S)
  PROVE  /\ Sorted(S) \in Seq(S) /\ Len(Sorted(S)) = Cardinality(S)
         /\ Cardinality(S) \in Nat
         /\ {Sorted(S)[k] : k \in DOMAIN Sorted(S)} = S
  <1>1. Sorted(S) = Ascending(S)
    BY DEF Sorted, Ascending
  <1>2. DOMAIN Sorted(S) = 1..Cardinality(S)
    BY DEF Sorted
  <1>3. /\ \A i \in 1..Cardinality(S) : Sorted(S)[i] \in S
        /\ \A x \in S : \E i \in 1..Cardinality(S) : Sorted(S)[i] = x
    <2> DEFINE n == Cardinality(S)
               a == Ascending(S)
    <2>1. a \in Seq(S) /\ Len(a) = n /\ n \in Nat
      BY AscendingLists
    <2>2. \A x \in S : \E i \in 1..n : a[i] = x
      BY AscendingLists
    <2> HIDE DEF n, a
    <2>3. \A i \in 1..n : a[i] \in S
      BY <2>1
    <2>. QED BY <1>1, <2>2, <2>3 DEF n, a
  <1>4. {Sorted(S)[k] : k \in DOMAIN Sorted(S)} = S
    BY <1>2, <1>3
  <1>. QED BY <1>1, <1>4, AscendingLists

\* The set of a trial can be used if and only if its condition is better than zero.
LEMMA RcondType ==
  ASSUME IsProblem, Size > 0, NEW S, S \subseteq PointIndices, Cardinality(S) = Size
  PROVE  /\ Rcond(S) \in Nat
         /\ Rcond(S) > 0 <=> Invertible(LagrangeRows(Sorted(S), <<>>))
  <1>1. IsFiniteSet(S) /\ S \subseteq Nat
    BY FS_Subset DEF IsProblem
  <1>2. Sorted(S) \in Seq(PointIndices) /\ Len(Sorted(S)) = Size
    <2>1. Sorted(S) \in Seq(S) /\ Len(Sorted(S)) = Size
      BY <1>1, SortedIs
    <2>. QED BY <2>1
  <1> DEFINE m == LagrangeRows(Sorted(S), <<>>)
  <1>3. Len(m) = Size /\ \A i \in 1..Size, j \in 1..Size : m[i][j] \in Int
    BY <1>2, RowsOf
  <1>4. Size \in 1..4
    BY DEF IsProblem
  <1> HIDE DEF m
  <1>5. Determinant(m) \in Int
    BY <1>3, <1>4, DeterminantType
  <1>6. Abs(Determinant(m)) \in Nat /\ (Abs(Determinant(m)) > 0 <=> Determinant(m) # 0)
    BY <1>5 DEF Abs
  <1>. QED BY <1>6 DEF Rcond, Invertible, m

\* One point fixes the polynomial with its value and its gradient.
LEMMA SpecialFixed ==
  ASSUME IsProblem, Special(problem)
  PROVE  Invertible(LagrangeRows(<<1>>, SubSeq(problem.grads, 1, 1)))
  <1> DEFINE pts == [k \in DOMAIN <<1>> |-> problem.points[<<1>>[k]]]
             grads == SubSeq(problem.grads, 1, 1)
             dim == problem.dim
             p == problem.points[1]
             g == problem.grads[1]
  <1>1. /\ dim \in 1..3 /\ problem.degree = 1
        /\ p \in [1..dim -> Int] /\ g \in [1..dim -> Int]
    <2>1. dim \in 1..3 /\ problem.points \in Seq([1..dim -> Int])
            /\ problem.grads \in Seq([1..dim -> Int])
      BY DEF IsProblem
    <2>2. problem.degree = 1 /\ Len(problem.points) = 1 /\ Len(problem.grads) >= 1
      BY DEF Special
    <2>3. Len(problem.grads) \in Nat
      BY <2>1
    <2>4. 1 \in 1..Len(problem.points) /\ 1 \in 1..Len(problem.grads)
      BY <2>2, <2>3
    <2>5. p \in [1..dim -> Int]
      BY <2>1, <2>4, ElementOfSeq, Zenon
    <2>6. g \in [1..dim -> Int]
      BY <2>1, <2>4, ElementOfSeq, Zenon
    <2>. QED BY <2>1, <2>2, <2>5, <2>6
  <1>2. Len(pts) = 1 /\ pts[1] = p
    OBVIOUS
  <1>3. Len(grads) = 1 /\ grads[1] = g
    BY DEF IsProblem, Special
  <1> DEFINE m == evaluate(dim, 1, pts, grads)
  <1>4. LagrangeRows(<<1>>, grads) = m
    BY <1>1, Zenon DEF LagrangeRows
  <1> HIDE DEF pts, grads, p, g
  <1>5. m = [r \in 1..(1 + (dim * 1)) |->
               IF r <= 1 THEN Values(dim, 1, pts[r])
               ELSE LET k == r - 1 - 1
                    IN Gradients(dim, 1, grads[(k \div dim) + 1])[(k % dim) + 1]]
    BY <1>2, <1>3, Zenon DEF evaluate
  <1>6. 1 + dim * 1 = dim + 1
    BY <1>1
  <1>7. Len(m) = dim + 1 /\ m[1] = Values(dim, 1, p)
    BY <1>1, <1>2, <1>5, <1>6
  <1>8. ASSUME NEW a \in 1..dim
        PROVE  m[a + 1] = Gradients(dim, 1, g)[a]
    <2>1. a + 1 \in 1..(dim + 1) /\ ~(a + 1 <= 1) /\ (a + 1) - 1 - 1 = a - 1
      BY <1>1
    <2>2. (a - 1) \div dim = 0 /\ (a - 1) % dim = a - 1 /\ (a - 1) + 1 = a
      <3>1. CASE dim = 1
        BY <3>1
      <3>2. CASE dim = 2
        BY <3>2
      <3>3. CASE dim = 3
        BY <3>3
      <3>. QED BY <1>1, <3>1, <3>2, <3>3
    <2>3. m[a + 1] = LET k == (a + 1) - 1 - 1 IN Gradients(dim, 1,
            grads[(k \div dim) + 1])[(k % dim) + 1]
      BY <1>5, <1>6, <2>1
    <2>4. m[a + 1] = Gradients(dim, 1, grads[0 + 1])[a]
      BY <2>1, <2>2, <2>3
    <2>5. 0 + 1 = 1
      OBVIOUS
    <2>. QED BY <1>3, <2>4, <2>5
  <1> HIDE DEF m
  <1>9. Determinant(m) = 1
    <2>1. CASE dim = 1
      <3>1. m[1] = values1(1, p) /\ m[2] = gradients1(1, g)[1]
        BY <1>7, <1>8, <2>1, ValuesAre, GradientsAre
      <3>2. p[1] \in Int
        BY <1>1, <2>1
      <3>3. m[1] = <<1, p[1]>> /\ m[2] = <<0, 1>>
        BY <3>1 DEF values1, gradients1
      <3>4. Determinant(m) = Determinant2(m[1], m[2])
        BY <1>7, <2>1 DEF Determinant
      <3>. QED BY <3>2, <3>3, <3>4 DEF Determinant2
    <2>2. CASE dim = 2
      <3>1. m[1] = values2(1, p) /\ m[2] = gradients2(1, g)[1] /\ m[3] = gradients2(1, g)[2]
        BY <1>7, <1>8, <2>2, ValuesAre, GradientsAre
      <3>2. p[1] \in Int /\ p[2] \in Int
        BY <1>1, <2>2
      <3>3. m[1] = <<1, p[1], p[2]>> /\ m[2] = <<0, 1, 0>> /\ m[3] = <<0, 0, 1>>
        BY <3>1 DEF values2, gradients2
      <3>4. Determinant(m) = Determinant3(m[1], m[2], m[3])
        BY <1>7, <2>2 DEF Determinant
      <3>. QED BY <3>2, <3>3, <3>4 DEF Determinant3, Determinant2
    <2>3. CASE dim = 3
      <3>1. m[1] = values3(1, p) /\ m[2] = gradients3(1, g)[1] /\ m[3] = gradients3(1, g)[2]
              /\ m[4] = gradients3(1, g)[3]
        BY <1>7, <1>8, <2>3, ValuesAre, GradientsAre
      <3>2. p[1] \in Int /\ p[2] \in Int /\ p[3] \in Int
        BY <1>1, <2>3
      <3>3. m[1] = <<1, p[1], p[2], p[3]>> /\ m[2] = <<0, 1, 0, 0>> /\ m[3] = <<0, 0, 1, 0>>
              /\ m[4] = <<0, 0, 0, 1>>
        BY <3>1 DEF values3, gradients3
      <3> DEFINE Minor(k) == Determinant3(Without(m[2], k), Without(m[3], k), Without(m[4], k))
      <3>4. Determinant(m)
              = ((m[1][1] * Minor(1)) - (m[1][2] * Minor(2))) + ((m[1][3] * Minor(3)) - (m[1][4] * Minor(4)))
        BY <1>7, <2>3 DEF Determinant
      <3>5. Minor(1) = 1
        BY <3>3 DEF Without, Determinant3, Determinant2
      <3>6. Minor(2) = 0
        BY <3>3 DEF Without, Determinant3, Determinant2
      <3>7. Minor(3) = 0
        BY <3>3 DEF Without, Determinant3, Determinant2
      <3>8. Minor(4) = 0
        BY <3>3 DEF Without, Determinant3, Determinant2
      <3> HIDE DEF Minor
      <3>9. Determinant(m) = ((1 * 1) - (p[1] * 0)) + ((p[2] * 0) - (p[3] * 0))
        BY <3>3, <3>4, <3>5, <3>6, <3>7, <3>8
      <3>. QED BY <3>2, <3>9
    <2>. QED BY <1>1, <2>1, <2>2, <2>3
  <1>. QED BY <1>4, <1>9 DEF Invertible, grads

\* The polynomial points are in front, and no point is lost.
InFront(idcs, all) ==
  /\ SubSeq(all, 1, Len(idcs)) = idcs
  /\ Len(all) = Cardinality(PointIndices) /\ {all[k] : k \in DOMAIN all} = PointIndices

LEMMA SequenceOfSubset ==
  ASSUME NEW A, NEW B, A \subseteq B, NEW q \in Seq(A)
  PROVE  q \in Seq(B)
  OBVIOUS

LEMMA PolyFirstLists ==
  ASSUME IsProblem, NEW idcs \in Seq(PointIndices), NEW B \in SUBSET PointIndices,
         B = {idcs[k] : k \in DOMAIN idcs}, Cardinality(B) = Len(idcs)
  PROVE  InFront(idcs, PolyFirst(idcs))
  <1> DEFINE R == PointIndices \ B
             s == Sorted(R)
             n == Len(idcs)
             all == idcs \o s
  <1>1. IsFiniteSet(PointIndices) /\ PointIndices \subseteq Nat /\ Cardinality(PointIndices) \in Nat
    BY DEF IsProblem
  <1>2. R \subseteq PointIndices /\ R \subseteq Nat
    BY <1>1
  <1>3. IsFiniteSet(R) /\ Cardinality(R) = Cardinality(PointIndices) - Cardinality(B)
    <2>1. PointIndices \cap B = B
      OBVIOUS
    <2>. QED BY <1>1, <2>1, FS_Difference
  <1>4. all = PolyFirst(idcs)
    BY Zenon DEF PolyFirst
  <1> HIDE DEF R
  <1>5. s \in Seq(R) /\ Len(s) = Cardinality(R) /\ {s[k] : k \in DOMAIN s} = R
    BY <1>2, <1>3, SortedIs
  <1> HIDE DEF s
  <1>6. s \in Seq(PointIndices)
    <2>1. s \in Seq(R)
      BY <1>5
    <2>. QED BY <1>2, <2>1, SequenceOfSubset
  <1>7. n \in Nat /\ Len(s) \in Nat
    BY <1>5
  <1>8. /\ all \in Seq(PointIndices) /\ Len(all) = n + Len(s) /\ DOMAIN all = 1..(n + Len(s))
        /\ \A k \in 1..n : all[k] = idcs[k]
        /\ \A k \in 1..Len(s) : all[n + k] = s[k]
    BY <1>6, <1>7
  <1> HIDE DEF all
  <1>9. Len(all) = Cardinality(PointIndices)
    BY <1>1, <1>3, <1>5, <1>7, <1>8
  <1>10. SubSeq(all, 1, n) = idcs
    <2>1. SubSeq(all, 1, n) = [k \in 1..n |-> all[k]]
      BY <1>7, <1>8
    <2>2. idcs = [k \in 1..n |-> idcs[k]]
      BY <1>7
    <2>. QED BY <1>8, <2>1, <2>2
  <1>11. {all[k] : k \in DOMAIN all} = PointIndices
    <2>1. ASSUME NEW k \in DOMAIN all PROVE all[k] \in PointIndices
      BY <1>8
    <2>2. ASSUME NEW x \in B PROVE \E k \in DOMAIN all : all[k] = x
      <3>1. PICK k \in DOMAIN idcs : idcs[k] = x
        OBVIOUS
      <3>2. k \in 1..n /\ k \in 1..(n + Len(s))
        BY <1>7
      <3>. QED BY <1>8, <3>1, <3>2
    <2>3. ASSUME NEW x \in R PROVE \E k \in DOMAIN all : all[k] = x
      <3>1. PICK k \in DOMAIN s : s[k] = x
        BY <1>5
      <3>2. k \in 1..Len(s) /\ n + k \in 1..(n + Len(s))
        BY <1>5, <1>7
      <3>. QED BY <1>8, <3>1, <3>2
    <2>4. \A x \in PointIndices : x \in B \/ x \in R
      BY DEF R
    <2>. QED BY <2>1, <2>2, <2>3, <2>4
  <1>. QED BY <1>4, <1>9, <1>10, <1>11 DEF InFront, n

-----------------------------------------------------------------------------
\* The best set is one of those that were drawn, none of which is conditioned better.
Best ==
  /\ \A S \in tried : S \subseteq PointIndices /\ Cardinality(S) = Size /\ Rcond(S) <= best_rcond
  /\ found => best_set \in tried /\ best_rcond = Rcond(best_set) /\ best_rcond > 0
  /\ ~found => best_rcond = 0
Drawing ==
  /\ polyPc = "start" => tried = {}
  /\ polyPc \in {"draw", "thrown"} => Size > 0 /\ ~Special(problem)
  /\ Size = 0 => tried = {}
FrontRows == LagrangeRows(poly, IF Special(problem) THEN SubSeq(problem.grads, 1, 1) ELSE <<>>)
Chosen ==
  /\ polyPc = "done" =>
       /\ Size > 0 => Invertible(FrontRows)
       /\ \A S \in tried : Rcond(S) <= Rcond({poly[k] : k \in DOMAIN poly})
       /\ InFront(poly, order)
  /\ polyPc = "thrown" => \A S \in tried : ~Invertible(LagrangeRows(Sorted(S), <<>>))
PolyInv == IsProblem /\ PolyTypeOK /\ Best /\ Drawing /\ Chosen

LEMMA PolyInvInit == PolyInit => PolyInv
  <1> SUFFICES ASSUME PolyInit PROVE PolyInv
    OBVIOUS
  <1>1. IsProblem
    BY ProblemIs DEF PolyInit
  <1>2. PolyTypeOK
    <2>1. 0 \in 0..NumTrials /\ 0 \in Nat
      BY NumTrialsAssumption
    <2>. QED BY <2>1 DEF PolyInit, PolyTypeOK
  <1>3. Best /\ Drawing /\ Chosen
    BY DEF PolyInit, Best, Drawing, Chosen
  <1>. QED BY <1>1, <1>2, <1>3 DEF PolyInv

\* Nothing is known of the set of a trial but from the problem.
LEMMA SameProblem ==
  ASSUME problem' = problem
  PROVE  /\ Size' = Size /\ PointIndices' = PointIndices
         /\ (IsProblem' <=> IsProblem) /\ (Special(problem)' <=> Special(problem))
         /\ \A S : Rcond(S)' = Rcond(S)
         /\ \A idcs, grads : LagrangeRows(idcs, grads)' = LagrangeRows(idcs, grads)
         /\ \A idcs, all : InFront(idcs, all)' <=> InFront(idcs, all)
  <1>1. Size' = Size /\ PointIndices' = PointIndices
    BY DEF Size, PointIndices
  <1>2. \A idcs, grads : LagrangeRows(idcs, grads)' = LagrangeRows(idcs, grads)
    BY DEF LagrangeRows
  <1>3. \A S : Rcond(S)' = Rcond(S)
    BY <1>2 DEF Rcond
  <1>4. IsProblem' <=> IsProblem
    BY <1>1 DEF IsProblem
  <1>5. Special(problem)' <=> Special(problem)
    OBVIOUS
  <1>6. \A idcs, all : InFront(idcs, all)' <=> InFront(idcs, all)
    BY <1>1 DEF InFront
  <1>. QED BY <1>1, <1>2, <1>3, <1>4, <1>5, <1>6

LEMMA PolyInvNext == PolyInv /\ [PolyNext]_polyVars => PolyInv'
  <1> SUFFICES ASSUME PolyInv, [PolyNext]_polyVars PROVE PolyInv'
    OBVIOUS
  <1>1. problem' = problem
    BY DEF PolyNext, StartWithout, Start, Draw, Try, Choose, Fail, polyVars
  <1>2. /\ Size' = Size /\ PointIndices' = PointIndices
        /\ (IsProblem' <=> IsProblem) /\ (Special(problem)' <=> Special(problem))
    BY <1>1, SameProblem
  <1>3. \A S : Rcond(S)' = Rcond(S)
    BY <1>1, SameProblem
  <1>4. \A idcs, grads : LagrangeRows(idcs, grads)' = LagrangeRows(idcs, grads)
    BY <1>1, SameProblem
  <1>5. \A idcs, all : InFront(idcs, all)' <=> InFront(idcs, all)
    BY <1>1, SameProblem
  <1>6. IsProblem /\ IsProblem' /\ PolyTypeOK
    BY <1>2 DEF PolyInv
  <1>7. ASSUME StartWithout PROVE PolyInv'
    <2>1. tried = {} /\ tried' = {} /\ polyPc' = "done" /\ poly' = IF Size = 0 THEN <<>> ELSE <<1>>
      BY <1>7 DEF PolyInv, Drawing, StartWithout
    <2>2. order' = PolyFirst(poly')
      BY <1>7 DEF StartWithout
    <2>3. PolyTypeOK'
      BY <1>2, <1>6, <1>7 DEF PolyTypeOK, StartWithout
    <2>4. Best'
      BY <1>2, <1>3, <1>7, <2>1 DEF PolyInv, Best, StartWithout
    <2>5. Drawing'
      BY <2>1 DEF Drawing
    <2>6. InFront(poly', PolyFirst(poly'))
      <3>1. CASE Size = 0
        <4>1. <<>> \in Seq(PointIndices) /\ {} = {<<>>[k] : k \in DOMAIN <<>>} /\ Len(<<>>) = 0
          OBVIOUS
        <4>2. Cardinality({}) = 0 /\ {} \in SUBSET PointIndices
          BY FS_EmptySet
        <4>3. InFront(<<>>, PolyFirst(<<>>))
          BY <1>6, <4>1, <4>2, PolyFirstLists
        <4>. QED BY <2>1, <3>1, <4>3
      <3>2. CASE Size # 0
        <4>1. Special(problem)
          BY <1>7, <3>2 DEF StartWithout
        <4>2. 1 \in PointIndices
          BY <1>6, <4>1 DEF IsProblem, Special
        <4>3. <<1>> \in Seq(PointIndices) /\ {1} = {<<1>>[k] : k \in DOMAIN <<1>>} /\ Len(<<1>>) = 1
          BY <4>2
        <4>4. Cardinality({1}) = 1 /\ {1} \in SUBSET PointIndices
          BY <4>2, FS_Singleton
        <4>5. InFront(<<1>>, PolyFirst(<<1>>))
          BY <1>6, <4>3, <4>4, PolyFirstLists
        <4>. QED BY <2>1, <3>2, <4>5
      <3>. QED BY <3>1, <3>2
    <2>7. Size > 0 => Invertible(FrontRows')
      <3> SUFFICES ASSUME Size > 0 PROVE Invertible(FrontRows')
        OBVIOUS
      <3>1. Size # 0
        BY <1>6 DEF IsProblem
      <3>2. Special(problem) /\ poly' = <<1>>
        BY <1>7, <2>1, <3>1 DEF StartWithout
      <3>3. FrontRows' = LagrangeRows(<<1>>, SubSeq(problem.grads, 1, 1))
        BY <1>1, <1>2, <1>4, <3>2 DEF FrontRows
      <3>. QED BY <1>6, <3>2, <3>3, SpecialFixed
    <2>8. Chosen'
      <3>1. (Size > 0 => Invertible(FrontRows))'
        BY <1>2, <2>7
      <3>2. InFront(poly, order)'
        BY <1>2, <2>2, <2>6 DEF InFront
      <3>. QED BY <2>1, <3>1, <3>2 DEF Chosen
    <2>. QED BY <1>6, <2>3, <2>4, <2>5, <2>8 DEF PolyInv
  <1>8. ASSUME Start \/ Draw PROVE PolyInv'
    <2>1. /\ UNCHANGED <<tried, best_set, best_rcond, found, poly, order>>
          /\ polyPc' = "draw" /\ polyPc \in {"start", "draw"}
      BY <1>8 DEF Start, Draw
    <2>2. Size > 0 /\ ~Special(problem)
      BY <1>8 DEF Start, Draw, PolyInv, Drawing
    <2>3. PolyTypeOK'
      BY <1>2, <1>6, <1>8 DEF PolyTypeOK, Start, Draw
    <2>4. Best'
      BY <1>2, <1>3, <2>1 DEF PolyInv, Best
    <2>5. Drawing'
      <3>1. Size > 0 => Size # 0
        OBVIOUS
      <3>. QED BY <1>2, <2>1, <2>2, <3>1 DEF Drawing
    <2>6. Chosen'
      BY <2>1 DEF Chosen
    <2>. QED BY <1>6, <2>3, <2>4, <2>5, <2>6 DEF PolyInv
  <1>9. ASSUME Try PROVE PolyInv'
    <2>1. /\ polyPc = "draw" /\ polyPc' = "draw" /\ trial < NumTrials /\ Cardinality(set) = Size
          /\ tried' = tried \cup {set} /\ set' = {} /\ trial' = trial + 1
          /\ UNCHANGED <<poly, order>>
      BY <1>9 DEF Try
    <2>2. Size > 0 /\ ~Special(problem)
      BY <2>1 DEF PolyInv, Drawing
    <2>3. set \subseteq PointIndices /\ best_rcond \in Nat /\ trial \in Nat
      BY <1>6 DEF PolyTypeOK
    <2>4. Rcond(set) \in Nat /\ (Rcond(set) > 0 <=> Invertible(LagrangeRows(Sorted(set), <<>>)))
      BY <1>6, <2>1, <2>2, <2>3, RcondType
    <2> DEFINE r == Rcond(set)
               usable == Invertible(LagrangeRows(Sorted(set), <<>>))
    <2>5. \/ /\ usable /\ found' = TRUE
             /\ \/ best_rcond < r /\ best_rcond' = r /\ best_set' = set
                \/ ~(best_rcond < r) /\ UNCHANGED <<best_rcond, best_set>>
          \/ ~usable /\ UNCHANGED <<found, best_rcond, best_set>>
      BY <1>9 DEF Try
    <2>6. r \in Nat /\ (r > 0 <=> usable)
      BY <2>4
    <2>7. r = Rcond(set)
      OBVIOUS
    <2> HIDE DEF r, usable
    <2>8. PolyTypeOK'
      <3>1. best_set' \subseteq PointIndices /\ best_rcond' \in Nat /\ found' \in BOOLEAN
        BY <1>6, <2>3, <2>5, <2>6 DEF PolyTypeOK
      <3>2. trial' \in 0..NumTrials
        BY <2>1, <2>3, NumTrialsAssumption
      <3>. QED BY <1>2, <2>1, <3>1, <3>2 DEF PolyTypeOK
    <2>9. best_rcond <= best_rcond' /\ r <= best_rcond' /\ best_rcond' \in Nat
      <3>1. found \/ best_rcond = 0
        BY DEF PolyInv, Best
      <3>. QED BY <2>3, <2>5, <2>6
    <2>10. Best'
      <3>1. ASSUME NEW S \in tried'
            PROVE  S \subseteq PointIndices /\ Cardinality(S) = Size /\ Rcond(S) <= best_rcond'
        <4>1. CASE S = set
          BY <2>1, <2>3, <2>7, <2>9, <4>1
        <4>2. CASE S # set
          <5>1. S \in tried
            BY <2>1, <4>2
          <5>2. S \subseteq PointIndices /\ Cardinality(S) = Size /\ Rcond(S) <= best_rcond
            BY <5>1 DEF PolyInv, Best
          <5>3. Rcond(S) \in Nat
            BY <1>6, <2>2, <5>2, RcondType
          <5>. QED BY <2>3, <2>9, <5>2, <5>3
        <4>. QED BY <4>1, <4>2
      <3>2. found' => best_set' \in tried' /\ best_rcond' = Rcond(best_set') /\ best_rcond' > 0
        <4> SUFFICES ASSUME found' PROVE best_set' \in tried' /\ best_rcond' = Rcond(best_set')
                       /\ best_rcond' > 0
          OBVIOUS
        <4>1. CASE usable /\ best_rcond < r
          <5>1. best_rcond' = r /\ best_set' = set
            BY <2>5, <4>1
          <5>2. r > 0
            BY <2>6, <4>1
          <5>. QED BY <2>1, <2>7, <5>1, <5>2
        <4>2. CASE usable /\ ~(best_rcond < r)
          <5>1. best_rcond' = best_rcond /\ best_set' = best_set
            BY <2>5, <4>2
          <5>2. best_rcond > 0
            BY <2>3, <2>6, <4>2
          <5>3. found
            BY <5>2 DEF PolyInv, Best
          <5>4. best_set \in tried /\ best_rcond = Rcond(best_set)
            BY <5>3 DEF PolyInv, Best
          <5>. QED BY <2>1, <5>1, <5>2, <5>4
        <4>3. CASE ~usable
          <5>1. found /\ best_rcond' = best_rcond /\ best_set' = best_set
            BY <2>5, <4>3
          <5>2. best_set \in tried /\ best_rcond = Rcond(best_set) /\ best_rcond > 0
            BY <5>1 DEF PolyInv, Best
          <5>. QED BY <2>1, <5>1, <5>2
        <4>. QED BY <4>1, <4>2, <4>3
      <3>3. ~found' => best_rcond' = 0
        BY <2>5 DEF PolyInv, Best
      <3>. QED BY <1>2, <1>3, <3>1, <3>2, <3>3 DEF Best
    <2>11. Drawing'
      <3>1. Size > 0 => Size # 0
        OBVIOUS
      <3>. QED BY <1>2, <2>1, <2>2, <3>1 DEF Drawing
    <2>12. Chosen'
      BY <2>1 DEF Chosen
    <2>. QED BY <1>6, <2>8, <2>10, <2>11, <2>12 DEF PolyInv
  <1>10. ASSUME Choose PROVE PolyInv'
    <2>1. /\ polyPc = "draw" /\ polyPc' = "done" /\ found /\ poly' = Sorted(best_set)
          /\ UNCHANGED <<tried, best_set, best_rcond, found>>
      BY <1>10 DEF Choose
    <2>2. order' = PolyFirst(poly')
      BY <1>10 DEF Choose
    <2>3. Size > 0 /\ ~Special(problem)
      BY <2>1 DEF PolyInv, Drawing
    <2>4. best_set \in tried /\ best_rcond = Rcond(best_set) /\ best_rcond > 0
      BY <2>1 DEF PolyInv, Best
    <2>5. best_set \subseteq PointIndices /\ Cardinality(best_set) = Size
      BY <2>4 DEF PolyInv, Best
    <2>6. IsFiniteSet(best_set) /\ best_set \subseteq Nat
      BY <1>6, <2>5, FS_Subset DEF IsProblem
    <2>7. /\ poly' \in Seq(best_set) /\ Len(poly') = Cardinality(best_set)
          /\ {poly'[k] : k \in DOMAIN poly'} = best_set
      <3>1. /\ Sorted(best_set) \in Seq(best_set) /\ Len(Sorted(best_set)) = Cardinality(best_set)
            /\ {Sorted(best_set)[k] : k \in DOMAIN Sorted(best_set)} = best_set
        BY <2>6, SortedIs
      <3>. QED BY <2>1, <3>1, Zenon
    <2>8. poly' \in Seq(PointIndices)
      BY <2>5, <2>7
    <2>9. InFront(poly', PolyFirst(poly'))
      <3> DEFINE q == poly'
      <3>1. /\ q \in Seq(PointIndices) /\ best_set \in SUBSET PointIndices
            /\ best_set = {q[k] : k \in DOMAIN q} /\ Cardinality(best_set) = Len(q)
        BY <2>5, <2>7, <2>8
      <3> HIDE DEF q
      <3>2. InFront(q, PolyFirst(q))
        BY <1>6, <3>1, PolyFirstLists
      <3>. QED BY <3>2 DEF q
    <2>10. PolyTypeOK'
      BY <1>2, <1>6, <1>10 DEF PolyTypeOK, Choose
    <2>11. Best'
      BY <1>2, <1>3, <2>1 DEF PolyInv, Best
    <2>12. Drawing'
      <3>1. Size > 0 => Size # 0
        OBVIOUS
      <3>. QED BY <1>2, <2>1, <2>3, <3>1 DEF Drawing
    <2>13. Chosen'
      <3>1. Invertible(FrontRows')
        <4>1. FrontRows' = LagrangeRows(Sorted(best_set), <<>>)
          BY <1>2, <1>4, <2>1, <2>3 DEF FrontRows
        <4>2. Invertible(LagrangeRows(Sorted(best_set), <<>>))
          BY <1>6, <2>3, <2>4, <2>5, RcondType
        <4>. QED BY <4>1, <4>2
      <3>2. \A S \in tried' : Rcond(S)' <= (Rcond({poly[k] : k \in DOMAIN poly}))'
        <4>1. (Rcond({poly[k] : k \in DOMAIN poly}))' = best_rcond
          BY <1>3, <2>4, <2>7
        <4>2. \A S \in tried : Rcond(S) <= best_rcond
          BY DEF PolyInv, Best
        <4>. QED BY <1>3, <2>1, <4>1, <4>2
      <3>3. InFront(poly, order)'
        BY <1>2, <2>2, <2>9 DEF InFront
      <3>. QED BY <2>1, <3>1, <3>2, <3>3 DEF Chosen
    <2>. QED BY <1>6, <2>10, <2>11, <2>12, <2>13 DEF PolyInv
  <1>11. ASSUME Fail PROVE PolyInv'
    <2>1. /\ polyPc = "draw" /\ polyPc' = "thrown" /\ ~found
          /\ UNCHANGED <<tried, best_set, best_rcond, found>>
      BY <1>11 DEF Fail
    <2>2. Size > 0 /\ ~Special(problem) /\ best_rcond = 0
      BY <2>1 DEF PolyInv, Drawing, Best
    <2>3. PolyTypeOK'
      BY <1>2, <1>6, <1>11 DEF PolyTypeOK, Fail
    <2>4. Best'
      BY <1>2, <1>3, <2>1 DEF PolyInv, Best
    <2>5. Drawing'
      <3>1. Size > 0 => Size # 0
        OBVIOUS
      <3>. QED BY <1>2, <2>1, <2>2, <3>1 DEF Drawing
    <2>6. ASSUME NEW S \in tried PROVE ~Invertible(LagrangeRows(Sorted(S), <<>>))
      <3>1. S \subseteq PointIndices /\ Cardinality(S) = Size /\ Rcond(S) <= 0
        BY <2>2 DEF PolyInv, Best
      <3>2. Rcond(S) \in Nat /\ (Rcond(S) > 0 <=> Invertible(LagrangeRows(Sorted(S), <<>>)))
        BY <1>6, <2>2, <3>1, RcondType
      <3>. QED BY <3>1, <3>2
    <2>7. Chosen'
      <3>1. \A S : (LagrangeRows(Sorted(S), <<>>))' = LagrangeRows(Sorted(S), <<>>)
        BY <1>4
      <3>2. \A S \in tried' : ~Invertible(LagrangeRows(Sorted(S), <<>>)')
        BY <2>1, <2>6, <3>1
      <3>. QED BY <2>1, <3>2 DEF Chosen
    <2>. QED BY <1>6, <2>3, <2>4, <2>5, <2>7 DEF PolyInv
  <1>12. ASSUME UNCHANGED polyVars PROVE PolyInv'
    <2>1. /\ polyPc' = polyPc /\ trial' = trial /\ set' = set /\ best_set' = best_set
          /\ best_rcond' = best_rcond /\ found' = found /\ tried' = tried /\ poly' = poly
               /\ order' = order
      BY <1>12 DEF polyVars
    <2>2. PolyTypeOK'
      BY <1>2, <1>6, <2>1 DEF PolyTypeOK
    <2>3. Best'
      BY <1>2, <1>3, <2>1 DEF PolyInv, Best
    <2>4. Drawing'
      BY <1>2, <2>1 DEF PolyInv, Drawing
    <2>5. Chosen'
      <3>1. FrontRows' = FrontRows
        BY <1>1, <1>2, <1>4, <2>1 DEF FrontRows
      <3>2. InFront(poly, order)' <=> InFront(poly, order)
        BY <1>2, <2>1 DEF InFront
      <3>3. (Rcond({poly[k] : k \in DOMAIN poly}))' = Rcond({poly[k] : k \in DOMAIN poly})
        BY <1>3, <2>1
      <3>4. \A S : (LagrangeRows(Sorted(S), <<>>))' = LagrangeRows(Sorted(S), <<>>)
        BY <1>4
      <3>. QED BY <1>2, <1>3, <2>1, <3>1, <3>2, <3>3, <3>4 DEF PolyInv, Chosen
    <2>. QED BY <1>6, <2>2, <2>3, <2>4, <2>5 DEF PolyInv
  <1>. QED BY <1>7, <1>8, <1>9, <1>10, <1>11, <1>12 DEF PolyNext

LEMMA PolyInvAlways == PolySpec => []PolyInv
  BY PolyInvInit, PolyInvNext, PTL DEF PolySpec

\* PolynomialPoints: the types of the choice of the points that fix the polynomial.
THEOREM PolyTypes == PolySpec => []PolyTypeOK
  <1>1. PolyInv => PolyTypeOK
    BY DEF PolyInv
  <1>. QED BY <1>1, PolyInvAlways, PTL

\* UnisolventPointSet, RasPreconditioner: whatever the points are, however many trials there
\* are and whatever they draw, the points in front fix the polynomial and are the best that was
\* drawn; the other points follow, none lost; it throws only if nothing drawn can be used.
THEOREM PolynomialAlwaysFixed == PolySpec => []PolynomialFixed
  <1>1. PolyInv => PolynomialFixed
    <2> SUFFICES ASSUME PolyInv PROVE PolynomialFixed
      OBVIOUS
    <2>1. polyPc = "done" => Chosen /\ InFront(poly, order) /\ (Size > 0 => Invertible(FrontRows))
      BY DEF PolyInv, Chosen
    <2>. QED BY <2>1, AllMonomialsRight DEF PolyInv, Chosen, PolynomialFixed, FrontRows, InFront
  <1>. QED BY <1>1, PolyInvAlways, PTL
=============================================================================
