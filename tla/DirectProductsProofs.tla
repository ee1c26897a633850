------------------------ MODULE DirectProductsProofs ------------------------
(***************************************************************************)
(* Proofs about DirectProducts, for any number of threads and any points   *)
(* and models: the threads share the rows so that each row has exactly     *)
(* one of them; while they add what they have to y one after another, none *)
(* of them misses what another one has added; and in the end each row has  *)
(* each of its terms once.  What is known of sums of terms and of the rows *)
(* and columns of the matrix comes first; the proofs about the products by *)
(* blocks rest on it as well.                                              *)
(***************************************************************************)
EXTENDS DirectProducts, SequenceTheorems, FiniteSetTheorems, FunctionTheorems, TLAPS

-----------------------------------------------------------------------------
(* Sums of terms                                                            *)

\* What SumOf and SetToBag return: how often each of some terms is there.
IsSum(b) == b \in [DOMAIN b -> Nat \ {0}]

\* A sum over finitely many elements counts each term that is there.
LEMMA SumType == ASSUME NEW f, IsFiniteSet(DOMAIN f) PROVE IsSum(SumOf(f))
  <1>1. ASSUME NEW e \in {f[x] : x \in DOMAIN f}
                 PROVE Cardinality({x \in DOMAIN f : f[x] = e}) \in Nat \ {0}
    <2>1. IsFiniteSet({x \in DOMAIN f : f[x] = e})
      BY FS_Subset
    <2>2. {x \in DOMAIN f : f[x] = e} # {}
      BY <1>1
    <2>. QED BY <2>1, <2>2, FS_CardinalityType, FS_EmptySet
  <1>. QED BY <1>1 DEF SumOf, IsSum

\* (+) is commutative.
LEMMA PlusCommutes ==
  ASSUME NEW b, NEW c, IsSum(b), IsSum(c)
  PROVE b (+) c = c (+) b
  BY DEF (+), IsSum

\* (+) is associative.
LEMMA PlusAssociates ==
  ASSUME NEW b, NEW c, NEW d, IsSum(b), IsSum(c), IsSum(d)
  PROVE (b (+) c) (+) d = b (+) (c (+) d)
  BY DEF (+), IsSum

\* (+) adds sums to a sum.
LEMMA PlusSum ==
  ASSUME NEW b, NEW c, IsSum(b), IsSum(c)
  PROVE IsSum(b (+) c)
  BY DEF (+), IsSum

\* The empty sum adds nothing.
LEMMA PlusNothing ==
  ASSUME NEW b, IsSum(b)
  PROVE b (+) EmptyBag = b /\ EmptyBag (+) b = b /\ IsSum(EmptyBag)
  BY DEF (+), IsSum, EmptyBag, SetToBag

\* The sum over two disjoint sets is the sum over the one and the sum over the other.
LEMMA SumUnion ==
  ASSUME NEW f, NEW A, NEW B, DOMAIN f = A \cup B, A \cap B = {}, IsFiniteSet(A), IsFiniteSet(B)
  PROVE SumOf(f) = SumOf([x \in A |-> f[x]]) (+) SumOf([x \in B |-> f[x]])
  <1>. DEFINE At(S, e) == {x \in S : f[x] = e}
              g == [x \in A |-> f[x]]
              h == [x \in B |-> f[x]]
  <1>1. ASSUME NEW e PROVE /\ IsFiniteSet(At(A, e)) /\ IsFiniteSet(At(B, e))
                           /\ Cardinality(At(A, e)) \in Nat /\ Cardinality(At(B, e)) \in Nat
                           /\ (At(A, e) = {} => Cardinality(At(A, e)) = 0)
                           /\ (At(B, e) = {} => Cardinality(At(B, e)) = 0)
                           /\ Cardinality(At(A \cup B, e))
                                = Cardinality(At(A, e)) + Cardinality(At(B, e))
    <2>1. IsFiniteSet(At(A, e)) /\ IsFiniteSet(At(B, e))
      BY FS_Subset
    <2>2. At(A \cup B, e) = At(A, e) \cup At(B, e) /\ At(A, e) \cap At(B, e) = {}
      OBVIOUS
    <2>3. Cardinality(At(A, e) \cap At(B, e)) = 0
      BY <2>2, FS_EmptySet
    <2>. HIDE DEF At
    <2>4. Cardinality(At(A, e) \cup At(B, e))
            = Cardinality(At(A, e)) + Cardinality(At(B, e)) - Cardinality(At(A, e) \cap At(B, e))
      BY <2>1, FS_Union
    <2>5. Cardinality(At(A, e)) \in Nat /\ Cardinality(At(B, e)) \in Nat
      BY <2>1, FS_CardinalityType
    <2>. QED BY <2>1, <2>2, <2>3, <2>4, <2>5, FS_EmptySet
  <1>2. /\ SumOf(f) = [e \in {f[x] : x \in A \cup B} |-> Cardinality(At(A \cup B, e))]
        /\ SumOf(g) = [e \in {f[x] : x \in A} |-> Cardinality(At(A, e))]
        /\ SumOf(h) = [e \in {f[x] : x \in B} |-> Cardinality(At(B, e))]
    <2>1. ASSUME NEW e PROVE /\ {x \in DOMAIN f : f[x] = e} = At(A \cup B, e)
                             /\ {x \in DOMAIN g : g[x] = e} = At(A, e)
                             /\ {x \in DOMAIN h : h[x] = e} = At(B, e)
      OBVIOUS
    <2>2. /\ {f[x] : x \in DOMAIN f} = {f[x] : x \in A \cup B}
          /\ {g[x] : x \in DOMAIN g} = {f[x] : x \in A}
          /\ {h[x] : x \in DOMAIN h} = {f[x] : x \in B}
      OBVIOUS
    <2>. HIDE DEF At, g, h
    <2>. QED BY <2>1, <2>2 DEF SumOf
  <1>3. \A e : /\ e \in {f[x] : x \in A} <=> At(A, e) # {}
               /\ e \in {f[x] : x \in B} <=> At(B, e) # {}
    OBVIOUS
  <1>4. {f[x] : x \in A \cup B} = {f[x] : x \in A} \cup {f[x] : x \in B}
    OBVIOUS
  <1>5. SumOf(g) (+) SumOf(h) =
         [e \in {f[x] : x \in A} \cup {f[x] : x \in B} |->
           (IF e \in {f[x] : x \in A} THEN Cardinality(At(A, e)) ELSE 0)
           + (IF e \in {f[x] : x \in B} THEN Cardinality(At(B, e)) ELSE 0)]
    <2>. HIDE DEF At, g, h
    <2>. QED BY <1>2 DEF (+)
  <1>6. ASSUME NEW e \in {f[x] : x \in A} \cup {f[x] : x \in B}
        PROVE Cardinality(At(A \cup B, e))
                = (IF e \in {f[x] : x \in A} THEN Cardinality(At(A, e)) ELSE 0)
           + (IF e \in {f[x] : x \in B} THEN Cardinality(At(B, e)) ELSE 0)
    <2>. HIDE DEF At
    <2>. QED BY <1>1, <1>3
  <1>. HIDE DEF At, g, h
  <1>7. SumOf(f) = SumOf(g) (+) SumOf(h)
    BY <1>2, <1>4, <1>5, <1>6
  <1>. QED BY <1>7 DEF g, h

\* A sum does not depend on what its elements are called: b renames them, each once.
LEMMA SumMoved ==
  ASSUME NEW f, NEW g, NEW b, b \in Bijection(DOMAIN f, DOMAIN g), IsFiniteSet(DOMAIN f),
         \A x \in DOMAIN f : f[x] = g[b[x]]
  PROVE  SumOf(f) = SumOf(g)
  <1>. DEFINE At(e) == {x \in DOMAIN f : f[x] = e}
              There(e) == {z \in DOMAIN g : g[z] = e}
  <1>1. /\ \A x \in DOMAIN f : b[x] \in DOMAIN g
        /\ \A x, u \in DOMAIN f : b[x] = b[u] => x = u
        /\ \A z \in DOMAIN g : \E x \in DOMAIN f : b[x] = z
    BY DEF Bijection, Injection, Surjection, IsInjective
  <1>2. ASSUME NEW e PROVE Cardinality(At(e)) = Cardinality(There(e))
    <2>. DEFINE c == [x \in At(e) |-> b[x]]
    <2>1. c \in Bijection(At(e), There(e))
      <3>1. c \in [At(e) -> There(e)]
        BY <1>1
      <3>2. \A x, u \in At(e) : c[x] = c[u] => x = u
        BY <1>1
      <3>3. \A z \in There(e) : \E x \in At(e) : c[x] = z
        BY <1>1
      <3>. QED BY <3>1, <3>2, <3>3 DEF Bijection, Injection, Surjection, IsInjective
    <2>2. IsFiniteSet(At(e))
      BY FS_Subset
    <2>. QED BY <2>1, <2>2, FS_Bijection DEF ExistsBijection
  <1>3. {f[x] : x \in DOMAIN f} = {g[z] : z \in DOMAIN g}
    BY <1>1
  <1>. QED BY <1>2, <1>3 DEF SumOf
-----------------------------------------------------------------------------
(* Rows, columns and entries of the matrix                                  *)

\* Products grow with their factors.
LEMMA Products ==
  ASSUME NEW x \in Nat, NEW z \in Nat, NEW c \in Nat, x <= z
  PROVE  /\ x * c \in Nat /\ z * c \in Nat /\ x * c <= z * c
         /\ c * x \in Nat /\ c * z \in Nat /\ c * x <= c * z
  OBVIOUS

\* The part with number ik[2] of the rbf with number ik[1].
PartOf(m, ik) == rbf_parts(m.rbfs[ik[1]])[ik[2]]
\* The term of a part and a column, x, in a row.
TermOf(m, row, cols, w, x) == <<EntryAt(PartOf(m, x[1]), row, cols[x[2]]), w[x[2]]>>
\* The parts and columns that have an entry in a row.
NonZero(m, row, cols) ==
  {x \in RbfsOf(m) \X DOMAIN cols : ~Vanishes(PartOf(m, x[1]), row.at, cols[x[2]].at)}

\* The sum of the terms in X of a row.
Over(m, row, cols, w, X) == SumOf([x \in X |-> TermOf(m, row, cols, w, x)])

\* What a row of the product has by definition is the sum over all of its entries.
LEMMA RbfTermsOver ==
  ASSUME NEW m, NEW row, NEW src, NEW grads, NEW w
  PROVE  RbfTerms(m, row, src, grads, w)
           = Over(m, row, Functionals(src, grads), w, NonZero(m, row, Functionals(src, grads)))
  BY DEF RbfTerms, Over, TermOf, PartOf, NonZero

\* An rbf has a part or two.
LEMMA PartNumbers ==
  ASSUME NEW name
  PROVE  DOMAIN rbf_parts(name) = 1..1 \/ DOMAIN rbf_parts(name) = 1..2
  BY DEF rbf_parts

\* The rbfs of a model are numbered from 1, and so are their parts.
LEMMA RbfNumbers ==
  ASSUME NEW m \in Models
  PROVE  /\ DOMAIN m.rbfs = 1..Len(m.rbfs) /\ Len(m.rbfs) \in Nat \ {0}
         /\ \A ik : ik \in RbfsOf(m) <=> \E i \in 1..Len(m.rbfs) :
              \E k \in DOMAIN rbf_parts(m.rbfs[i]) : ik = <<i, k>>
  BY ModelsAssumption DEF RbfsOf

\* A model has finitely many parts.
LEMMA FiniteRbfs == ASSUME NEW m \in Models PROVE IsFiniteSet(RbfsOf(m))
  <1>1. PICK n \in Nat : n = Len(m.rbfs)
    BY RbfNumbers
  <1>2. ASSUME NEW ik \in RbfsOf(m) PROVE ik \in (1..n) \X (1..2)
    <2>1. PICK i \in 1..n : \E k \in DOMAIN rbf_parts(m.rbfs[i]) : ik = <<i, k>>
      BY <1>1, RbfNumbers
    <2>2. DOMAIN rbf_parts(m.rbfs[i]) \subseteq 1..2
      BY PartNumbers
    <2>. QED BY <2>1, <2>2
  <1>3. IsFiniteSet((1..n) \X (1..2))
    <2>1. \A e \in Nat : IsFiniteSet(1..e)
      BY FS_Interval
    <2>. QED BY <2>1, FS_Product
  <1>. QED BY <1>2, <1>3, FS_Subset

\* A row has finitely many entries.
LEMMA FiniteTerms ==
  ASSUME NEW m \in Models, NEW row, NEW cols, IsFiniteSet(DOMAIN cols)
  PROVE  IsFiniteSet(NonZero(m, row, cols))
  <1>1. IsFiniteSet(RbfsOf(m) \X DOMAIN cols)
    BY FiniteRbfs, FS_Product
  <1>. QED BY <1>1, FS_Subset DEF NonZero

\* The sum over two disjoint sets of entries.
LEMMA OverUnion ==
  ASSUME NEW m \in Models, NEW row, NEW cols, NEW w, IsFiniteSet(DOMAIN cols),
         NEW A \in SUBSET NonZero(m, row, cols), NEW B \in SUBSET NonZero(m, row, cols), A \cap B = {}
  PROVE  Over(m, row, cols, w, A \cup B) = Over(m, row, cols, w, A) (+) Over(m, row, cols, w, B)
  <1>1. IsFiniteSet(A) /\ IsFiniteSet(B)
    BY FiniteTerms, FS_Subset
  <1>2. PICK f : f = [x \in A \cup B |-> TermOf(m, row, cols, w, x)]
    OBVIOUS
  <1>3. SumOf(f) = SumOf([x \in A |-> f[x]]) (+) SumOf([x \in B |-> f[x]])
    BY <1>1, <1>2, SumUnion
  <1>4. /\ [x \in A |-> f[x]] = [x \in A |-> TermOf(m, row, cols, w, x)]
        /\ [x \in B |-> f[x]] = [x \in B |-> TermOf(m, row, cols, w, x)]
    BY <1>2
  <1>. QED BY <1>2, <1>3, <1>4 DEF Over

\* A sum of terms is one; over nothing it is empty.
LEMMA OverType ==
  ASSUME NEW m \in Models, NEW row, NEW cols, NEW w, IsFiniteSet(DOMAIN cols),
         NEW A \in SUBSET NonZero(m, row, cols)
  PROVE  IsSum(Over(m, row, cols, w, A)) /\ (A = {} => Over(m, row, cols, w, A) = EmptyBag)
  <1>1. IsFiniteSet(A)
    BY FiniteTerms, FS_Subset
  <1>2. ASSUME A = {} PROVE Over(m, row, cols, w, A) = EmptyBag
    BY <1>2 DEF Over, SumOf, EmptyBag, SetToBag
  <1>. QED BY <1>1, <1>2, SumType DEF Over

\* b maps the elements that f sums up to the terms in X, each once.
Matched(f, b, m, row, cols, w, X) ==
  /\ IsFiniteSet(DOMAIN f) /\ b = [x \in DOMAIN f |-> b[x]]
  /\ \A x \in DOMAIN f : b[x] \in X /\ f[x] = TermOf(m, row, cols, w, b[x])
  /\ \A x, u \in DOMAIN f : b[x] = b[u] => x = u
  /\ \A z \in X : \E x \in DOMAIN f : b[x] = z

\* A sum is that over X when its elements match X, each once.
LEMMA OverMatched ==
  ASSUME NEW m, NEW row, NEW cols, NEW w, NEW f, NEW b, NEW X, Matched(f, b, m, row, cols, w, X)
  PROVE  SumOf(f) = Over(m, row, cols, w, X)
  <1>1. PICK g : g = [x \in X |-> TermOf(m, row, cols, w, x)]
    OBVIOUS
  <1>2. b \in Bijection(DOMAIN f, DOMAIN g)
    BY <1>1 DEF Bijection, Injection, Surjection, IsInjective, Matched
  <1>3. \A x \in DOMAIN f : f[x] = g[b[x]]
    BY <1>1 DEF Matched
  <1>4. IsFiniteSet(DOMAIN f)
    BY DEF Matched
  <1>. QED BY <1>1, <1>2, <1>3, <1>4, SumMoved DEF Over


\* Element a of the j-th of n groups of d elements, and how its place is divided.
LEMMA AxisPlace ==
  ASSUME NEW d \in Nat \ {0}, NEW n \in Nat, NEW j \in 1..n, NEW a \in 1..d
  PROVE  LET c == (d * (j - 1)) + a
         IN c \in 1..(d * n) /\ (c - 1) \div d = j - 1 /\ (c - 1) % d = a - 1
  <1>1. PICK q \in Nat : q = j - 1 /\ q + 1 <= n
    OBVIOUS
  <1>2. d * q \in Nat /\ d * (q + 1) = d * q + d /\ d * (q + 1) <= d * n /\ d * n \in Nat
    BY <1>1, Products
  <1>3. (d * q + (a - 1)) \div d = q /\ (d * q + (a - 1)) % d = a - 1
    BY <1>1, <1>2
  <1>4. d * (j - 1) = d * q
    BY <1>1
  <1>. QED BY <1>1, <1>2, <1>3, <1>4

\* The same, as one fact to cite: the place is there and tells j and a.
Placed(d, n, j, a) ==
  \E c \in 1..(d * n) : c = (d * (j - 1)) + a /\ ((c - 1) \div d) + 1 = j /\ c - (d * (j - 1)) = a

\* Each element of a group has its place.
LEMMA PlaceThere ==
  ASSUME NEW d \in Nat \ {0}, NEW n \in Nat, NEW j \in 1..n, NEW a \in 1..d
  PROVE  Placed(d, n, j, a)
  <1>1. PICK c \in 1..(d * n) : c = (d * (j - 1)) + a /\ (c - 1) \div d = j - 1
    BY AxisPlace
  <1>2. PICK z \in Int : z = d * (j - 1)
    OBVIOUS
  <1>3. ((c - 1) \div d) + 1 = j /\ c - z = a
    BY <1>1, <1>2
  <1>. QED BY <1>1, <1>2, <1>3 DEF Placed

\* Each place is that of an element of a group.
LEMMA PlaceOfAxis ==
  ASSUME NEW d \in Nat \ {0}, NEW n \in Nat, NEW c \in 1..(d * n)
  PROVE  /\ ((c - 1) \div d) + 1 \in 1..n /\ ((c - 1) % d) + 1 \in 1..d
         /\ c = (d * ((c - 1) \div d)) + ((c - 1) % d) + 1
  <1>1. PICK x \in Nat : x = c - 1 /\ x < d * n
    BY Products
  <1>2. PICK q \in Nat, r \in 0..(d - 1) : q = x \div d /\ r = x % d /\ x = d * q + r
    BY <1>1
  <1>3. q < n
    <2>1. SUFFICES ASSUME q >= n PROVE FALSE
      BY <1>2
    <2>2. d * n <= d * q /\ d * n \in Nat /\ d * q \in Nat
      BY <1>2, <2>1, Products
    <2>. QED BY <1>1, <1>2, <2>2
  <1>. QED BY <1>1, <1>2, <1>3

\* The column of derivative k of the j-th point with a gradient, after n points.
ColumnOf(n, j, k) == n + (kDim * (j - 1)) + k

\* The columns: one for each point, then one for each axis of each point with a gradient,
\* none of them twice.
LEMMA AllColumns ==
  ASSUME NEW src \in Seq(Nat), NEW grads \in Seq(Nat)
  PROVE  /\ Len(src) \in Nat /\ Len(grads) \in Nat /\ DOMAIN src = 1..Len(src)
         /\ DOMAIN grads = 1..Len(grads)
         /\ Len(src) + (kDim * Len(grads)) \in Nat
         /\ DOMAIN Functionals(src, grads) = 1..(Len(src) + (kDim * Len(grads)))
         /\ IsFiniteSet(DOMAIN Functionals(src, grads))
         /\ \A j \in 1..Len(src) : /\ j \in DOMAIN Functionals(src, grads)
                                    /\ Functionals(src, grads)[j] = [at |-> src[j], axis |-> 0]
         /\ \A j \in 1..Len(grads) : \A k \in 1..kDim :
              /\ ColumnOf(Len(src), j, k) \in DOMAIN Functionals(src, grads)
              /\ ColumnOf(Len(src), j, k) > Len(src)
              /\ Functionals(src, grads)[ColumnOf(Len(src), j, k)] = [at |-> grads[j], axis |-> k]
         /\ \A c \in DOMAIN Functionals(src, grads) : c \notin 1..Len(src) =>
              \E j \in 1..Len(grads) : \E k \in 1..kDim : c = ColumnOf(Len(src), j, k)
         /\ \A j, u \in 1..Len(grads) : \A k, v \in 1..kDim :
              ColumnOf(Len(src), j, k) = ColumnOf(Len(src), u, v) => j = u /\ k = v
  <1>. DEFINE cols == Functionals(src, grads)
              n == Len(src)
  <1>1. DOMAIN src = 1..n /\ DOMAIN grads = 1..Len(grads)
    OBVIOUS
  <1>2. n \in Nat /\ Len(grads) \in Nat /\ kDim \in Nat \ {0}
    BY DimAssumption
  <1>3. PICK g \in Nat : g = kDim * Len(grads)
    BY <1>2
  <1>4. DOMAIN cols = 1..(n + g) /\ IsFiniteSet(DOMAIN cols)
    BY <1>2, <1>3, FS_Interval DEF Functionals
  <1>5. \A j \in 1..n : j \in DOMAIN cols /\ cols[j] = [at |-> src[j], axis |-> 0]
    BY <1>2, <1>3, <1>4 DEF Functionals
  <1>6. ASSUME NEW j \in 1..Len(grads), NEW k \in 1..kDim
        PROVE  /\ ColumnOf(n, j, k) \in DOMAIN cols /\ ColumnOf(n, j, k) > n
               /\ cols[ColumnOf(n, j, k)] = [at |-> grads[j], axis |-> k]
    <2>1. PICK c \in 1..g : c = (kDim * (j - 1)) + k /\ (c - 1) \div kDim = j - 1
                 /\ (c - 1) % kDim = k - 1
      BY <1>2, <1>3, AxisPlace
    <2>2. ColumnOf(n, j, k) = n + c
      <3>1. kDim * (j - 1) \in Int
        BY <1>2
      <3>. QED BY <1>2, <2>1, <3>1 DEF ColumnOf
    <2>3. n + c \in 1..(n + g) /\ n + c > n /\ (n + c) - n - 1 = c - 1 /\ n + c \in Nat
      BY <1>2, <1>3, <2>1
    <2>4. cols[n + c] = [at |-> grads[((c - 1) \div kDim) + 1], axis |-> ((c - 1) % kDim) + 1]
      <3>1. cols[n + c] = LET q == (n + c) - n - 1
                          IN [at |-> grads[(q \div kDim) + 1], axis |-> (q % kDim) + 1]
        BY <1>2, <1>3, <1>4, <2>3 DEF Functionals
      <3>. QED BY <2>3, <3>1
    <2>5. ((c - 1) \div kDim) + 1 = j /\ ((c - 1) % kDim) + 1 = k
      BY <1>2, <2>1
    <2>. QED BY <1>4, <2>2, <2>3, <2>4, <2>5
  <1>7. ASSUME NEW c \in DOMAIN cols, c \notin 1..n
        PROVE  \E j \in 1..Len(grads) : \E k \in 1..kDim : c = ColumnOf(n, j, k)
    <2>1. PICK e \in 1..g : c = n + e
      <3>1. c \in Int /\ c - n \in 1..g /\ c = n + (c - n)
        BY <1>2, <1>3, <1>4, <1>7
      <3>. QED BY <3>1
    <2>2. PICK j \in 1..Len(grads), k \in 1..kDim :
            j = ((e - 1) \div kDim) + 1 /\ k = ((e - 1) % kDim) + 1
            /\ e = (kDim * ((e - 1) \div kDim)) + ((e - 1) % kDim) + 1
      BY <1>2, <1>3, PlaceOfAxis
    <2>3. (e - 1) \div kDim = j - 1 /\ (e - 1) % kDim = k - 1
      BY <1>2, <2>2
    <2>4. PICK z \in Int : z = kDim * (j - 1)
      BY <1>2
    <2>5. e = z + k /\ n + (kDim * (j - 1)) + k = n + z + k
      BY <1>2, <2>2, <2>3, <2>4
    <2>6. c = ColumnOf(n, j, k)
      BY <1>2, <2>1, <2>4, <2>5 DEF ColumnOf
    <2>. QED BY <2>6
  <1>8. ASSUME NEW j \in 1..Len(grads), NEW u \in 1..Len(grads), NEW k \in 1..kDim, NEW v \in 1..kDim,
               ColumnOf(n, j, k) = ColumnOf(n, u, v)
        PROVE  j = u /\ k = v
    <2>1. PICK x \in Int, z \in Int : x = (kDim * (j - 1)) + k /\ z = (kDim * (u - 1)) + v
      BY <1>2
    <2>2. x = z
      <3>1. kDim * (j - 1) \in Int /\ kDim * (u - 1) \in Int
        BY <1>2
      <3>. QED BY <1>2, <1>8, <2>1, <3>1 DEF ColumnOf
    <2>3. (x - 1) \div kDim = j - 1 /\ (x - 1) % kDim = k - 1
      BY <1>2, <2>1, AxisPlace
    <2>4. (z - 1) \div kDim = u - 1 /\ (z - 1) % kDim = v - 1
      BY <1>2, <2>1, AxisPlace
    <2>. QED BY <1>2, <2>2, <2>3, <2>4
  <1>. QED BY <1>1, <1>2, <1>3, <1>4, <1>5, <1>6, <1>7, <1>8

\* There are finitely many columns.
LEMMA Columns ==
  ASSUME NEW src \in Seq(Nat), NEW grads \in Seq(Nat)
  PROVE  /\ Len(src) \in Nat /\ Len(grads) \in Nat /\ DOMAIN src = 1..Len(src)
         /\ DOMAIN grads = 1..Len(grads)
         /\ Len(src) + (kDim * Len(grads)) \in Nat
         /\ DOMAIN Functionals(src, grads) = 1..(Len(src) + (kDim * Len(grads)))
         /\ IsFiniteSet(DOMAIN Functionals(src, grads))
  BY AllColumns

\* The column of a point.
LEMMA PointColumn ==
  ASSUME NEW src \in Seq(Nat), NEW grads \in Seq(Nat), NEW j \in 1..Len(src)
  PROVE  /\ j \in DOMAIN Functionals(src, grads)
         /\ Functionals(src, grads)[j] = [at |-> src[j], axis |-> 0]
  BY AllColumns

\* The column of a derivative.
LEMMA AxisColumn ==
  ASSUME NEW src \in Seq(Nat), NEW grads \in Seq(Nat), NEW j \in 1..Len(grads), NEW k \in 1..kDim
  PROVE  /\ ColumnOf(Len(src), j, k) \in DOMAIN Functionals(src, grads)
         /\ ColumnOf(Len(src), j, k) > Len(src)
         /\ Functionals(src, grads)[ColumnOf(Len(src), j, k)] = [at |-> grads[j], axis |-> k]
  BY AllColumns

\* A column is that of a point or of a derivative.
LEMMA EachColumn ==
  ASSUME NEW src \in Seq(Nat), NEW grads \in Seq(Nat), NEW c \in DOMAIN Functionals(src, grads)
  PROVE  c \in 1..Len(src) \/ \E j \in 1..Len(grads) : \E k \in 1..kDim : c = ColumnOf(Len(src), j, k)
  BY AllColumns

\* Derivatives have columns of their own.
LEMMA ColumnsApart ==
  ASSUME NEW src \in Seq(Nat), NEW grads \in Seq(Nat), NEW j \in 1..Len(grads),
         NEW u \in 1..Len(grads),
         NEW k \in 1..kDim, NEW v \in 1..kDim, ColumnOf(Len(src), j, k) = ColumnOf(Len(src), u, v)
  PROVE  j = u /\ k = v
  BY AllColumns

\* The entries that rbf i has in a row.
OfRbf(m, row, cols, i) == {x \in NonZero(m, row, cols) : x[1][1] = i}

\* Parts and points that are not out of reach of each other.
Reached(parts, p, points) ==
  {kj \in (DOMAIN parts) \X (DOMAIN points) : ~Vanishes(parts[kj[1]], p, points[kj[2]])}

\* The entries in the row of a value.
LEMMA EntryOfValue ==
  ASSUME NEW rbf, NEW p, NEW q
  PROVE  /\ EntryAt(rbf, [at |-> p, axis |-> 0], [at |-> q, axis |-> 0]) = Phi(1, rbf, <<>>, p, q)
         /\ \A k \in 1..kDim :
              EntryAt(rbf, [at |-> p, axis |-> 0], [at |-> q, axis |-> k]) = Phi(-1, rbf, <<k>>, p, q)
  BY DimAssumption DEF EntryAt

\* The entries in the row of a derivative.
LEMMA EntryOfAxis ==
  ASSUME NEW rbf, NEW p, NEW q, NEW j \in 1..kDim
  PROVE  /\ EntryAt(rbf, [at |-> p, axis |-> j], [at |-> q, axis |-> 0]) = Phi(1, rbf, <<j>>, p, q)
         /\ \A k \in 1..kDim :
              EntryAt(rbf, [at |-> p, axis |-> j], [at |-> q, axis |-> k])
                = Phi(-1, rbf, Second(j, k), p, q)
  BY DimAssumption DEF EntryAt

\* What the points, and what the points with gradients add to a row for rbf i.
PointTerms(m, row, src, grads, w, i) ==
  SumOf([x \in Reached(rbf_parts(m.rbfs[i]), row.at, src) |->
          TermOf(m, row, Functionals(src, grads), w, <<<<i, x[1]>>, x[2]>>)])
AxisTerms(m, row, src, grads, w, i) ==
  SumOf([x \in Reached(rbf_parts(m.rbfs[i]), row.at, grads) \X (1..kDim) |->
          TermOf(m, row, Functionals(src, grads), w,
                 <<<<i, x[1][1]>>, ColumnOf(Len(src), x[1][2], x[2])>>)])

\* Both together are all that rbf i has in the row.
LEMMA RowSplit ==
  ASSUME NEW m \in Models, NEW src \in Seq(Nat), NEW grads \in Seq(Nat), NEW row, NEW w,
         NEW i \in 1..Len(m.rbfs)
  PROVE  PointTerms(m, row, src, grads, w, i) (+) AxisTerms(m, row, src, grads, w, i)
           = Over(m, row, Functionals(src, grads), w, OfRbf(m, row, Functionals(src, grads), i))
  <1>. DEFINE n == Len(src)
              Near1 == Reached(rbf_parts(m.rbfs[i]), row.at, src)
              Near2 == Reached(rbf_parts(m.rbfs[i]), row.at, grads)
              cols == Functionals(src, grads)
              A == {x \in OfRbf(m, row, cols, i) : x[2] <= n}
              B == {x \in OfRbf(m, row, cols, i) : x[2] > n}
              c(x) == ColumnOf(n, x[1][2], x[2])
  <1>1. /\ Near1 = {kj \in (DOMAIN rbf_parts(m.rbfs[i])) \X (DOMAIN src) :
                         ~Vanishes(rbf_parts(m.rbfs[i])[kj[1]], row.at, src[kj[2]])}
         /\ Near2 = {kj \in (DOMAIN rbf_parts(m.rbfs[i])) \X (DOMAIN grads) :
                         ~Vanishes(rbf_parts(m.rbfs[i])[kj[1]], row.at, grads[kj[2]])}
    BY DEF Reached
  <1>. HIDE DEF Near1, Near2
  <1>2. /\ n \in Nat /\ Len(grads) \in Nat /\ IsFiniteSet(DOMAIN cols)
        /\ DOMAIN src = 1..n /\ DOMAIN grads = 1..Len(grads) /\ DOMAIN cols \subseteq Nat
    <2>1. PICK e \in Nat : DOMAIN cols = 1..e
      BY Columns
    <2>2. 1..e \subseteq Nat
      OBVIOUS
    <2>. QED BY <2>1, <2>2, Columns
  <1>3. ASSUME NEW j \in 1..n PROVE j \in DOMAIN cols /\ cols[j].at = src[j]
    <2>1. j \in DOMAIN cols /\ cols[j] = [at |-> src[j], axis |-> 0]
      BY PointColumn
    <2>. QED BY <2>1
  <1>4. ASSUME NEW j \in 1..Len(grads), NEW k \in 1..kDim
         PROVE  /\ ColumnOf(n, j, k) \in DOMAIN cols /\ ColumnOf(n, j, k) > n
                /\ cols[ColumnOf(n, j, k)].at = grads[j]
    <2>1. /\ ColumnOf(n, j, k) \in DOMAIN cols /\ ColumnOf(n, j, k) > n
          /\ cols[ColumnOf(n, j, k)] = [at |-> grads[j], axis |-> k]
      BY AxisColumn
    <2>. HIDE DEF n, cols
    <2>. QED BY <2>1
  <1>5. ASSUME NEW z \in DOMAIN cols
         PROVE  IF z <= n THEN z \in 1..n
                  ELSE \E j \in 1..Len(grads) : \E k \in 1..kDim : z = ColumnOf(n, j, k)
    <2>1. PICK e \in Nat : DOMAIN cols = 1..e
      BY Columns
    <2>2. z <= n => z \in 1..n
      BY <1>2, <2>1
    <2>3. ~(z <= n) => z \notin 1..n
      BY <1>2
    <2>. QED BY <2>2, <2>3, EachColumn
  <1>6. ASSUME NEW j \in 1..Len(grads), NEW u \in 1..Len(grads), NEW k \in 1..kDim, NEW v \in 1..kDim,
                ColumnOf(n, j, k) = ColumnOf(n, u, v)
         PROVE  j = u /\ k = v
    BY <1>6, ColumnsApart
  <1>. HIDE DEF n, cols
  <1>7. PICK K : K = DOMAIN rbf_parts(m.rbfs[i]) /\ IsFiniteSet(K)
    <2>1. \A e \in Nat : IsFiniteSet(1..e)
      BY FS_Interval
    <2>. QED BY <2>1, PartNumbers
  <1>8. \A k : k \in K => <<i, k>> \in RbfsOf(m) /\ PartOf(m, <<i, k>>) = rbf_parts(m.rbfs[i])[k]
    BY <1>7, RbfNumbers DEF PartOf
  <1>9. ASSUME NEW ik \in RbfsOf(m), ik[1] = i PROVE ik[2] \in K /\ ik = <<i, ik[2]>>
    <2>1. PICK u \in 1..Len(m.rbfs) : \E k \in DOMAIN rbf_parts(m.rbfs[u]) : ik = <<u, k>>
      BY RbfNumbers
    <2>2. PICK k \in DOMAIN rbf_parts(m.rbfs[u]) : ik = <<u, k>>
      BY <2>1
    <2>. QED BY <1>7, <1>9, <2>2
  <1>10. ASSUME NEW k \in K, NEW z \in DOMAIN cols
        PROVE  /\ <<<<i, k>>, z>> \in OfRbf(m, row, cols, i)
                    <=> ~Vanishes(rbf_parts(m.rbfs[i])[k], row.at, cols[z].at)
    BY <1>8 DEF OfRbf, NonZero
  <1>11. ASSUME NEW x \in OfRbf(m, row, cols, i)
        PROVE  x[1][2] \in K /\ x = <<<<i, x[1][2]>>, x[2]>> /\ x[2] \in DOMAIN cols
    <2>1. x[1] \in RbfsOf(m) /\ x[2] \in DOMAIN cols /\ x = <<x[1], x[2]>> /\ x[1][1] = i
      BY DEF OfRbf, NonZero
    <2>. QED BY <1>9, <2>1
  <1>12. SumOf([x \in Near1 |-> TermOf(m, row, cols, w, <<<<i, x[1]>>, x[2]>>)])
           = Over(m, row, cols, w, A)
    <2>. DEFINE f == [x \in Near1 |-> TermOf(m, row, cols, w, <<<<i, x[1]>>, x[2]>>)]
                b == [x \in Near1 |-> <<<<i, x[1]>>, x[2]>>]
    <2>1. IsFiniteSet(Near1)
      <3>1. IsFiniteSet(DOMAIN src)
        BY <1>2, FS_Interval
      <3>2. IsFiniteSet(K \X DOMAIN src)
        BY <1>7, <3>1, FS_Product
      <3>. QED BY <1>1, <1>7, <3>2, FS_Subset
    <2>2. ASSUME NEW x \in Near1 PROVE b[x] \in A /\ f[x] = TermOf(m, row, cols, w, b[x])
      <3>1. x[1] \in K /\ x[2] \in 1..n /\ ~Vanishes(rbf_parts(m.rbfs[i])[x[1]], row.at, src[x[2]])
        BY <1>1, <1>2, <1>7
      <3>2. x[2] \in DOMAIN cols /\ cols[x[2]].at = src[x[2]] /\ x[2] <= n
        BY <1>2, <1>3, <3>1
      <3>3. <<<<i, x[1]>>, x[2]>> \in OfRbf(m, row, cols, i)
        BY <1>10, <3>1, <3>2
      <3>. QED BY <3>2, <3>3
    <2>3. \A x, u \in Near1 : b[x] = b[u] => x = u
      BY <1>1, <1>7
    <2>4. ASSUME NEW z \in A PROVE \E x \in Near1 : b[x] = z
      <3>1. z[1][2] \in K /\ z = <<<<i, z[1][2]>>, z[2]>> /\ z[2] \in DOMAIN cols /\ z[2] <= n
        BY <1>11
      <3>2. z[2] \in 1..n
        BY <1>5, <3>1
      <3>3. ~Vanishes(rbf_parts(m.rbfs[i])[z[1][2]], row.at, src[z[2]])
        <4>1. cols[z[2]].at = src[z[2]]
          BY <1>3, <3>2
        <4>. QED BY <1>10, <3>1, <4>1
      <3>4. <<z[1][2], z[2]>> \in Near1
        BY <1>1, <1>2, <1>7, <3>1, <3>2, <3>3
      <3>. QED BY <3>1, <3>4
    <2>5. DOMAIN f = Near1 /\ b = [x \in Near1 |-> b[x]]
      OBVIOUS
    <2>. HIDE DEF f, b, A
    <2>6. Matched(f, b, m, row, cols, w, A)
      BY <2>1, <2>2, <2>3, <2>4, <2>5 DEF Matched
    <2>. QED BY <2>6, OverMatched DEF f
  <1>13. SumOf([x \in Near2 \X (1..kDim) |->
                TermOf(m, row, cols, w, <<<<i, x[1][1]>>, c(x)>>)]) = Over(m, row, cols, w, B)
    <2>. DEFINE D == Near2 \X (1..kDim)
                f == [x \in D |-> TermOf(m, row, cols, w, <<<<i, x[1][1]>>, c(x)>>)]
                b == [x \in D |-> <<<<i, x[1][1]>>, c(x)>>]
    <2>1. IsFiniteSet(D)
      <3>1. IsFiniteSet(DOMAIN grads) /\ IsFiniteSet(1..kDim)
        <4>1. \A e \in Nat : IsFiniteSet(1..e)
          BY FS_Interval
        <4>. QED BY <1>2, <4>1, DimAssumption
      <3>2. IsFiniteSet(K \X DOMAIN grads)
        BY <1>7, <3>1, FS_Product
      <3>3. IsFiniteSet(Near2)
        BY <1>1, <1>7, <3>2, FS_Subset
      <3>. QED BY <3>1, <3>3, FS_Product
    <2>2. ASSUME NEW x \in D
          PROVE  /\ x[1][1] \in K /\ x[1][2] \in 1..Len(grads) /\ x[2] \in 1..kDim
                 /\ ~Vanishes(rbf_parts(m.rbfs[i])[x[1][1]], row.at, grads[x[1][2]])
                 /\ x = <<<<x[1][1], x[1][2]>>, x[2]>>
      BY <1>1, <1>2, <1>7
    <2>3. ASSUME NEW x \in D PROVE b[x] \in B /\ f[x] = TermOf(m, row, cols, w, b[x])
      <3>1. c(x) \in DOMAIN cols /\ cols[c(x)].at = grads[x[1][2]] /\ c(x) > n
        BY <1>4, <2>2
      <3>. HIDE DEF c, D
      <3>2. <<<<i, x[1][1]>>, c(x)>> \in OfRbf(m, row, cols, i)
        BY <1>10, <2>2, <3>1
      <3>. QED BY <3>1, <3>2
    <2>4. ASSUME NEW x \in D, NEW u \in D, b[x] = b[u] PROVE x = u
      <3>1. x[1][1] = u[1][1] /\ c(x) = c(u)
        BY <2>4
      <3>2. /\ x[1][2] \in 1..Len(grads) /\ x[2] \in 1..kDim
            /\ u[1][2] \in 1..Len(grads) /\ u[2] \in 1..kDim
        BY <2>2
      <3>3. x[1][2] = u[1][2] /\ x[2] = u[2]
        BY <1>6, <3>1, <3>2
      <3>. QED BY <2>2, <3>1, <3>3
    <2>5. ASSUME NEW z \in B PROVE \E x \in D : b[x] = z
      <3>1. z[1][2] \in K /\ z = <<<<i, z[1][2]>>, z[2]>> /\ z[2] \in DOMAIN cols /\ z[2] > n
        BY <1>11
      <3>2. PICK j \in 1..Len(grads), k \in 1..kDim : z[2] = ColumnOf(n, j, k)
        <4>1. ~(z[2] <= n)
          BY <1>2, <3>1
        <4>. QED BY <1>5, <3>1, <4>1
      <3>3. cols[z[2]].at = grads[j]
        BY <1>4, <3>2
      <3>4. ~Vanishes(rbf_parts(m.rbfs[i])[z[1][2]], row.at, grads[j])
        BY <1>10, <3>1, <3>3
      <3>5. <<<<z[1][2], j>>, k>> \in D
        BY <1>1, <1>2, <1>7, <3>1, <3>2, <3>4
      <3>6. c(<<<<z[1][2], j>>, k>>) = z[2]
        BY <3>2
      <3>7. b[<<<<z[1][2], j>>, k>>] = z
        <4>. HIDE DEF c, D
        <4>. QED BY <3>1, <3>5, <3>6
      <3>. QED BY <3>5, <3>7
    <2>6. DOMAIN f = D /\ b = [x \in D |-> b[x]]
      OBVIOUS
    <2>. HIDE DEF f, b, B, D
    <2>7. Matched(f, b, m, row, cols, w, B)
      BY <2>1, <2>3, <2>4, <2>5, <2>6 DEF Matched
    <2>. QED BY <2>7, OverMatched DEF f, D
  <1>14. /\ A \in SUBSET NonZero(m, row, cols) /\ B \in SUBSET NonZero(m, row, cols)
        /\ A \cap B = {} /\ A \cup B = OfRbf(m, row, cols, i)
    <2>1. \A x \in OfRbf(m, row, cols, i) : x[2] \in Nat
      BY <1>2, <1>11
    <2>. QED BY <1>2, <2>1 DEF OfRbf
  <1>. HIDE DEF A, B
  <1>15. Over(m, row, cols, w, A \cup B) = Over(m, row, cols, w, A) (+) Over(m, row, cols, w, B)
    BY <1>2, <1>14, OverUnion
  <1>. QED BY <1>12, <1>13, <1>14, <1>15 DEF n, cols, Near1, Near2, PointTerms, AxisTerms
-----------------------------------------------------------------------------
(* What threads sum up                                                      *)

\* DirectEvaluator adds to the row of a value what the rbf whose turn it is has there.
LEMMA ValueRowRight ==
  ASSUME directModel \in Models, directSrc.points \in Seq(Nat), directSrc.grads \in Seq(Nat),
         turn \in 1..Len(directModel.rbfs), NEW p, NEW row, row = [at |-> p, axis |-> 0]
  PROVE  ValueRow(p)
           = Over(directModel, row, Functionals(directSrc.points, directSrc.grads), directWeights,
                            OfRbf(directModel, row, Functionals(directSrc.points, directSrc.grads),
                                  turn))
  <1>. DEFINE cols == Functionals(directSrc.points, directSrc.grads)
              n == Len(directSrc.points)
  <1>1. ASSUME NEW x \in Pairs(p, directSrc.points)
        PROVE  <<Phi(1, Parts[x[1]], <<>>, p, directSrc.points[x[2]]), w_(x[2])>>
                 = TermOf(directModel, row, cols, directWeights, <<<<turn, x[1]>>, x[2]>>)
    <2>1. x[2] \in 1..n
      BY DEF Pairs
    <2>2. cols[x[2]] = [at |-> directSrc.points[x[2]], axis |-> 0]
      BY <2>1, PointColumn
    <2>3. EntryAt(Parts[x[1]], row, [at |-> directSrc.points[x[2]], axis |-> 0])
            = Phi(1, Parts[x[1]], <<>>, p, directSrc.points[x[2]])
      BY DimAssumption, EntryOfValue
    <2>. HIDE DEF cols
    <2>. QED BY <2>2, <2>3 DEF TermOf, PartOf, Parts, w_
  <1>2. ASSUME NEW x \in Pairs(p, directSrc.grads) \X (1..kDim)
        PROVE  <<Phi(-1, Parts[x[1][1]], <<x[2]>>, p, directSrc.grads[x[1][2]]),
                 grad_w(x[1][2], x[2])>>
                 = TermOf(directModel, row, cols, directWeights,
                          <<<<turn, x[1][1]>>, ColumnOf(n, x[1][2], x[2])>>)
    <2>1. x[1][2] \in 1..Len(directSrc.grads) /\ x[2] \in 1..kDim
      BY DEF Pairs
    <2>2. cols[ColumnOf(n, x[1][2], x[2])] = [at |-> directSrc.grads[x[1][2]], axis |-> x[2]]
      BY <2>1, AxisColumn
    <2>3. grad_w(x[1][2], x[2]) = directWeights[ColumnOf(n, x[1][2], x[2])]
      BY DEF grad_w, Mu, ColumnOf
    <2>4. EntryAt(Parts[x[1][1]], row, [at |-> directSrc.grads[x[1][2]], axis |-> x[2]])
            = Phi(-1, Parts[x[1][1]], <<x[2]>>, p, directSrc.grads[x[1][2]])
      BY <2>1, EntryOfValue
    <2>. HIDE DEF cols, n
    <2>. QED BY <2>2, <2>3, <2>4 DEF TermOf, PartOf, Parts
  <1>3. /\ Pairs(p, directSrc.points)
             = Reached(rbf_parts(directModel.rbfs[turn]), row.at, directSrc.points)
        /\ Pairs(p, directSrc.grads)
             = Reached(rbf_parts(directModel.rbfs[turn]), row.at, directSrc.grads)
    BY DEF Pairs, Parts, Reached
  <1>4. ValueRow(p)
          = PointTerms(directModel, row, directSrc.points, directSrc.grads, directWeights, turn)
                      (+) AxisTerms(directModel, row, directSrc.points, directSrc.grads,
                                    directWeights, turn)
    <2>. HIDE DEF cols, n
    <2>1. [x \in Pairs(p, directSrc.points) |->
            <<Phi(1, Parts[x[1]], <<>>, p, directSrc.points[x[2]]), w_(x[2])>>]
          = [x \in Pairs(p, directSrc.points) |->
                  TermOf(directModel, row, cols, directWeights, <<<<turn, x[1]>>, x[2]>>)]
      BY <1>1
    <2>2. [x \in Pairs(p, directSrc.grads) \X (1..kDim) |->
              <<Phi(-1, Parts[x[1][1]], <<x[2]>>, p, directSrc.grads[x[1][2]]),
                grad_w(x[1][2], x[2])>>]
          = [x \in Pairs(p, directSrc.grads) \X (1..kDim) |->
                  TermOf(directModel, row, cols, directWeights,
                         <<<<turn, x[1][1]>>, ColumnOf(n, x[1][2], x[2])>>)]
      BY <1>2
    <2>. QED BY <1>3, <2>1, <2>2 DEF ValueRow, PointTerms, AxisTerms, n, cols
  <1>. QED BY <1>4, RowSplit

\* The same for the row of a derivative.
LEMMA GradientRowRight ==
  ASSUME directModel \in Models, directSrc.points \in Seq(Nat), directSrc.grads \in Seq(Nat),
         turn \in 1..Len(directModel.rbfs), NEW p, NEW axis \in 1..kDim,
         NEW row, row = [at |-> p, axis |-> axis]
  PROVE  GradientRow(p, axis)
           = Over(directModel, row, Functionals(directSrc.points, directSrc.grads), directWeights,
                            OfRbf(directModel, row, Functionals(directSrc.points, directSrc.grads),
                                  turn))
  <1>. DEFINE cols == Functionals(directSrc.points, directSrc.grads)
              n == Len(directSrc.points)
  <1>1. ASSUME NEW x \in Pairs(p, directSrc.points)
        PROVE  <<Phi(1, Parts[x[1]], <<axis>>, p, directSrc.points[x[2]]), w_(x[2])>>
                 = TermOf(directModel, row, cols, directWeights, <<<<turn, x[1]>>, x[2]>>)
    <2>1. x[2] \in 1..n
      BY DEF Pairs
    <2>2. cols[x[2]] = [at |-> directSrc.points[x[2]], axis |-> 0]
      BY <2>1, PointColumn
    <2>3. EntryAt(Parts[x[1]], [at |-> p, axis |-> axis], [at |-> directSrc.points[x[2]], axis |-> 0])
            = Phi(1, Parts[x[1]], <<axis>>, p, directSrc.points[x[2]])
      BY DimAssumption, EntryOfAxis
    <2>. HIDE DEF cols
    <2>. QED BY <2>2, <2>3 DEF TermOf, PartOf, Parts, w_
  <1>2. ASSUME NEW x \in Pairs(p, directSrc.grads) \X (1..kDim)
        PROVE  <<Phi(-1, Parts[x[1][1]], Second(axis, x[2]), p, directSrc.grads[x[1][2]]),
                 grad_w(x[1][2], x[2])>>
                 = TermOf(directModel, row, cols, directWeights,
                          <<<<turn, x[1][1]>>, ColumnOf(n, x[1][2], x[2])>>)
    <2>1. x[1][2] \in 1..Len(directSrc.grads) /\ x[2] \in 1..kDim
      BY DEF Pairs
    <2>2. cols[ColumnOf(n, x[1][2], x[2])] = [at |-> directSrc.grads[x[1][2]], axis |-> x[2]]
      BY <2>1, AxisColumn
    <2>3. grad_w(x[1][2], x[2]) = directWeights[ColumnOf(n, x[1][2], x[2])]
      BY DEF grad_w, Mu, ColumnOf
    <2>4. EntryAt(Parts[x[1][1]], row, [at |-> directSrc.grads[x[1][2]], axis |-> x[2]])
            = Phi(-1, Parts[x[1][1]], Second(axis, x[2]), p, directSrc.grads[x[1][2]])
      <3>1. PICK rbf, q, k : k \in 1..kDim /\ rbf = Parts[x[1][1]] /\ q = directSrc.grads[x[1][2]]
                   /\ k = x[2]
        BY <2>1
      <3>2. EntryAt(rbf, [at |-> p, axis |-> axis], [at |-> q, axis |-> k])
              = Phi(-1, rbf, Second(axis, k), p, q)
        BY <3>1, DimAssumption DEF EntryAt
      <3>. QED BY <3>1, <3>2
    <2>. HIDE DEF cols, n
    <2>. QED BY <2>2, <2>3, <2>4 DEF TermOf, PartOf, Parts
  <1>3. /\ Pairs(p, directSrc.points)
             = Reached(rbf_parts(directModel.rbfs[turn]), row.at, directSrc.points)
        /\ Pairs(p, directSrc.grads)
             = Reached(rbf_parts(directModel.rbfs[turn]), row.at, directSrc.grads)
    BY DEF Pairs, Parts, Reached
  <1>4. GradientRow(p, axis)
          = PointTerms(directModel, row, directSrc.points, directSrc.grads, directWeights, turn)
                      (+) AxisTerms(directModel, row, directSrc.points, directSrc.grads,
                                    directWeights, turn)
    <2>. HIDE DEF cols, n
    <2>1. [x \in Pairs(p, directSrc.points) |->
            <<Phi(1, Parts[x[1]], <<axis>>, p, directSrc.points[x[2]]), w_(x[2])>>]
          = [x \in Pairs(p, directSrc.points) |->
                  TermOf(directModel, row, cols, directWeights, <<<<turn, x[1]>>, x[2]>>)]
      BY <1>1
    <2>2. [x \in Pairs(p, directSrc.grads) \X (1..kDim) |->
              <<Phi(-1, Parts[x[1][1]], Second(axis, x[2]), p, directSrc.grads[x[1][2]]),
                grad_w(x[1][2], x[2])>>]
          = [x \in Pairs(p, directSrc.grads) \X (1..kDim) |->
                  TermOf(directModel, row, cols, directWeights,
                         <<<<turn, x[1][1]>>, ColumnOf(n, x[1][2], x[2])>>)]
      BY <1>2
    <2>. QED BY <1>3, <2>1, <2>2 DEF GradientRow, PointTerms, AxisTerms, n, cols
  <1>. QED BY <1>4, RowSplit
-----------------------------------------------------------------------------
(* Types, shared rows and the critical section                              *)

\* What a thread has read of y in the critical section is y as it is.
NoUpdateLost ==
  \A t \in Thread : threadPc[t] = "merging" => critical = t /\ loaded[t] = directY

\* What a thread is about to add are the sums of its own rows for the rbf whose turn it is,
\* with the points and weights that were set last.
OwnRows == \A t \in Thread : threadPc[t] \in {"merge", "merging"} => local[t] = RowSums(t)

\* When a thread leaves the critical section, y has got all that the thread has summed up,
\* and keeps all that the others have added.
MergesAtomic == [][\A t \in Thread : Leave(t) => directY' = Plus(directY, local[t])]_directVars

DirectInv ==
  /\ DirectTypeOK /\ NoUpdateLost /\ OwnRows
  /\ directModel \in Models /\ DOMAIN threadPc = Thread /\ DOMAIN local = Thread
  /\ DOMAIN loaded = Thread
  /\ turn = 0 => \A t \in Thread : threadPc[t] = "done"

\* schedule(static) gives each of n rows to exactly one thread.
LEMMA RowsShared ==
  ASSUME NEW n \in Nat \ {0}, NEW r \in 1..n
  PROVE  \E t \in Thread : r \in Mine(t, n) /\ \A u \in Thread : r \in Mine(u, n) => u = t
  <1>1. PICK c \in Nat : c = Cardinality(Thread) /\ c # 0 /\ Thread = 1..c
    <2>1. Cardinality(Thread) \in Nat
      BY FS_CardinalityType, ThreadAssumption
    <2>. QED BY <2>1, ThreadAssumption
  <1>2. PICK x \in Nat : x = (r - 1) * c /\ x < n * c
    <2>1. PICK m \in Nat : m = r - 1 /\ m <= n - 1
      OBVIOUS
    <2>2. m * c \in Nat /\ m * c <= (n - 1) * c
      BY <1>1, <2>1, Products
    <2>3. (n - 1) * c + c = n * c /\ (n - 1) * c \in Int /\ n * c \in Int
      BY <1>1
    <2>. QED BY <1>1, <2>1, <2>2, <2>3
  <1>3. PICK q \in Nat : q = x \div n /\ n * q <= x
    BY <1>2
  <1>4. q < c
    <2>1. SUFFICES ASSUME q >= c PROVE FALSE
      BY <1>1, <1>3
    <2>2. n * c <= n * q /\ n * c \in Int /\ n * q \in Int
      BY <1>1, <1>3, <2>1, Products
    <2>. QED BY <1>2, <1>3, <2>2
  <1>5. \A u \in Thread : r \in Mine(u, n) <=> q = u - 1
    <2>1. \A u : r \in Mine(u, n) <=> (((r - 1) * Cardinality(Thread)) \div n = u - 1)
      BY DEF Mine
    <2>2. ((r - 1) * Cardinality(Thread)) \div n = q
      BY <1>1, <1>2, <1>3
    <2>. QED BY <2>1, <2>2
  <1>6. q + 1 \in Thread
    <2>1. q + 1 \in 1..c
      BY <1>4
    <2>. QED BY <1>1, <2>1
  <1>. QED BY <1>1, <1>3, <1>5, <1>6

\* The sums of rows depend on what does not change while threads work.
LEMMA SumsStay ==
  ASSUME directModel' = directModel, directSrc' = directSrc, directTrg' = directTrg,
         directWeights' = directWeights, turn' = turn, DOMAIN directY' = DOMAIN directY,
         NEW t
  PROVE  RowSums(t)' = RowSums(t)
  BY DEF RowSums, ValueRow, GradientRow, Mu, w_, grad_w, Parts, Pairs

\* Between calls no thread has anything to add.
LEMMA InvInit == DirectInit => DirectInv
  <1>. SUFFICES ASSUME DirectInit PROVE DirectInv
    OBVIOUS
  <1>1. Len(directModel.rbfs) \in Nat \ {0}
    BY ModelsAssumption DEF DirectInit
  <1>2. \A t \in Thread : threadPc[t] = "done" /\ t # 0
    <2>1. Cardinality(Thread) \in Nat
      BY FS_CardinalityType, ThreadAssumption
    <2>. QED BY <2>1, ThreadAssumption DEF DirectInit
  <1>. QED BY <1>1, <1>2 DEF DirectInit, DirectInv, DirectTypeOK, NoUpdateLost, OwnRows

\* DirectInv is inductive.
LEMMA InvKept == DirectInv /\ [DirectNext]_directVars => DirectInv'
  <1>. SUFFICES ASSUME DirectInv, [DirectNext]_directVars PROVE DirectInv'
    OBVIOUS
  <1>1. Len(directModel.rbfs) \in Nat \ {0} /\ directModel \in Models
    BY ModelsAssumption DEF DirectInv
  <1>2. \A t \in Thread : t # 0
    <2>1. Cardinality(Thread) \in Nat
      BY FS_CardinalityType, ThreadAssumption
    <2>. QED BY <2>1, ThreadAssumption
  <1>3. CASE SetDirectSources \/ SetDirectTargets \/ SetDirectPoints \/ SetDirectWeights
    BY <1>1, <1>3
      DEF SetDirectSources, SetDirectTargets, SetDirectPoints, SetDirectWeights, DirectInv,
        DirectTypeOK,
        NoUpdateLost, OwnRows
  <1>4. CASE EvaluatePairs \/ ApplyPairs
    <2>1. /\ turn = 0 /\ turn' = 1 /\ threadPc' = Working
          /\ UNCHANGED <<directModel, local, loaded, critical>>
      BY <1>4 DEF EvaluatePairs, ApplyPairs
    <2>2. \A t \in Thread : threadPc'[t] = "work"
      BY <2>1 DEF Working
    <2>3. DOMAIN threadPc' = Thread
      BY <2>1 DEF Working
    <2>4. \A t \in Thread : critical # t
      BY <2>1 DEF DirectInv, DirectTypeOK
    <2>. QED BY <1>1, <2>1, <2>2, <2>3, <2>4 DEF DirectInv, DirectTypeOK, NoUpdateLost, OwnRows
  <1>5. CASE NextRbf
    <2>1. /\ turn' = turn + 1 /\ turn' \in 1..Len(directModel.rbfs) /\ threadPc' = Working
          /\ UNCHANGED <<directModel, local, loaded, critical>>
      BY <1>1, <1>5 DEF NextRbf, DirectInv, DirectTypeOK
    <2>2. \A t \in Thread : threadPc'[t] = "work"
      BY <2>1 DEF Working
    <2>3. DOMAIN threadPc' = Thread
      BY <2>1 DEF Working
    <2>4. \A t \in Thread : critical # t
      BY <1>5 DEF NextRbf, DirectInv, DirectTypeOK
    <2>. QED BY <1>1, <2>1, <2>2, <2>3, <2>4 DEF DirectInv, DirectTypeOK, NoUpdateLost, OwnRows
  <1>6. CASE FinishPairs
    <2>1. /\ turn' = 0 /\ \A t \in Thread : threadPc[t] = "done"
          /\ UNCHANGED <<directModel, local, loaded, critical, threadPc>>
      BY <1>6 DEF FinishPairs
    <2>. QED BY <1>1, <2>1 DEF DirectInv, DirectTypeOK, NoUpdateLost, OwnRows
  <1>7. ASSUME NEW t \in Thread, Work(t) PROVE DirectInv'
    <2>1. /\ threadPc[t] = "work" /\ threadPc' = [threadPc EXCEPT ![t] = "merge"]
          /\ local' = [local EXCEPT ![t] = RowSums(t)]
          /\ UNCHANGED <<directModel, directSrc, directTrg, directWeights, turn, directY, loaded,
                         critical>>
      BY <1>7 DEF Work
    <2>2. /\ \A u \in Thread : threadPc'[u] = IF u = t THEN "merge" ELSE threadPc[u]
          /\ \A u \in Thread : local'[u] = IF u = t THEN RowSums(t) ELSE local[u]
          /\ DOMAIN threadPc' = Thread /\ DOMAIN local' = Thread
      BY <2>1 DEF DirectInv
    <2>3. OwnRows'
      <3>1. \A u : RowSums(u)' = RowSums(u)
        BY <2>1, SumsStay
      <3>2. \A u \in Thread : threadPc'[u] \in {"merge", "merging"} => local'[u] = RowSums(u)
        BY <2>2 DEF DirectInv, OwnRows
      <3>. QED BY <3>1, <3>2 DEF OwnRows
    <2>. QED BY <1>1, <2>1, <2>2, <2>3 DEF DirectInv, DirectTypeOK, NoUpdateLost
  <1>8. ASSUME NEW t \in Thread, Enter(t) PROVE DirectInv'
    <2>1. /\ threadPc[t] = "merge" /\ critical = 0 /\ critical' = t
          /\ loaded' = [loaded EXCEPT ![t] = directY]
          /\ threadPc' = [threadPc EXCEPT ![t] = "merging"]
          /\ UNCHANGED <<directModel, directSrc, directTrg, directWeights, turn, directY, local>>
      BY <1>8 DEF Enter
    <2>2. /\ \A u \in Thread : threadPc'[u] = IF u = t THEN "merging" ELSE threadPc[u]
          /\ DOMAIN threadPc' = Thread /\ DOMAIN loaded' = Thread /\ loaded'[t] = directY
      BY <2>1 DEF DirectInv
    <2>3. \A u \in Thread : u # t => threadPc[u] # "merging"
      BY <1>2, <2>1 DEF DirectInv, NoUpdateLost
    <2>4. OwnRows'
      <3>1. \A u : RowSums(u)' = RowSums(u)
        BY <2>1, SumsStay
      <3>2. \A u \in Thread : threadPc'[u] \in {"merge", "merging"} => local'[u] = RowSums(u)
        BY <2>1, <2>2 DEF DirectInv, OwnRows
      <3>. QED BY <3>1, <3>2 DEF OwnRows
    <2>. QED BY <1>1, <2>1, <2>2, <2>3, <2>4 DEF DirectInv, DirectTypeOK, NoUpdateLost
  <1>9. ASSUME NEW t \in Thread, Leave(t) PROVE DirectInv'
    <2>1. /\ threadPc[t] = "merging" /\ critical' = 0
          /\ loaded' = [loaded EXCEPT ![t] = <<>>] /\ threadPc' = [threadPc EXCEPT ![t] = "done"]
          /\ local' = [local EXCEPT ![t] = <<>>] /\ directY' = Plus(loaded[t], local[t])
          /\ UNCHANGED <<directModel, directSrc, directTrg, directWeights, turn>>
      BY <1>9 DEF Leave
    <2>2. /\ \A u \in Thread : threadPc'[u] = IF u = t THEN "done" ELSE threadPc[u]
          /\ \A u \in Thread : u # t => local'[u] = local[u]
          /\ DOMAIN threadPc' = Thread /\ DOMAIN local' = Thread /\ DOMAIN loaded' = Thread
      BY <2>1 DEF DirectInv
    <2>3. \A u \in Thread : threadPc[u] = "merging" => u = t
      BY <2>1 DEF DirectInv, NoUpdateLost
    <2>4. OwnRows'
      <3>1. DOMAIN directY' = DOMAIN directY
        BY <2>1 DEF DirectInv, NoUpdateLost, Plus
      <3>2. \A u : RowSums(u)' = RowSums(u)
        BY <2>1, <3>1, SumsStay
      <3>3. \A u \in Thread : threadPc'[u] \in {"merge", "merging"} => local'[u] = RowSums(u)
        BY <2>1, <2>2 DEF DirectInv, OwnRows
      <3>. QED BY <3>2, <3>3 DEF OwnRows
    <2>. QED BY <1>1, <1>2, <2>1, <2>2, <2>3, <2>4 DEF DirectInv, DirectTypeOK, NoUpdateLost
  <1>10. CASE UNCHANGED directVars
    <2>1. \A u : RowSums(u)' = RowSums(u)
      BY <1>10, SumsStay DEF directVars
    <2>2. OwnRows'
      BY <1>10, <2>1 DEF directVars, DirectInv, OwnRows
    <2>. QED BY <1>10, <2>2 DEF directVars, DirectInv, DirectTypeOK, NoUpdateLost
  <1>. QED BY <1>3, <1>4, <1>5, <1>6, <1>7, <1>8, <1>9, <1>10 DEF DirectNext

\* Variables stay in their types, and only the thread that merges is in the critical section.
THEOREM DirectTypes == DirectSpec => []DirectTypeOK
  <1>1. DirectInv => DirectTypeOK
    BY DEF DirectInv
  <1>. QED BY <1>1, InvInit, InvKept, PTL DEF DirectSpec

\* DirectEvaluator::evaluate and DirectOperator::operator(): a thread adds the sums of its rows
\* for the present rbf and the latest points and weights, and to y as it is then, so that
\* nothing another thread has added gets lost.
THEOREM NoneOverwritten ==
  DirectSpec => []NoUpdateLost /\ []OwnRows /\ MergesAtomic
  <1>1. DirectInv => NoUpdateLost /\ OwnRows
    BY DEF DirectInv
  <1>2. DirectInv /\ [DirectNext]_directVars
          => [\A t \in Thread : Leave(t) => directY' = Plus(directY, local[t])]_directVars
    <2>1. ASSUME DirectInv, NEW t \in Thread, Leave(t) PROVE directY' = Plus(directY, local[t])
      BY <2>1 DEF DirectInv, NoUpdateLost, Leave
    <2>. QED BY <2>1
  <1>. QED BY <1>1, <1>2, InvInit, InvKept, PTL DEF DirectSpec, MergesAtomic
-----------------------------------------------------------------------------
(* The whole product                                                        *)

\* The columns of the matrix of the present call.
DirectColumns == Functionals(directSrc.points, directSrc.grads)
\* Whether thread t computes row r: rows of points and points with gradients are shared apart.
HasRow(t, r) ==
  IF r <= Len(directTrg.points) THEN r \in Mine(t, Len(directTrg.points))
  ELSE ((r - Len(directTrg.points) - 1) \div kDim) + 1 \in Mine(t, Len(directTrg.grads))

\* The sum of terms in X of row r, and the entries that row has.
SumTo(r, X) == Over(directModel, Basis[r], DirectColumns, directWeights, X)
TermsOfRow(r) == NonZero(directModel, Basis[r], DirectColumns)
\* What has been added to row r: all of the earlier rbfs, and of the rbf whose turn it is
\* what threads have added that are done.
AddedTo(r) ==
  {x \in TermsOfRow(r) :
    x[1][1] < turn \/ (x[1][1] = turn /\ \E t \in Thread : HasRow(t, r) /\ threadPc[t] = "done")}

\* What row r is before any rbf is added.
StartOf(r) == IF SquarePairs /\ r <= Mu THEN SetToBag({<<Nugget, directWeights[r]>>}) ELSE EmptyBag
\* The rows of the result.
DirectRows == 1..(Rows(directTrg) + (IF SquarePairs THEN directModel.l ELSE 0))

\* The lists and the model are those of the constants, and the weights fit the sources.
CallInv ==
  /\ directModel \in Models /\ directSrc \in Lists \cup {Nothing}
  /\ directTrg \in Lists \cup {Nothing}
  /\ SquarePairs => directTrg = directSrc
  /\ turn > 0 \/ directWeights # Unset =>
       directWeights = [c \in 1..(Rows(directSrc) + directModel.l) |-> directWeights[c]]

\* While rbfs are added, a row has the terms of all that was added, each once, and no other.
SumsSoFar ==
  turn > 0 =>
    directY = [r \in DirectRows |->
      StartOf(r) (+) (IF r \in DOMAIN Basis THEN SumTo(r, AddedTo(r)) ELSE EmptyBag)]

\* What is known of lists that are set, or of those before any is.
LEMMA ListTypes ==
  ASSUME NEW list \in Lists \cup {Nothing}
  PROVE  /\ list.points \in Seq(Nat) /\ list.grads \in Seq(Nat)
         /\ Len(list.points) \in Nat /\ Len(list.grads) \in Nat /\ Rows(list) \in Nat
         /\ DOMAIN Functionals(list.points, list.grads) = 1..Rows(list)
  <1>1. list.points \in Seq(Nat) /\ list.grads \in Seq(Nat)
    <2>1. <<>> \in Seq(Nat)
      OBVIOUS
    <2>2. CASE list \in Lists
      BY <2>2, ListsAssumption
    <2>3. CASE list = Nothing
      BY <2>1, <2>3 DEF Nothing
    <2>. QED BY <2>2, <2>3
  <1>. QED BY <1>1, Columns DEF Rows

\* What thread t has to add to row r.
LEMMA RowSumsRight ==
  ASSUME CallInv, turn \in 1..Len(directModel.rbfs), DOMAIN directY = DirectRows,
         NEW t \in Thread, NEW r \in DirectRows
  PROVE  RowSums(t)[r] = IF r \in DOMAIN Basis /\ HasRow(t, r)
                         THEN SumTo(r, OfRbf(directModel, Basis[r], DirectColumns, turn))
                           ELSE EmptyBag
  <1>. DEFINE n == Len(directTrg.points)
              m == Len(directTrg.grads)
  <1>1. /\ directModel \in Models /\ directSrc.points \in Seq(Nat) /\ directSrc.grads \in Seq(Nat)
        /\ directTrg.points \in Seq(Nat) /\ directTrg.grads \in Seq(Nat) /\ n \in Nat /\ m \in Nat
        /\ Rows(directTrg) \in Nat /\ DOMAIN Basis = 1..Rows(directTrg) /\ directModel.l \in Nat
    BY ListTypes, ModelsAssumption DEF CallInv, Basis
  <1>2. r \in Nat \ {0}
    BY <1>1 DEF DirectRows
  <1>3. \A z, e : z \in Mine(t, e) => z \in 1..e
    BY DEF Mine
  <1>4. RowSums(t)[r] =
          IF r \in Mine(t, n) THEN ValueRow(directTrg.points[r])
          ELSE IF r \in (n + 1)..(n + (kDim * m)) /\ ((r - n - 1) \div kDim) + 1 \in Mine(t, m)
               THEN GradientRow(directTrg.grads[((r - n - 1) \div kDim) + 1],
                                r - n - (kDim * ((((r - n - 1) \div kDim) + 1) - 1)))
               ELSE EmptyBag
    BY DEF RowSums
  <1>5. PICK e \in Nat : e = kDim * m /\ Rows(directTrg) = n + e
    <2>1. \A x \in Nat : kDim * x \in Nat
      BY DimAssumption
    <2>. QED BY <1>1, <2>1 DEF Rows
  <1>6. CASE r <= n
    <2>1. r \in DOMAIN Basis /\ r \in 1..n /\ (HasRow(t, r) <=> r \in Mine(t, n))
            /\ r \notin (n + 1)..(n + (kDim * m))
      BY <1>1, <1>2, <1>5, <1>6 DEF HasRow
    <2>2. Basis[r] = [at |-> directTrg.points[r], axis |-> 0]
      BY <1>1, <2>1, PointColumn DEF Basis
    <2>3. ValueRow(directTrg.points[r]) = SumTo(r, OfRbf(directModel, Basis[r], DirectColumns, turn))
      BY <1>1, <2>2, ValueRowRight DEF SumTo, DirectColumns
    <2>. QED BY <1>4, <2>1, <2>3
  <1>7. CASE r > n /\ r <= n + e
    <2>1. r \in DOMAIN Basis /\ r \notin 1..n /\ r \in (n + 1)..(n + (kDim * m))
      BY <1>1, <1>2, <1>5, <1>7
    <2>2. PICK j \in 1..m : \E k \in 1..kDim : r = ColumnOf(n, j, k)
      BY <1>1, <2>1, EachColumn DEF Basis
    <2>3. PICK k \in 1..kDim : r = ColumnOf(n, j, k)
      BY <2>2
    <2>4. Basis[r] = [at |-> directTrg.grads[j], axis |-> k]
      BY <1>1, <2>3, AxisColumn DEF Basis
    <2>5. PICK c \in Nat : c = (kDim * (j - 1)) + k /\ (c - 1) \div kDim = j - 1
      <3>1. kDim \in Nat \ {0} /\ j \in 1..m /\ m \in Nat /\ k \in 1..kDim
        BY <1>1, DimAssumption
      <3>2. PICK c \in 1..(kDim * m) : c = (kDim * (j - 1)) + k /\ (c - 1) \div kDim = j - 1
                   /\ (c - 1) % kDim = k - 1
        BY <3>1, AxisPlace
      <3>. QED BY <3>2
    <2>6. PICK q \in Int : q = kDim * (j - 1)
      BY <1>1, DimAssumption
    <2>7. r - n - 1 = c - 1 /\ r - n - q = k
      <3>1. r = n + q + k
        BY <2>3, <2>6 DEF ColumnOf
      <3>2. c = q + k
        BY <2>5, <2>6
      <3>. QED BY <1>1, <1>2, <2>6, <3>1, <3>2
    <2>8. ((r - n - 1) \div kDim) + 1 = j
      BY <1>1, <2>5, <2>7
    <2>9. r \notin Mine(t, n) /\ (HasRow(t, r) <=> j \in Mine(t, m))
      BY <1>1, <1>2, <1>3, <1>7, <2>1, <2>8 DEF HasRow
    <2>10. GradientRow(directTrg.grads[j], k)
             = SumTo(r, OfRbf(directModel, Basis[r], DirectColumns, turn))
      BY <1>1, <2>4, GradientRowRight DEF SumTo, DirectColumns
    <2>11. r - n - (kDim * ((((r - n - 1) \div kDim) + 1) - 1)) = k
      BY <2>6, <2>7, <2>8
    <2>. QED BY <1>4, <2>1, <2>8, <2>9, <2>10, <2>11
  <1>8. CASE r > n + e
    <2>1. r \notin DOMAIN Basis /\ r \notin Mine(t, n) /\ r \notin (n + 1)..(n + (kDim * m))
      BY <1>1, <1>2, <1>3, <1>5, <1>8
    <2>. QED BY <1>4, <2>1
  <1>. QED BY <1>1, <1>2, <1>5, <1>6, <1>7, <1>8

\* CallInv holds at first.
LEMMA CallInvInit == DirectInit => CallInv
  BY DEF DirectInit, CallInv

\* Every step keeps CallInv.
LEMMA CallInvKept == CallInv /\ [DirectNext]_directVars => CallInv'
  <1>. SUFFICES ASSUME CallInv, [DirectNext]_directVars PROVE CallInv'
    OBVIOUS
  <1>1. CASE SetDirectSources
    BY <1>1 DEF SetDirectSources, CallInv, SquarePairs
  <1>2. CASE SetDirectTargets
    BY <1>2 DEF SetDirectTargets, CallInv, SquarePairs, Rows
  <1>3. CASE SetDirectPoints
    BY <1>3 DEF SetDirectPoints, CallInv, SquarePairs
  <1>4. CASE SetDirectWeights
    BY <1>4 DEF SetDirectWeights, CallInv, SquarePairs, Rows
  <1>5. CASE EvaluatePairs
    BY <1>5 DEF EvaluatePairs, CallInv, SquarePairs, Rows
  <1>6. CASE ApplyPairs
    BY <1>6 DEF ApplyPairs, CallInv, SquarePairs, Rows
  <1>7. CASE NextRbf \/ FinishPairs
    BY <1>7, ModelsAssumption DEF NextRbf, FinishPairs, CallInv, SquarePairs, Rows
  <1>8. ASSUME NEW t \in Thread, Work(t) \/ Enter(t) \/ Leave(t) PROVE CallInv'
    BY <1>8 DEF Work, Enter, Leave, CallInv, SquarePairs, Rows
  <1>9. CASE UNCHANGED directVars
    BY <1>9 DEF directVars, CallInv, SquarePairs, Rows
  <1>. QED BY <1>1, <1>5, <1>6, <1>7, <1>8, <1>9, <1>2, <1>3, <1>4 DEF DirectNext

\* The entries of a row are finitely many, of the rbfs of the model.
LEMMA RowTerms ==
  ASSUME CallInv, NEW r
  PROVE  /\ directModel \in Models /\ IsFiniteSet(DOMAIN DirectColumns)
         /\ \A x \in TermsOfRow(r) : x[1][1] \in 1..Len(directModel.rbfs)
  <1>1. directModel \in Models /\ IsFiniteSet(DOMAIN DirectColumns)
    BY ListTypes, Columns DEF CallInv, DirectColumns
  <1>2. ASSUME NEW x \in TermsOfRow(r) PROVE x[1][1] \in 1..Len(directModel.rbfs)
    <2>1. x[1] \in RbfsOf(directModel)
      BY DEF TermsOfRow, NonZero
    <2>. QED BY <1>1, <2>1, RbfNumbers
  <1>. QED BY <1>1, <1>2

\* The sums stay as they are when nothing that they are made of changes.
LEMMA SumsSame ==
  ASSUME UNCHANGED <<directKind, directModel, directSrc, directTrg, directWeights, turn, directY>>,
         SumsSoFar, \A t \in Thread : threadPc[t] = "done" <=> threadPc'[t] = "done"
  PROVE  SumsSoFar'
  <1>1. /\ SquarePairs' = SquarePairs /\ Mu' = Mu /\ DirectRows' = DirectRows /\ Basis' = Basis
        /\ DirectColumns' = DirectColumns
    BY DEF SquarePairs, Mu, DirectRows, Basis, DirectColumns, Rows
  <1>2. \A r : StartOf(r)' = StartOf(r)
    BY <1>1 DEF StartOf
  <1>3. ASSUME NEW r PROVE SumTo(r, AddedTo(r))' = SumTo(r, AddedTo(r))
    <2>1. \A t : HasRow(t, r)' = HasRow(t, r)
      BY DEF HasRow, Mine
    <2>2. TermsOfRow(r)' = TermsOfRow(r)
      BY <1>1 DEF TermsOfRow
    <2>3. AddedTo(r)' = AddedTo(r)
      BY <2>1, <2>2 DEF AddedTo
    <2>. QED BY <1>1, <2>3 DEF SumTo
  <1>. QED BY <1>1, <1>2, <1>3 DEF SumsSoFar

\* Each row has one thread.
LEMMA OneThread ==
  ASSUME CallInv, NEW r \in DOMAIN Basis
  PROVE  \E t \in Thread : HasRow(t, r) /\ \A u \in Thread : HasRow(u, r) => u = t
  <1>. DEFINE n == Len(directTrg.points)
              m == Len(directTrg.grads)
  <1>1. /\ directTrg.points \in Seq(Nat) /\ directTrg.grads \in Seq(Nat) /\ n \in Nat /\ m \in Nat
        /\ Rows(directTrg) \in Nat /\ DOMAIN Basis = 1..Rows(directTrg)
    BY ListTypes DEF CallInv, Basis
  <1>2. CASE r <= n
    <2>1. n \in Nat \ {0} /\ r \in 1..n
      BY <1>1, <1>2
    <2>2. PICK t \in Thread : r \in Mine(t, n) /\ \A u \in Thread : r \in Mine(u, n) => u = t
      BY <2>1, RowsShared
    <2>. QED BY <1>2, <2>2 DEF HasRow
  <1>3. CASE ~(r <= n)
    <2>1. r \notin 1..n /\ r \in Nat
      BY <1>1, <1>3
    <2>2. PICK j \in 1..m : \E k \in 1..kDim : r = ColumnOf(n, j, k)
      BY <1>1, <2>1, EachColumn DEF Basis
    <2>3. PICK k \in 1..kDim : r = ColumnOf(n, j, k)
      BY <2>2
    <2>4. ((r - n - 1) \div kDim) + 1 = j
      <3>1. kDim \in Nat \ {0} /\ j \in 1..m /\ m \in Nat /\ k \in 1..kDim
        BY <1>1, DimAssumption
      <3>2. PICK c \in 1..(kDim * m) : c = (kDim * (j - 1)) + k /\ (c - 1) \div kDim = j - 1
                   /\ (c - 1) % kDim = k - 1
        BY <3>1, AxisPlace
      <3>3. PICK q \in Int : q = kDim * (j - 1)
        BY <3>1
      <3>4. r = n + q + k /\ c = q + k
        BY <2>3, <3>2, <3>3 DEF ColumnOf
      <3>5. r - n - 1 = c - 1
        <4>1. n \in Int /\ q \in Int /\ k \in Int
          BY <1>1, <3>1, <3>3
        <4>. HIDE DEF n
        <4>2. (n + q + k) - n - 1 = (q + k) - 1
          BY <4>1
        <4>. QED BY <3>4, <4>2
      <3>. QED BY <3>1, <3>2, <3>5
    <2>5. m \in Nat \ {0}
      BY <1>1
    <2>6. PICK t \in Thread : j \in Mine(t, m) /\ \A u \in Thread : j \in Mine(u, m) => u = t
      BY <2>5, RowsShared
    <2>. QED BY <1>3, <2>4, <2>6 DEF HasRow
  <1>. QED BY <1>2, <1>3

\* A row starts as a sum.
LEMMA StartType == ASSUME NEW r PROVE IsSum(StartOf(r))
  BY DEF StartOf, IsSum, SetToBag, EmptyBag

\* A thread that leaves the critical section has added its rows, and none that was there before.
LEMMA LeaveSums ==
  ASSUME DirectInv, CallInv, SumsSoFar, NEW t \in Thread, Leave(t)
  PROVE  SumsSoFar'
  <1>1. /\ turn \in 1..Len(directModel.rbfs) /\ Len(directModel.rbfs) \in Nat /\ threadPc[t] # "done"
        /\ UNCHANGED <<directKind, directModel, directSrc, directTrg, directWeights, turn>>
        /\ \A u \in Thread : threadPc'[u] = "done" <=> (u = t \/ threadPc[u] = "done")
        /\ directY' = Plus(directY, RowSums(t))
    <2>1. threadPc[t] = "merging" /\ threadPc' = [threadPc EXCEPT ![t] = "done"]
            /\ directY' = Plus(loaded[t], local[t])
          /\ UNCHANGED <<directKind, directModel, directSrc, directTrg, directWeights, turn>>
      BY DEF Leave
    <2>2. turn # 0
      BY <2>1 DEF DirectInv
    <2>3. loaded[t] = directY /\ local[t] = RowSums(t)
      BY <2>1 DEF DirectInv, NoUpdateLost, OwnRows
    <2>4. Len(directModel.rbfs) \in Nat
      BY ModelsAssumption DEF CallInv
    <2>. QED BY <2>1, <2>2, <2>3, <2>4 DEF DirectInv, DirectTypeOK
  <1>2. /\ SquarePairs' = SquarePairs /\ Mu' = Mu /\ DirectRows' = DirectRows /\ Basis' = Basis
        /\ DirectColumns' = DirectColumns
        /\ \A r : TermsOfRow(r)' = TermsOfRow(r)
        /\ \A u, r : HasRow(u, r)' = HasRow(u, r)
    BY <1>1 DEF SquarePairs, Mu, DirectRows, Basis, DirectColumns, Rows, TermsOfRow, HasRow, Mine
  <1>3. \A r : StartOf(r)' = StartOf(r)
    BY <1>1, <1>2 DEF StartOf
  <1>4. \A r, X : Over(directModel, Basis[r], DirectColumns, directWeights, X)' =
                  Over(directModel', Basis'[r], DirectColumns', directWeights', X')
    OBVIOUS
  <1>5. directY = [r \in DirectRows |->
          StartOf(r) (+) (IF r \in DOMAIN Basis THEN SumTo(r, AddedTo(r)) ELSE EmptyBag)]
    BY <1>1 DEF SumsSoFar
  <1>6. directY' = [r \in DirectRows |-> directY[r] (+) RowSums(t)[r]]
    BY <1>1, <1>5 DEF Plus
  <1>7. ASSUME NEW r \in DirectRows
        PROVE  directY[r] (+) RowSums(t)[r]
                 = StartOf(r) (+) (IF r \in DOMAIN Basis THEN SumTo(r, AddedTo(r))' ELSE EmptyBag)
    <2>1. RowSums(t)[r] = IF r \in DOMAIN Basis /\ HasRow(t, r)
                          THEN SumTo(r, OfRbf(directModel, Basis[r], DirectColumns, turn))
                            ELSE EmptyBag
      BY <1>1, <1>5, RowSumsRight
    <2>2. /\ directModel \in Models /\ IsFiniteSet(DOMAIN DirectColumns)
          /\ \A x \in TermsOfRow(r) : x[1][1] \in 1..Len(directModel.rbfs)
      BY RowTerms
    <2>3. AddedTo(r) \in SUBSET TermsOfRow(r)
            /\ OfRbf(directModel, Basis[r], DirectColumns, turn) \in SUBSET TermsOfRow(r)
      BY DEF AddedTo, OfRbf, TermsOfRow
    <2>4. IsSum(SumTo(r, AddedTo(r)))
            /\ IsSum(SumTo(r, OfRbf(directModel, Basis[r], DirectColumns, turn))) /\ IsSum(StartOf(r))
      BY <2>2, <2>3, OverType, StartType DEF SumTo, TermsOfRow
    <2>5. AddedTo(r)' = {x \in TermsOfRow(r) :
                          x[1][1] < turn \/ (x[1][1] = turn /\ \E u \in Thread : HasRow(u, r)
                            /\ (u = t \/ threadPc[u] = "done"))}
      BY <1>1, <1>2 DEF AddedTo
    <2>6. CASE r \in DOMAIN Basis /\ HasRow(t, r)
      <3>1. \A u \in Thread : HasRow(u, r) => u = t
        BY <2>6, OneThread
      <3>2. AddedTo(r) = {x \in TermsOfRow(r) : x[1][1] < turn}
        BY <1>1, <3>1 DEF AddedTo
      <3>3. OfRbf(directModel, Basis[r], DirectColumns, turn) = {x \in TermsOfRow(r) : x[1][1] = turn}
        BY DEF OfRbf, TermsOfRow
      <3>4. AddedTo(r)' = AddedTo(r) \cup OfRbf(directModel, Basis[r], DirectColumns, turn)
        BY <2>5, <2>6, <3>2, <3>3
      <3>5. AddedTo(r) \cap OfRbf(directModel, Basis[r], DirectColumns, turn) = {}
        BY <1>1, <2>2, <3>2, <3>3
      <3>6. SumTo(r, AddedTo(r))'
              = SumTo(r, AddedTo(r)) (+) SumTo(r, OfRbf(directModel, Basis[r], DirectColumns, turn))
        <4>1. SumTo(r, AddedTo(r))'
                = Over(directModel, Basis[r], DirectColumns, directWeights, AddedTo(r)')
          BY <1>1, <1>2 DEF SumTo
        <4>. QED BY <2>2, <2>3, <3>4, <3>5, <4>1, OverUnion DEF SumTo, TermsOfRow
      <3>7. directY[r] = StartOf(r) (+) SumTo(r, AddedTo(r))
        BY <1>5, <2>6
      <3>. QED BY <2>1, <2>4, <2>6, <3>6, <3>7, PlusAssociates
    <2>7. CASE r \in DOMAIN Basis /\ ~HasRow(t, r)
      <3>1. AddedTo(r)' = AddedTo(r)
        BY <2>5, <2>7 DEF AddedTo
      <3>2. SumTo(r, AddedTo(r))' = SumTo(r, AddedTo(r))
        BY <1>1, <1>2, <3>1 DEF SumTo
      <3>3. directY[r] = StartOf(r) (+) SumTo(r, AddedTo(r)) /\ RowSums(t)[r] = EmptyBag
        BY <1>5, <2>1, <2>7
      <3>4. IsSum(StartOf(r) (+) SumTo(r, AddedTo(r)))
        BY <2>4, PlusSum
      <3>. QED BY <2>7, <3>2, <3>3, <3>4, PlusNothing
    <2>8. CASE r \notin DOMAIN Basis
      <3>1. directY[r] = StartOf(r) (+) EmptyBag /\ RowSums(t)[r] = EmptyBag
        BY <1>5, <2>1, <2>8
      <3>. QED BY <2>4, <2>8, <3>1, PlusNothing
    <2>. QED BY <2>6, <2>7, <2>8
  <1>. QED BY <1>2, <1>3, <1>6, <1>7 DEF SumsSoFar

\* A function on 1..n is a sequence of length n.
LEMMA AsSequence ==
  ASSUME NEW n \in Nat, NEW s, s = [r \in 1..n |-> s[r]]
  PROVE  s \in Seq({s[r] : r \in 1..n}) /\ Len(s) = n
  <1>1. PICK S : S = {s[r] : r \in 1..n}
    OBVIOUS
  <1>2. s \in [1..n -> S]
    BY <1>1
  <1>3. s \in Seq(S)
    BY <1>2, SeqDef
  <1>. QED BY <1>1, <1>2, <1>3

\* Two sequences, one after the other.
LEMMA Concatenated ==
  ASSUME NEW n \in Nat, NEW l \in Nat, NEW s, NEW t, s = [r \in 1..n |-> s[r]],
         t = [r \in 1..l |-> t[r]]
  PROVE  s \o t = [r \in 1..(n + l) |-> IF r <= n THEN s[r] ELSE t[r - n]]
  <1>1. PICK S : s \in Seq(S) /\ Len(s) = n
    BY AsSequence
  <1>2. PICK T : t \in Seq(T) /\ Len(t) = l
    BY AsSequence
  <1>3. s \in Seq(S \cup T) /\ t \in Seq(S \cup T)
    BY <1>1, <1>2
  <1>. QED BY <1>1, <1>2, <1>3

\* A call starts with rows to which nothing has been added.
LEMMA StartSums ==
  ASSUME CallInv, EvaluatePairs \/ ApplyPairs
  PROVE  SumsSoFar'
  <1>1. /\ UNCHANGED <<directKind, directModel, directSrc, directTrg>> /\ turn' = 1
        /\ \A t \in Thread : threadPc'[t] = "work"
        /\ Rows(directTrg) \in Nat /\ Mu \in Nat
    <2>1. Rows(directTrg) \in Nat /\ Mu \in Nat
      BY ListTypes DEF CallInv, Mu
    <2>. QED BY <2>1 DEF EvaluatePairs, ApplyPairs, Working
  <1>2. /\ SquarePairs' = SquarePairs /\ Mu' = Mu /\ DirectRows' = DirectRows /\ Basis' = Basis
        /\ DirectColumns' = DirectColumns
        /\ \A r : TermsOfRow(r)' = TermsOfRow(r)
    BY <1>1 DEF SquarePairs, Mu, DirectRows, Basis, DirectColumns, Rows, TermsOfRow
  <1>3. directY' = [r \in DirectRows |-> StartOf(r)']
    <2>1. CASE EvaluatePairs
      <3>1. ~SquarePairs /\ directY' = [r \in 1..Rows(directTrg) |-> EmptyBag]
        BY <2>1 DEF EvaluatePairs, SquarePairs
      <3>2. DirectRows = 1..Rows(directTrg)
        BY <1>1, <3>1 DEF DirectRows
      <3>3. \A r : StartOf(r)' = EmptyBag
        BY <1>2, <3>1 DEF StartOf
      <3>. QED BY <3>1, <3>2, <3>3
    <2>2. CASE ApplyPairs
      <3>1. PICK w : /\ w = [c \in 1..(Rows(directSrc) + directModel.l) |-> w[c]]
                     /\ directWeights' = w /\ SquarePairs
                     /\ directY' = [r \in DOMAIN w |-> IF r <= Mu THEN SetToBag({<<Nugget, w[r]>>})
                          ELSE EmptyBag]
        BY <2>2 DEF ApplyPairs
      <3>2. DirectRows = DOMAIN w
        BY <3>1 DEF DirectRows, CallInv
      <3>3. \A r : StartOf(r)' = IF r <= Mu THEN SetToBag({<<Nugget, w[r]>>}) ELSE EmptyBag
        BY <1>2, <3>1 DEF StartOf
      <3>. QED BY <3>1, <3>2, <3>3
    <2>. QED BY <2>1, <2>2
  <1>4. ASSUME NEW r PROVE StartOf(r)'
                 = StartOf(r)' (+) (IF r \in DOMAIN Basis THEN SumTo(r, AddedTo(r))' ELSE EmptyBag)
    <2>1. IsSum(StartOf(r)')
      BY DEF StartOf, IsSum, SetToBag, EmptyBag
    <2>2. AddedTo(r)' = {}
      <3>1. \A x \in TermsOfRow(r) : x[1][1] \in Nat /\ x[1][1] >= 1
        <4>1. \A x \in TermsOfRow(r) : x[1][1] \in 1..Len(directModel.rbfs)
          BY RowTerms
        <4>2. Len(directModel.rbfs) \in Nat
          BY ModelsAssumption DEF CallInv
        <4>. QED BY <4>1, <4>2
      <3>. QED BY <1>1, <1>2, <3>1 DEF AddedTo
    <2>3. SumTo(r, AddedTo(r))' = EmptyBag
      <3>1. SumTo(r, AddedTo(r))' = Over(directModel, Basis[r], DirectColumns, directWeights', {})
        BY <1>1, <1>2, <2>2 DEF SumTo
      <3>2. {} \in SUBSET NonZero(directModel, Basis[r], DirectColumns)
        OBVIOUS
      <3>. QED BY <3>1, <3>2, RowTerms, OverType
    <2>. QED BY <2>1, <2>3, PlusNothing
  <1>. QED BY <1>2, <1>3, <1>4 DEF SumsSoFar

\* When all threads are done all terms of the rbf have been added, and the next one has its turn.
LEMMA NextRbfSums ==
  ASSUME CallInv, SumsSoFar, NextRbf
  PROVE  SumsSoFar'
  <1>1. /\ UNCHANGED <<directKind, directModel, directSrc, directTrg, directWeights, directY>>
        /\ turn' = turn + 1
        /\ turn \in Nat \ {0} /\ turn' # turn
        /\ \A t \in Thread : threadPc[t] = "done" /\ threadPc'[t] = "work"
    <2>1. Len(directModel.rbfs) \in Nat
      BY ModelsAssumption DEF CallInv
    <2>. QED BY <2>1 DEF NextRbf, Working
  <1>2. /\ SquarePairs' = SquarePairs /\ Mu' = Mu /\ DirectRows' = DirectRows /\ Basis' = Basis
        /\ DirectColumns' = DirectColumns
        /\ \A r : TermsOfRow(r)' = TermsOfRow(r)
    BY <1>1 DEF SquarePairs, Mu, DirectRows, Basis, DirectColumns, Rows, TermsOfRow
  <1>3. \A r : StartOf(r)' = StartOf(r)
    BY <1>1, <1>2 DEF StartOf
  <1>4. ASSUME NEW r \in DOMAIN Basis PROVE SumTo(r, AddedTo(r))' = SumTo(r, AddedTo(r))
    <2>1. \A x \in TermsOfRow(r) : x[1][1] \in Nat
      <3>1. \A x \in TermsOfRow(r) : x[1][1] \in 1..Len(directModel.rbfs)
        BY RowTerms
      <3>. QED BY <3>1
    <2>2. AddedTo(r) = {x \in TermsOfRow(r) : x[1][1] < turn \/ x[1][1] = turn}
      <3>1. \E t \in Thread : HasRow(t, r)
        BY OneThread
      <3>. QED BY <1>1, <3>1 DEF AddedTo
    <2>3. AddedTo(r)' = {x \in TermsOfRow(r) : x[1][1] < turn + 1}
      BY <1>1, <1>2 DEF AddedTo
    <2>4. AddedTo(r)' = AddedTo(r)
      BY <1>1, <2>1, <2>2, <2>3
    <2>. QED BY <1>1, <1>2, <2>4 DEF SumTo
  <1>. QED BY <1>1, <1>2, <1>3, <1>4 DEF SumsSoFar

\* The terms in a set, each once.
LEMMA SetBag == ASSUME NEW S PROVE IsSum(SetToBag(S))
  BY DEF IsSum, SetToBag

\* After the last rbf the polynomial is added, and the result is the product.
LEMMA FinishRight ==
  ASSUME CallInv, SumsSoFar, FinishPairs
  PROVE  directY' =
           IF SquarePairs
           THEN SquareProduct(directModel, directSrc.points, directSrc.grads, directWeights)
           ELSE Product(directModel, directSrc.points, directSrc.grads, directTrg.points,
                        directTrg.grads, directWeights)
  <1>. DEFINE mono(r) == SetToBag({<<Monomial(k, Basis[r]), l_weight(k)>> : k \in 1..directModel.l})
              last(r) == SetToBag({<<Monomial(r - Rows(directSrc), Basis[c]), directWeights[c]>> :
                c \in DOMAIN Basis})
              product == Product(directModel, directSrc.points, directSrc.grads, directTrg.points,
                                 directTrg.grads, directWeights)
  <1>1. /\ turn = Len(directModel.rbfs) /\ turn > 0 /\ turn \in Nat /\ directModel \in Models
        /\ directModel.l \in Nat
        /\ \A t \in Thread : threadPc[t] = "done"
        /\ directY' = [r \in DOMAIN directY |-> IF r \in DOMAIN Basis THEN directY[r] (+) mono(r)
             ELSE directY[r] (+) last(r)]
    BY ModelsAssumption DEF FinishPairs, CallInv
  <1>2. /\ Rows(directSrc) \in Nat /\ Rows(directTrg) \in Nat /\ Mu \in Nat
        /\ DOMAIN Basis = 1..Rows(directTrg)
    BY ListTypes DEF CallInv, Mu, Basis
  <1>3. directY = [r \in DirectRows |->
          StartOf(r) (+) (IF r \in DOMAIN Basis THEN SumTo(r, AddedTo(r)) ELSE EmptyBag)]
    BY <1>1 DEF SumsSoFar
  <1>4. ASSUME NEW r \in DOMAIN Basis
        PROVE  /\ SumTo(r, AddedTo(r))
                    = RbfTerms(directModel, Basis[r], directSrc.points, directSrc.grads,
                               directWeights)
               /\ IsSum(SumTo(r, AddedTo(r)))
    <2>1. \A x \in TermsOfRow(r) : x[1][1] \in 1..turn
      BY <1>1, RowTerms
    <2>2. \E t \in Thread : HasRow(t, r)
      BY OneThread
    <2>3. AddedTo(r) = TermsOfRow(r)
      BY <1>1, <2>1, <2>2 DEF AddedTo
    <2>4. SumTo(r, AddedTo(r))
            = RbfTerms(directModel, Basis[r], directSrc.points, directSrc.grads, directWeights)
      BY <2>3, RbfTermsOver DEF SumTo, TermsOfRow, DirectColumns
    <2>5. TermsOfRow(r) \in SUBSET NonZero(directModel, Basis[r], DirectColumns)
      BY DEF TermsOfRow
    <2>6. IsSum(SumTo(r, AddedTo(r)))
      BY <1>1, <2>3, <2>5, RowTerms, OverType DEF SumTo
    <2>. QED BY <2>4, <2>6
  <1>5. ASSUME NEW r \in DOMAIN Basis
        PROVE  MonomialTerms(directModel, Basis[r], directWeights) = mono(r)
    <2>1. directWeights = [c \in 1..(Rows(directSrc) + directModel.l) |-> directWeights[c]]
      BY <1>1 DEF CallInv
    <2>2. Len(directWeights) = Rows(directSrc) + directModel.l
      BY <1>1, <1>2, <2>1, AsSequence
    <2>3. Len(directWeights) - directModel.l = Rows(directSrc)
      BY <1>1, <1>2, <2>2
    <2>. QED BY <2>3 DEF MonomialTerms, l_weight
  <1>6. product = [r \in DOMAIN Basis |-> SumTo(r, AddedTo(r)) (+) mono(r)]
    <2>. HIDE DEF mono
    <2>. QED BY <1>4, <1>5 DEF Product, Basis
  <1>7. CASE ~SquarePairs
    <2>1. DirectRows = DOMAIN Basis
      BY <1>2, <1>7 DEF DirectRows
    <2>2. \A r \in DOMAIN Basis : directY[r] = SumTo(r, AddedTo(r))
      BY <1>3, <1>4, <1>7, <2>1, PlusNothing DEF StartOf
    <2>. HIDE DEF mono, last, product
    <2>3. directY' = [r \in DOMAIN Basis |-> SumTo(r, AddedTo(r)) (+) mono(r)]
      BY <1>1, <1>3, <2>1, <2>2
    <2>. QED BY <1>6, <1>7, <2>3 DEF product
  <1>8. CASE SquarePairs
    <2>. DEFINE n == Rows(directSrc)
                l == directModel.l
                nugget(r) == SetToBag({<<Nugget, directWeights[r]>>})
                upper == [r \in 1..n |-> IF r <= Mu THEN product[r] (+) nugget(r) ELSE product[r]]
                lower == [k \in 1..l |->
                  SetToBag({<<Monomial(k, Basis[c]), directWeights[c]>> : c \in DOMAIN Basis})]
    <2>1. directTrg = directSrc /\ Basis = Functionals(directSrc.points, directSrc.grads)
            /\ DOMAIN Basis = 1..n
          /\ DirectRows = 1..(n + l) /\ n \in Nat /\ l \in Nat
      BY <1>1, <1>2, <1>8 DEF CallInv, Basis, DirectRows
    <2>2. SquareProduct(directModel, directSrc.points, directSrc.grads, directWeights)
            = upper \o lower
      <3>1. DOMAIN product = 1..n
        BY <1>6, <2>1
      <3>. QED BY <2>1, <3>1 DEF SquareProduct, Mu
    <2>3. upper \o lower = [r \in 1..(n + l) |-> IF r <= n THEN upper[r] ELSE lower[r - n]]
      <3>1. upper = [r \in 1..n |-> upper[r]] /\ lower = [k \in 1..l |-> lower[k]]
        OBVIOUS
      <3>. HIDE DEF upper, lower, n, l
      <3>. QED BY <2>1, <3>1, Concatenated
    <2>4. ASSUME NEW r \in 1..(n + l), r <= n PROVE directY'[r] = upper[r]
      <3>1. r \in 1..n /\ r \in DOMAIN Basis /\ r \in DirectRows
        BY <2>1, <2>4
      <3>2. directY[r] = StartOf(r) (+) SumTo(r, AddedTo(r))
        BY <1>3, <3>1
      <3>3. directY'[r] = (StartOf(r) (+) SumTo(r, AddedTo(r))) (+) mono(r)
        <4>. HIDE DEF mono, last
        <4>. QED BY <1>1, <1>3, <3>1, <3>2
      <3>4. IsSum(SumTo(r, AddedTo(r))) /\ IsSum(mono(r)) /\ IsSum(nugget(r)) /\ IsSum(StartOf(r))
        BY <1>4, <3>1, SetBag, StartType
      <3>5. product[r] = SumTo(r, AddedTo(r)) (+) mono(r)
        <4>. HIDE DEF mono, product
        <4>. QED BY <1>6, <3>1
      <3>. HIDE DEF mono, product, last
      <3>6. CASE r <= Mu
        <4>1. StartOf(r) = nugget(r) /\ upper[r] = product[r] (+) nugget(r)
          BY <1>8, <3>1, <3>6 DEF StartOf
        <4>. HIDE DEF nugget
        <4>2. (nugget(r) (+) SumTo(r, AddedTo(r))) (+) mono(r)
                = nugget(r) (+) (SumTo(r, AddedTo(r)) (+) mono(r))
          BY <3>4, PlusAssociates
        <4>3. IsSum(product[r])
          BY <3>4, <3>5, PlusSum
        <4>4. nugget(r) (+) product[r] = product[r] (+) nugget(r)
          BY <3>4, <4>3, PlusCommutes
        <4>. QED BY <3>3, <3>5, <4>1, <4>2, <4>4
      <3>7. CASE ~(r <= Mu)
        <4>1. StartOf(r) = EmptyBag /\ upper[r] = product[r]
          BY <3>1, <3>7 DEF StartOf
        <4>2. EmptyBag (+) SumTo(r, AddedTo(r)) = SumTo(r, AddedTo(r))
          BY <3>4, PlusNothing
        <4>. QED BY <3>3, <3>5, <4>1, <4>2
      <3>. QED BY <3>6, <3>7
    <2>5. ASSUME NEW r \in 1..(n + l), ~(r <= n) PROVE directY'[r] = lower[r - n]
      <3>1. r - n \in 1..l /\ r \notin DOMAIN Basis /\ r \in DirectRows /\ ~(r <= Mu)
        <4>1. Mu <= n
          <5>1. \A x \in Nat : kDim * x \in Nat
            BY DimAssumption
          <5>2. PICK e \in Nat : n = Mu + e
            BY <1>2, <5>1, ListTypes DEF Rows, Mu, CallInv
          <5>. QED BY <1>2, <5>2
        <4>. QED BY <1>2, <2>1, <2>5, <4>1
      <3>2. directY[r] = EmptyBag
        <4>1. IsSum(EmptyBag)
          BY SetBag DEF EmptyBag
        <4>2. directY[r] = EmptyBag (+) EmptyBag
          BY <1>3, <3>1 DEF StartOf
        <4>. QED BY <4>1, <4>2, PlusNothing
      <3>3. directY'[r] = EmptyBag (+) last(r)
        <4>. HIDE DEF mono, last
        <4>. QED BY <1>1, <1>3, <3>1, <3>2
      <3>4. EmptyBag (+) last(r) = last(r)
        BY SetBag, PlusNothing
      <3>5. last(r) = lower[r - n]
        BY <3>1
      <3>. QED BY <3>3, <3>4, <3>5
    <2>6. directY' = [r \in 1..(n + l) |-> directY'[r]]
      <3>. HIDE DEF mono, last
      <3>. QED BY <1>1, <1>3, <2>1
    <2>. HIDE DEF upper, lower
    <2>7. directY' = upper \o lower
      <3>. HIDE DEF n, l
      <3>. QED BY <2>3, <2>4, <2>5, <2>6
    <2>. QED BY <1>8, <2>2, <2>7
  <1>. QED BY <1>7, <1>8

\* The invariant: who has which rows, what was called with what, and what was added so far.
PairInv == DirectInv /\ CallInv /\ SumsSoFar /\ PairProductsComplete

\* PairInv holds at first.
LEMMA PairInvInit == DirectInit => PairInv
  <1>. SUFFICES ASSUME DirectInit PROVE PairInv
    OBVIOUS
  <1>1. turn = 0 /\ directY = Unset
    BY DEF DirectInit
  <1>2. ~(turn > 0)
    BY <1>1
  <1>. QED BY <1>1, <1>2, InvInit, CallInvInit DEF PairInv, SumsSoFar, PairProductsComplete

\* PairInv is inductive.
LEMMA PairInvKept == PairInv /\ [DirectNext]_directVars => PairInv'
  <1>. SUFFICES ASSUME PairInv, [DirectNext]_directVars PROVE SumsSoFar' /\ PairProductsComplete'
    BY InvKept, CallInvKept DEF PairInv
  <1>1. DirectInv /\ CallInv /\ SumsSoFar /\ PairProductsComplete
    BY DEF PairInv
  <1>2. turn \in Nat
    BY <1>1, ModelsAssumption DEF CallInv, DirectInv, DirectTypeOK
  <1>3. CASE SetDirectSources \/ SetDirectTargets \/ SetDirectPoints \/ SetDirectWeights
    <2>1. turn' = 0 /\ directY' = Unset
      BY <1>3 DEF SetDirectSources, SetDirectTargets, SetDirectPoints, SetDirectWeights
    <2>2. ~(turn' > 0)
      BY <2>1
    <2>. QED BY <2>1, <2>2 DEF SumsSoFar, PairProductsComplete
  <1>4. CASE EvaluatePairs \/ ApplyPairs
    <2>1. turn' # 0
      BY <1>4 DEF EvaluatePairs, ApplyPairs
    <2>. QED BY <1>1, <1>4, <2>1, StartSums DEF PairProductsComplete
  <1>5. CASE NextRbf
    <2>1. turn' # 0
      <3>1. turn' = turn + 1
        BY <1>5 DEF NextRbf
      <3>. QED BY <1>2, <3>1
    <2>. QED BY <1>1, <1>5, <2>1, NextRbfSums DEF PairProductsComplete
  <1>6. CASE FinishPairs
    <2>1. turn' = 0 /\ UNCHANGED <<directKind, directModel, directSrc, directTrg, directWeights>>
      BY <1>6 DEF FinishPairs
    <2>2. ~(turn' > 0)
      BY <2>1
    <2>3. SquarePairs' = SquarePairs
      BY <2>1 DEF SquarePairs
    <2>4. directY' =
            IF SquarePairs
            THEN SquareProduct(directModel, directSrc.points, directSrc.grads, directWeights)
            ELSE Product(directModel, directSrc.points, directSrc.grads, directTrg.points,
                         directTrg.grads, directWeights)
      BY <1>1, <1>6, FinishRight
    <2>. QED BY <2>1, <2>2, <2>3, <2>4 DEF SumsSoFar, PairProductsComplete
  <1>7. ASSUME NEW t \in Thread, Work(t) \/ Enter(t) PROVE SumsSoFar' /\ PairProductsComplete'
    <2>1. /\ UNCHANGED <<directKind, directModel, directSrc, directTrg, directWeights, turn, directY>>
          /\ threadPc[t] # "done" /\ \A u \in Thread : threadPc[u] = "done" <=> threadPc'[u] = "done"
      BY <1>1, <1>7 DEF Work, Enter, DirectInv
    <2>2. SumsSoFar'
      BY <1>1, <2>1, SumsSame
    <2>3. turn' # 0
      BY <1>1, <2>1 DEF DirectInv
    <2>. QED BY <2>2, <2>3 DEF PairProductsComplete
  <1>8. ASSUME NEW t \in Thread, Leave(t) PROVE SumsSoFar' /\ PairProductsComplete'
    <2>1. turn' # 0
      BY <1>1, <1>8 DEF Leave, DirectInv
    <2>. QED BY <1>1, <1>8, <2>1, LeaveSums DEF PairProductsComplete
  <1>9. CASE UNCHANGED directVars
    <2>1. UNCHANGED <<directKind, directModel, directSrc, directTrg, directWeights, turn, directY,
                      threadPc>>
      BY <1>9 DEF directVars
    <2>2. SumsSoFar'
      BY <1>1, <2>1, SumsSame
    <2>3. SquarePairs' = SquarePairs
      BY <2>1 DEF SquarePairs
    <2>4. PairProductsComplete'
      BY <1>1, <2>1, <2>3 DEF PairProductsComplete
    <2>. QED BY <2>2, <2>4
  <1>. QED BY <1>3, <1>4, <1>5, <1>6, <1>7, <1>8, <1>9 DEF DirectNext

\* Whatever the threads do in whatever order, a result of DirectEvaluator or DirectOperator has
\* each term of the product with the latest points and weights once, and none more.
THEOREM PairsAlways == DirectSpec => []PairProductsComplete
  <1>1. PairInv => PairProductsComplete
    BY DEF PairInv
  <1>. QED BY <1>1, PairInvInit, PairInvKept, PTL DEF DirectSpec
=============================================================================
