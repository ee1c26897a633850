------------------------- MODULE InterpolantProofs -------------------------
(***************************************************************************)
(* Proofs about Interpolant and about the Solver that its fits call, for   *)
(* any points, models and dimensions.  A weight tells the component it was *)
(* computed for, so the argument about initial weights is one about        *)
(* positions: a component of the new centers is looked up at the position  *)
(* that the same component had among the weights of the initial            *)
(* interpolant.                                                            *)
(***************************************************************************)
EXTENDS Interpolant, Solver, IncrementalFitter, WellFoundedInduction, FiniteSetTheorems, TLAPS

Objects ==
  [model : ModelSet, fitted : BOOLEAN, centers : Seq(Locations), grad_centers : Seq(Locations),
   bbox : SUBSET Locations, weights : Seq(AnyWeight), evaluator : Evaluators \cup {None}]

\* The weights of an interpolant: those of its centers, zeros where the fitter had too
\* few of them, as many as the polynomial has terms after a fit with bounds, and none
\* before a fit.
GoodWeights(f) ==
  /\ f.fitted => \/ f.weights \in {Fitted(f.model, f.centers, f.grad_centers),
                                   ZeroWeights(f.centers, f.grad_centers)}
                 \/ FewCenters(f) /\ f.weights = FewWeights
  /\ ~f.fitted => f.weights = <<>>

InterpInv ==
  /\ inter \in Objects /\ GoodWeights(inter)
  /\ file = None \/ (file \in Objects /\ GoodWeights(file) /\ file.evaluator = None)
  /\ interPc \in {"idle", "solving", "evaluating"}
  /\ interPc = "solving" => job.points \in Seq(Locations) /\ job.grads \in Seq(Locations)
  /\ InterpolantCurrent

-----------------------------------------------------------------------------
\* A set of natural numbers that is not empty has a least one.
LEMMA LeastNumber ==
  ASSUME NEW S \in SUBSET Nat, S # {}
  PROVE  \E i \in S : \A j \in S : i <= j
  <1> DEFINE Less == {p \in Nat \X Nat : p[1] < p[2]}
  <1>1. IsWellFoundedOn(Less, Nat)
    BY NatLessThanWellFounded DEF OpToRel, Less
  <1> HIDE DEF Less
  <1>2. PICK i \in S : \A j \in S : ~(<<j, i>> \in Less)
    BY <1>1, WFMin
  <1>3. \A j \in S : ~(j < i)
    BY <1>2 DEF Less
  <1>. QED BY <1>3

\* Of the equal points of a list there is a first one.
LEMMA FirstIndex ==
  ASSUME NEW S, NEW s \in Seq(S), NEW p \in Range(s)
  PROVE  IndexIn(s, p) \in 1..Len(s) /\ s[IndexIn(s, p)] = p
  <1> DEFINE I == {i \in 1..Len(s) : s[i] = p}
  <1>1. Len(s) \in Nat /\ DOMAIN s = 1..Len(s)
    OBVIOUS
  <1>2. I # {} /\ I \in SUBSET Nat
    BY <1>1 DEF Range
  <1>3. PICK i \in I : \A j \in I : i <= j
    BY <1>2, LeastNumber
  <1>4. i \in 1..Len(s) /\ s[i] = p /\ \A j \in 1..(i - 1) : s[j] # p
    BY <1>1, <1>3
  <1>. QED BY <1>4 DEF IndexIn

\* The number of weights.
LEMMA CountType ==
  ASSUME NEW c \in Seq(Locations), NEW g \in Seq(Locations)
  PROVE  /\ Len(c) \in Nat /\ Len(g) \in Nat /\ BasisSize \in Nat /\ GradDim \in 1..3
         /\ GradDim * Len(g) \in Nat
         /\ WeightCount(c, g) = Len(c) + GradDim * Len(g) + BasisSize
         /\ WeightCount(c, g) \in Nat /\ WeightCount(c, g) >= BasisSize
  <1>1. Len(c) \in Nat /\ Len(g) \in Nat
    OBVIOUS
  <1>2. GradDim * Len(g) \in Nat
    BY <1>1, NumbersAssumption
  <1>. QED BY <1>1, <1>2, NumbersAssumption DEF WeightCount

\* A position behind those of mu points and before the end of s gradients.
LEMMA GradientAt ==
  ASSUME NEW mu \in Nat, NEW s \in Nat, NEW k \in Nat, k > mu, k <= mu + GradDim * s
  PROVE  (k - mu - 1) \div GradDim + 1 \in 1..s /\ (k - mu - 1) % GradDim \in 0..(GradDim - 1)
  <1>1. GradDim = 1 \/ GradDim = 2 \/ GradDim = 3
    BY NumbersAssumption
  <1>2. CASE GradDim = 1
    BY <1>2
  <1>3. CASE GradDim = 2
    BY <1>3
  <1>4. CASE GradDim = 3
    BY <1>4
  <1>. QED BY <1>1, <1>2, <1>3, <1>4

\* The position of component j of gradient i.
LEMMA PositionOf ==
  ASSUME NEW mu \in Nat, NEW s \in Nat, NEW i \in 1..s, NEW j \in 0..(GradDim - 1)
  PROVE  LET k == mu + GradDim * (i - 1) + j + 1
         IN  /\ k \in Nat /\ k > mu /\ k <= mu + GradDim * s
             /\ (k - mu - 1) \div GradDim + 1 = i /\ (k - mu - 1) % GradDim = j
  <1>1. GradDim = 1 \/ GradDim = 2 \/ GradDim = 3
    BY NumbersAssumption
  <1>2. CASE GradDim = 1
    BY <1>2
  <1>3. CASE GradDim = 2
    BY <1>3
  <1>4. CASE GradDim = 3
    BY <1>4
  <1>. QED BY <1>1, <1>2, <1>3, <1>4

\* The kinds of components.
LEMMA OwnKinds ==
  ASSUME NEW model, NEW c \in Seq(Locations), NEW g \in Seq(Locations),
         NEW k \in 1..WeightCount(c, g)
  PROVE  /\ k <= Len(c) => Own(model, c, g, k) = <<"value", c[k], 0, model>>
         /\ k > Len(c) /\ k <= Len(c) + GradDim * Len(g) =>
              Own(model, c, g, k) = <<"grad", g[(k - Len(c) - 1) \div GradDim + 1],
                                      (k - Len(c) - 1) % GradDim, model>>
         /\ k > Len(c) + GradDim * Len(g) =>
              Own(model, c, g, k) = <<"poly", k - Len(c) - GradDim * Len(g), 0, model>>
  <1>1. k \in Nat /\ Len(c) \in Nat /\ GradDim * Len(g) \in Nat
    BY CountType
  <1>. QED BY <1>1 DEF Own

\* A component is a weight of its model and not zero.
LEMMA OwnIsWeight ==
  ASSUME NEW model \in ModelSet, NEW c \in Seq(Locations), NEW g \in Seq(Locations),
         NEW k \in 1..WeightCount(c, g)
  PROVE  /\ Own(model, c, g, k) \in AnyWeight /\ Own(model, c, g, k) # Zero
         /\ Own(model, c, g, k)[4] = model
  <1>1. /\ Len(c) \in Nat /\ Len(g) \in Nat /\ GradDim * Len(g) \in Nat /\ k \in Nat /\ k >= 1
        /\ WeightCount(c, g) = Len(c) + GradDim * Len(g) + BasisSize
        /\ BasisSize \in Nat /\ GradDim \in 1..3
    BY CountType
  <1>2. CASE k <= Len(c)
    <2>1. Own(model, c, g, k) = <<"value", c[k], 0, model>>
      BY <1>2, OwnKinds
    <2>2. c[k] \in Int
      <3>1. k \in 1..Len(c)
        BY <1>1, <1>2
      <3>2. c[k] \in Locations
        BY <3>1
      <3>. QED BY <3>2, LocationsAssumption
    <2>. QED BY <2>1, <2>2 DEF AnyWeight, Zero
  <1>3. CASE k > Len(c) /\ k <= Len(c) + GradDim * Len(g)
    <2> DEFINE i == (k - Len(c) - 1) \div GradDim + 1
               j == (k - Len(c) - 1) % GradDim
    <2>1. Own(model, c, g, k) = <<"grad", g[i], j, model>>
      BY <1>3, OwnKinds
    <2>2. i \in 1..Len(g) /\ j \in 0..(GradDim - 1)
      BY <1>1, <1>3, GradientAt
    <2> HIDE DEF i, j
    <2>3. g[i] \in Locations
      BY <2>2
    <2>4. g[i] \in Int
      BY <2>3, LocationsAssumption
    <2>5. j \in Int
      BY <1>1, <2>2
    <2>. QED BY <2>1, <2>4, <2>5 DEF AnyWeight, Zero
  <1>4. CASE k > Len(c) + GradDim * Len(g)
    <2>1. Own(model, c, g, k) = <<"poly", k - Len(c) - GradDim * Len(g), 0, model>>
      BY <1>4, OwnKinds
    <2>2. k - Len(c) - GradDim * Len(g) \in Int
      BY <1>1
    <2>. QED BY <2>1, <2>2 DEF AnyWeight, Zero
  <1>. QED BY <1>1, <1>2, <1>3, <1>4

\* The weights of centers, as a list.
LEMMA FittedList ==
  ASSUME NEW model \in ModelSet, NEW c \in Seq(Locations), NEW g \in Seq(Locations)
  PROVE  /\ Fitted(model, c, g) \in Seq(AnyWeight)
         /\ Len(Fitted(model, c, g)) = WeightCount(c, g)
         /\ Range(Fitted(model, c, g)) = {Own(model, c, g, k) : k \in 1..WeightCount(c, g)}
         /\ \A k \in 1..WeightCount(c, g) : Fitted(model, c, g)[k] = Own(model, c, g, k)
  <1> DEFINE n == WeightCount(c, g)
  <1>1. n \in Nat
    BY CountType
  <1>2. \A k \in 1..n : Own(model, c, g, k) \in AnyWeight
    BY OwnIsWeight
  <1>3. Fitted(model, c, g) = [k \in 1..n |-> Own(model, c, g, k)]
    BY DEF Fitted
  <1> HIDE DEF n
  <1>4. [k \in 1..n |-> Own(model, c, g, k)] \in Seq(AnyWeight)
    BY <1>1, <1>2
  <1>5. Len([k \in 1..n |-> Own(model, c, g, k)]) = n
    BY <1>1
  <1>6. Range([k \in 1..n |-> Own(model, c, g, k)]) = {Own(model, c, g, k) : k \in 1..n}
    BY DEF Range
  <1>. QED BY <1>3, <1>4, <1>5, <1>6 DEF n

\* The zeros that a fit with bounds returns for too few centers.
LEMMA FewList ==
  /\ FewWeights \in Seq(AnyWeight) /\ Len(FewWeights) = BasisSize
  /\ Range(FewWeights) \subseteq {Zero}
  /\ \A k \in 1..BasisSize : FewWeights[k] = Zero
  <1>1. BasisSize \in Nat
    BY NumbersAssumption
  <1>2. Zero \in AnyWeight
    BY DEF Zero, AnyWeight
  <1>3. FewWeights = [k \in 1..BasisSize |-> Zero]
    BY DEF FewWeights
  <1>. QED BY <1>1, <1>2, <1>3 DEF Range

\* Zeros in the place of the weights of centers, as a list.
LEMMA ZeroList ==
  ASSUME NEW c \in Seq(Locations), NEW g \in Seq(Locations)
  PROVE  /\ ZeroWeights(c, g) \in Seq(AnyWeight)
         /\ Len(ZeroWeights(c, g)) = WeightCount(c, g)
         /\ Range(ZeroWeights(c, g)) \subseteq {Zero}
         /\ \A k \in 1..WeightCount(c, g) : ZeroWeights(c, g)[k] = Zero
  <1> DEFINE n == WeightCount(c, g)
  <1>1. n \in Nat
    BY CountType
  <1>2. Zero \in AnyWeight
    BY DEF Zero, AnyWeight
  <1>3. ZeroWeights(c, g) = [k \in 1..n |-> Zero]
    BY DEF ZeroWeights
  <1> HIDE DEF n
  <1>4. [k \in 1..n |-> Zero] \in Seq(AnyWeight)
    BY <1>1, <1>2
  <1>5. Len([k \in 1..n |-> Zero]) = n
    BY <1>1
  <1>6. Range([k \in 1..n |-> Zero]) \subseteq {Zero}
    BY DEF Range
  <1>. QED BY <1>3, <1>4, <1>5, <1>6 DEF n

\* Where a component stands among the weights of centers c and g: a value at the first
\* point that is equal, a gradient likewise behind the values, the polynomial at the end.
\* A component that stands nowhere is of a place that is none of the centers.
LEMMA ComponentFound ==
  ASSUME NEW model \in ModelSet, NEW c \in Seq(Locations), NEW g \in Seq(Locations)
  PROVE  LET w == Fitted(model, c, g) IN
         /\ \A p : IF p \in Range(c) THEN w[IndexIn(c, p)] = <<"value", p, 0, model>>
                   ELSE <<"value", p, 0, model>> \notin Range(w)
         /\ \A p : \A j \in 0..(GradDim - 1) :
              IF p \in Range(g)
                THEN w[Len(c) + GradDim * (IndexIn(g, p) - 1) + j + 1] = <<"grad", p, j, model>>
                ELSE <<"grad", p, j, model>> \notin Range(w)
         /\ \A j \in 1..BasisSize : w[Len(w) - BasisSize + j] = <<"poly", j, 0, model>>
  <1> DEFINE w == Fitted(model, c, g)
             n == WeightCount(c, g)
  <1>1. /\ Len(c) \in Nat /\ Len(g) \in Nat /\ GradDim * Len(g) \in Nat /\ n \in Nat
        /\ n = Len(c) + GradDim * Len(g) + BasisSize /\ BasisSize \in Nat /\ GradDim \in 1..3
    BY CountType
  <1>2. /\ Len(w) = n /\ Range(w) = {Own(model, c, g, k) : k \in 1..n}
        /\ \A k \in 1..n : w[k] = Own(model, c, g, k)
    BY FittedList
  <1>3. \A k \in 1..n : k \in Nat /\ k >= 1
    BY <1>1
  <1>4. ASSUME NEW k \in 1..n
        PROVE  /\ k <= Len(c) => Own(model, c, g, k) = <<"value", c[k], 0, model>>
               /\ k > Len(c) /\ k <= Len(c) + GradDim * Len(g) =>
                    Own(model, c, g, k) = <<"grad", g[(k - Len(c) - 1) \div GradDim + 1],
                                            (k - Len(c) - 1) % GradDim, model>>
               /\ k > Len(c) + GradDim * Len(g) =>
                    Own(model, c, g, k) = <<"poly", k - Len(c) - GradDim * Len(g), 0, model>>
    BY OwnKinds
  <1>5. ASSUME NEW k \in 1..n
        PROVE  \/ k <= Len(c)
               \/ k > Len(c) /\ k <= Len(c) + GradDim * Len(g)
               \/ k > Len(c) + GradDim * Len(g)
    BY <1>1, <1>3
  <1> HIDE DEF w, n
  <1>6. ASSUME NEW p, p \in Range(c)
        PROVE  w[IndexIn(c, p)] = <<"value", p, 0, model>>
    <2>1. IndexIn(c, p) \in 1..Len(c) /\ c[IndexIn(c, p)] = p
      BY <1>6, FirstIndex
    <2>2. IndexIn(c, p) \in 1..n /\ IndexIn(c, p) <= Len(c)
      BY <1>1, <2>1
    <2>. QED BY <1>2, <1>4, <2>1, <2>2
  <1>7. ASSUME NEW p, p \notin Range(c)
        PROVE  <<"value", p, 0, model>> \notin Range(w)
    <2> SUFFICES ASSUME NEW k \in 1..n, Own(model, c, g, k) = <<"value", p, 0, model>>
                 PROVE  FALSE
      BY <1>2
    <2>1. CASE k <= Len(c)
      <3>1. c[k] = p
        BY <1>4, <2>1
      <3>2. k \in DOMAIN c
        BY <1>1, <1>3, <2>1
      <3>. QED BY <1>7, <3>1, <3>2 DEF Range
    <2>2. CASE k > Len(c) /\ k <= Len(c) + GradDim * Len(g)
      BY <1>4, <2>2
    <2>3. CASE k > Len(c) + GradDim * Len(g)
      BY <1>4, <2>3
    <2>. QED BY <1>5, <2>1, <2>2, <2>3
  <1>8. ASSUME NEW p, NEW j \in 0..(GradDim - 1), p \in Range(g)
        PROVE  w[Len(c) + GradDim * (IndexIn(g, p) - 1) + j + 1] = <<"grad", p, j, model>>
    <2> DEFINE i == IndexIn(g, p)
               k == Len(c) + GradDim * (i - 1) + j + 1
    <2>1. i \in 1..Len(g) /\ g[i] = p
      BY <1>8, FirstIndex
    <2> HIDE DEF i
    <2>2. /\ k \in Nat /\ k > Len(c) /\ k <= Len(c) + GradDim * Len(g)
          /\ (k - Len(c) - 1) \div GradDim + 1 = i /\ (k - Len(c) - 1) % GradDim = j
      BY <1>1, <2>1, PositionOf
    <2> HIDE DEF k
    <2>3. k \in 1..n
      BY <1>1, <2>2
    <2>4. w[k] = <<"grad", g[i], j, model>>
      BY <1>2, <1>4, <2>2, <2>3
    <2>. QED BY <2>1, <2>4 DEF k, i
  <1>9. ASSUME NEW p, NEW j \in 0..(GradDim - 1), p \notin Range(g)
        PROVE  <<"grad", p, j, model>> \notin Range(w)
    <2> SUFFICES ASSUME NEW k \in 1..n, Own(model, c, g, k) = <<"grad", p, j, model>>
                 PROVE  FALSE
      BY <1>2
    <2>1. CASE k <= Len(c)
      BY <1>4, <2>1
    <2>2. CASE k > Len(c) /\ k <= Len(c) + GradDim * Len(g)
      <3> DEFINE i == (k - Len(c) - 1) \div GradDim + 1
      <3>1. i \in 1..Len(g)
        BY <1>1, <1>3, <2>2, GradientAt
      <3>2. g[i] = p
        BY <1>4, <2>2
      <3> HIDE DEF i
      <3>3. DOMAIN g = 1..Len(g)
        OBVIOUS
      <3>. QED BY <1>9, <3>1, <3>2, <3>3 DEF Range
    <2>3. CASE k > Len(c) + GradDim * Len(g)
      BY <1>4, <2>3
    <2>. QED BY <1>5, <2>1, <2>2, <2>3
  <1>10. ASSUME NEW j \in 1..BasisSize
         PROVE  w[Len(w) - BasisSize + j] = <<"poly", j, 0, model>>
    <2> DEFINE k == Len(w) - BasisSize + j
    <2>1. k \in 1..n /\ k > Len(c) + GradDim * Len(g) /\ k - Len(c) - GradDim * Len(g) = j
      BY <1>1, <1>2
    <2> HIDE DEF k
    <2>2. w[k] = <<"poly", j, 0, model>>
      BY <1>2, <1>4, <2>1
    <2>. QED BY <2>2 DEF k
  <1>. QED BY <1>6, <1>7, <1>8, <1>9, <1>10 DEF w

\* What the places of the new centers ask for is what the initial weights hold: the weight
\* of the same component, or zero where the initial interpolant has none.
LEMMA InitialPlaced ==
  ASSUME NEW model \in ModelSet, NEW c \in Seq(Locations), NEW g \in Seq(Locations),
         NEW ini \in Objects, GoodWeights(ini), ini.fitted \/ ini.model # model,
         NEW k \in 1..WeightCount(c, g)
  PROVE  LET own == Own(model, c, g, k)
         IN  InitialWeights(model, c, g, ini)[k] = IF own \in Range(ini.weights) THEN own ELSE Zero
  <1> DEFINE own == Own(model, c, g, k)
             w == ini.weights
             first == InitialWeights(model, c, g, ini)
             i == (k - Len(c) - 1) \div GradDim + 1
             j == (k - Len(c) - 1) % GradDim
             l == k - Len(c) - GradDim * Len(g)
             mu == Len(ini.centers)
  <1>1. /\ Len(c) \in Nat /\ Len(g) \in Nat /\ GradDim * Len(g) \in Nat /\ WeightCount(c, g) \in Nat
        /\ WeightCount(c, g) = Len(c) + GradDim * Len(g) + BasisSize
        /\ BasisSize \in Nat /\ GradDim \in 1..3
    BY CountType
  <1>2. k \in Nat /\ k >= 1
    BY <1>1
  <1>3. /\ ini.model \in ModelSet /\ ini.centers \in Seq(Locations)
        /\ ini.grad_centers \in Seq(Locations)
    BY DEF Objects
  <1>4. /\ own \in AnyWeight /\ own # Zero /\ own[4] = model
    BY OwnIsWeight
  <1>5. first[k] =
          IF model # ini.model THEN Zero
          ELSE IF k <= Len(c)
            THEN IF c[k] \in Range(ini.centers) THEN w[IndexIn(ini.centers, c[k])] ELSE Zero
          ELSE IF k <= Len(c) + GradDim * Len(g)
            THEN IF g[i] \in Range(ini.grad_centers)
                   THEN w[mu + GradDim * (IndexIn(ini.grad_centers, g[i]) - 1) + j + 1] ELSE Zero
          ELSE w[Len(w) - BasisSize + l]
    BY DEF InitialWeights
  <1>6. /\ k <= Len(c) => own = <<"value", c[k], 0, model>>
        /\ k > Len(c) /\ k <= Len(c) + GradDim * Len(g) =>
             own = <<"grad", g[i], j, model>>
        /\ k > Len(c) + GradDim * Len(g) => own = <<"poly", l, 0, model>>
    BY OwnKinds
  <1>7. k > Len(c) /\ k <= Len(c) + GradDim * Len(g) => j \in 0..(GradDim - 1)
    BY <1>1, <1>2, GradientAt
  <1>8. k > Len(c) + GradDim * Len(g) => l \in 1..BasisSize
    BY <1>1, <1>2
  <1>9. \A p \in Range(ini.centers) : IndexIn(ini.centers, p) \in 1..mu
    BY <1>3, FirstIndex
  <1>10. \A p \in Range(ini.grad_centers) :
           IndexIn(ini.grad_centers, p) \in 1..Len(ini.grad_centers)
    BY <1>3, FirstIndex
  <1>11. /\ mu \in Nat /\ Len(ini.grad_centers) \in Nat /\ GradDim * Len(ini.grad_centers) \in Nat
         /\ WeightCount(ini.centers, ini.grad_centers)
              = mu + GradDim * Len(ini.grad_centers) + BasisSize
    BY <1>3, CountType
  <1>15. PICK M \in ModelSet, C \in Seq(Locations), G \in Seq(Locations) :
           M = ini.model /\ C = ini.centers /\ G = ini.grad_centers
    BY <1>3
  <1>16. /\ Fitted(M, C, G) \in Seq(AnyWeight)
         /\ Len(Fitted(M, C, G)) = WeightCount(C, G)
         /\ Range(Fitted(M, C, G)) = {Own(M, C, G, q) : q \in 1..WeightCount(C, G)}
         /\ Range(ZeroWeights(C, G)) \subseteq {Zero}
         /\ Len(ZeroWeights(C, G)) = WeightCount(C, G)
         /\ \A q \in 1..WeightCount(C, G) : ZeroWeights(C, G)[q] = Zero
    BY FittedList, ZeroList
  <1> DEFINE n == WeightCount(ini.centers, ini.grad_centers)
  <1>17. n \in Nat /\ n >= BasisSize
    BY <1>3, CountType
  <1> HIDE DEF own, w, first, i, j, l, mu, n
  <1>12. CASE ~ini.fitted
    <2>1. w = <<>> /\ model # ini.model
      BY <1>12 DEF GoodWeights, w
    <2>2. Range(w) = {}
      BY <2>1 DEF Range
    <2>. QED BY <1>5, <2>1, <2>2 DEF own, first, w
  <1>13. CASE ini.fitted /\ w = ZeroWeights(ini.centers, ini.grad_centers)
    <2>1. own \notin Range(w)
      BY <1>4, <1>13, <1>15, <1>16
    <2>2. Len(w) = n /\ \A q \in 1..n : w[q] = Zero
      BY <1>13, <1>15, <1>16 DEF n
    <2>3. \A p \in Range(ini.centers) : w[IndexIn(ini.centers, p)] = Zero
      <3>1. \A q \in 1..mu : q \in 1..n
        BY <1>1, <1>11 DEF n
      <3>. QED BY <1>9, <2>2, <3>1
    <2>4. ASSUME NEW p \in Range(ini.grad_centers), NEW d \in 0..(GradDim - 1)
          PROVE  w[mu + GradDim * (IndexIn(ini.grad_centers, p) - 1) + d + 1] = Zero
      <3> DEFINE r == IndexIn(ini.grad_centers, p)
      <3>1. r \in 1..Len(ini.grad_centers)
        BY <1>10
      <3> HIDE DEF r
      <3>2. /\ mu + GradDim * (r - 1) + d + 1 \in Nat /\ mu + GradDim * (r - 1) + d + 1 > mu
            /\ mu + GradDim * (r - 1) + d + 1 <= mu + GradDim * Len(ini.grad_centers)
        BY <1>11, <3>1, PositionOf
      <3>3. mu + GradDim * (r - 1) + d + 1 \in 1..n
        BY <1>1, <1>11, <3>2 DEF n
      <3>. QED BY <2>2, <3>3 DEF r
    <2>5. k > Len(c) + GradDim * Len(g) => w[Len(w) - BasisSize + l] = Zero
      <3>1. k > Len(c) + GradDim * Len(g) => n - BasisSize + l \in 1..n
        BY <1>1, <1>8, <1>17
      <3>. QED BY <2>2, <3>1
    <2>6. first[k] = Zero
      BY <1>1, <1>2, <1>5, <1>7, <2>3, <2>4, <2>5
    <2>. QED BY <2>1, <2>6 DEF own, first, w
  <1>18. CASE FewCenters(ini) /\ w = FewWeights
    <2>1. own \notin Range(w)
      BY <1>4, <1>18, FewList
    <2>2. mu < BasisSize /\ ini.grad_centers = <<>> /\ Range(ini.grad_centers) = {}
      BY <1>18 DEF FewCenters, mu, Range
    <2>3. \A p \in Range(ini.centers) : w[IndexIn(ini.centers, p)] = Zero
      <3>1. \A q \in 1..mu : q \in 1..BasisSize
        BY <1>1, <1>11, <2>2
      <3>. QED BY <1>9, <1>18, <3>1, FewList
    <2>4. k > Len(c) + GradDim * Len(g) => w[Len(w) - BasisSize + l] = Zero
      <3>1. k > Len(c) + GradDim * Len(g) => Len(w) - BasisSize + l = l /\ l \in 1..BasisSize
        BY <1>1, <1>8, <1>18, FewList
      <3>. QED BY <1>18, <3>1, FewList
    <2>5. first[k] = Zero
      BY <1>1, <1>2, <1>5, <2>2, <2>3, <2>4
    <2>. QED BY <2>1, <2>5 DEF own, first, w
  <1>14. CASE ini.fitted /\ w = Fitted(ini.model, ini.centers, ini.grad_centers)
    <2>1. CASE model # ini.model
      <3>1. Range(w) = {Own(ini.model, ini.centers, ini.grad_centers, q) : q \in 1..n}
        BY <1>14, <1>15, <1>16 DEF n
      <3>2. \A q \in 1..n : Own(ini.model, ini.centers, ini.grad_centers, q)[4] = ini.model
        BY <1>3, OwnIsWeight DEF n
      <3>3. own \notin Range(w)
        BY <1>4, <2>1, <3>1, <3>2
      <3>. QED BY <1>5, <2>1, <3>3 DEF own, first, w
    <2>2. CASE model = ini.model
      <3>1. /\ \A p : IF p \in Range(ini.centers)
                        THEN w[IndexIn(ini.centers, p)] = <<"value", p, 0, model>>
                        ELSE <<"value", p, 0, model>> \notin Range(w)
            /\ \A p : \A d \in 0..(GradDim - 1) :
                 IF p \in Range(ini.grad_centers)
                   THEN w[mu + GradDim * (IndexIn(ini.grad_centers, p) - 1) + d + 1]
                          = <<"grad", p, d, model>>
                   ELSE <<"grad", p, d, model>> \notin Range(w)
            /\ \A d \in 1..BasisSize : w[Len(w) - BasisSize + d] = <<"poly", d, 0, model>>
        <4> DEFINE v == Fitted(M, C, G)
        <4>1. /\ \A p : IF p \in Range(C) THEN v[IndexIn(C, p)] = <<"value", p, 0, M>>
                        ELSE <<"value", p, 0, M>> \notin Range(v)
              /\ \A p : \A d \in 0..(GradDim - 1) :
                   IF p \in Range(G)
                     THEN v[Len(C) + GradDim * (IndexIn(G, p) - 1) + d + 1] = <<"grad", p, d, M>>
                     ELSE <<"grad", p, d, M>> \notin Range(v)
              /\ \A d \in 1..BasisSize : v[Len(v) - BasisSize + d] = <<"poly", d, 0, M>>
          BY ComponentFound
        <4>2. v = w /\ M = model
          BY <1>14, <1>15, <2>2
        <4> HIDE DEF v
        <4>. QED BY <1>15, <4>1, <4>2 DEF mu
      <3>2. Len(w) = n /\ Range(w) = {w[q] : q \in 1..n}
        <4>1. w \in Seq(AnyWeight) /\ Len(w) = n
          BY <1>14, <1>15, <1>16 DEF n
        <4>2. DOMAIN w = 1..Len(w)
          BY <4>1
        <4>. QED BY <4>1, <4>2 DEF Range
      <3>3. CASE k <= Len(c)
        <4>1. CASE c[k] \in Range(ini.centers)
          <5>1. w[IndexIn(ini.centers, c[k])] = own
            BY <1>6, <3>1, <3>3, <4>1
          <5>2. IndexIn(ini.centers, c[k]) \in 1..n
            <6>1. \A q \in 1..mu : q \in 1..n
              BY <1>1, <1>11 DEF n
            <6>. QED BY <1>9, <4>1, <6>1
          <5>3. own \in Range(w)
            BY <3>2, <5>1, <5>2
          <5>. QED BY <1>5, <2>2, <3>3, <4>1, <5>1, <5>3 DEF own, first, w
        <4>2. CASE c[k] \notin Range(ini.centers)
          <5>1. own \notin Range(w)
            BY <1>6, <3>1, <3>3, <4>2
          <5>. QED BY <1>5, <2>2, <3>3, <4>2, <5>1 DEF own, first, w
        <4>. QED BY <4>1, <4>2
      <3>4. CASE k > Len(c) /\ k <= Len(c) + GradDim * Len(g)
        <4>1. ~(k <= Len(c))
          BY <1>1, <1>2, <3>4
        <4>2. CASE g[i] \in Range(ini.grad_centers)
          <5> DEFINE r == IndexIn(ini.grad_centers, g[i])
                     q == mu + GradDim * (r - 1) + j + 1
          <5>1. w[q] = own
            BY <1>6, <1>7, <3>1, <3>4, <4>2
          <5>2. r \in 1..Len(ini.grad_centers)
            BY <1>10, <4>2
          <5> HIDE DEF r
          <5>3. q \in Nat /\ q > mu /\ q <= mu + GradDim * Len(ini.grad_centers)
            BY <1>7, <1>11, <3>4, <5>2, PositionOf
          <5> HIDE DEF q
          <5>4. q \in 1..n
            BY <1>1, <1>11, <5>3 DEF n
          <5>5. own \in Range(w)
            BY <3>2, <5>1, <5>4
          <5>6. first[k] = w[q]
            BY <1>5, <2>2, <3>4, <4>1, <4>2 DEF q, r
          <5>. QED BY <5>1, <5>5, <5>6 DEF own, first, w
        <4>3. CASE g[i] \notin Range(ini.grad_centers)
          <5>1. own \notin Range(w)
            BY <1>6, <1>7, <3>1, <3>4, <4>3
          <5>2. first[k] = Zero
            BY <1>5, <2>2, <3>4, <4>1, <4>3
          <5>. QED BY <5>1, <5>2 DEF own, first, w
        <4>. QED BY <4>2, <4>3
      <3>5. CASE k > Len(c) + GradDim * Len(g)
        <4>1. ~(k <= Len(c)) /\ ~(k <= Len(c) + GradDim * Len(g))
          BY <1>1, <1>2, <3>5
        <4>2. w[Len(w) - BasisSize + l] = own
          BY <1>6, <1>8, <3>1, <3>5
        <4>3. n - BasisSize + l \in 1..n
          BY <1>1, <1>8, <1>17, <3>5
        <4>4. own \in Range(w)
          BY <3>2, <4>2, <4>3
        <4>5. first[k] = w[Len(w) - BasisSize + l]
          BY <1>5, <2>2, <4>1
        <4>. QED BY <4>2, <4>4, <4>5 DEF own, first, w
      <3>. QED BY <1>1, <1>2, <3>3, <3>4, <3>5
    <2>. QED BY <2>1, <2>2
  <1>. QED BY <1>12, <1>13, <1>14, <1>18 DEF GoodWeights, w

-----------------------------------------------------------------------------
\* A box has the points it is made from and lies among the locations.
LEMMA HullHolds ==
  ASSUME NEW S \in SUBSET Locations
  PROVE  S \subseteq Hull(S) /\ Hull(S) \in SUBSET Locations
  BY LocationsAssumption DEF Hull

LEMMA BboxInside ==
  ASSUME NEW c \in Seq(Locations), NEW g \in Seq(Locations)
  PROVE  Bbox(c, g) \in SUBSET Locations
  BY DEF Bbox, Hull

\* The fields of an interpolant are an object of the type.
EmptyOf(m, e) == [Unfitted(m) EXCEPT !.evaluator = e]
Full(m, c, g, w, e) == [Fields(m, TRUE, c, g, w) EXCEPT !.evaluator = e]

LEMMA EmptyObject ==
  ASSUME NEW m \in ModelSet, NEW e \in Evaluators \cup {None}
  PROVE  /\ EmptyOf(m, e) \in Objects /\ GoodWeights(EmptyOf(m, e))
         /\ EmptyOf(m, e).model = m /\ EmptyOf(m, e).evaluator = e
  <1>1. <<>> \in Seq(Locations) /\ <<>> \in Seq(AnyWeight)
    OBVIOUS
  <1>2. Bbox(<<>>, <<>>) \in SUBSET Locations
    BY <1>1, BboxInside
  <1>3. EmptyOf(m, e) \in Objects
    BY <1>1, <1>2 DEF EmptyOf, Unfitted, Fields, Objects
  <1>4. /\ EmptyOf(m, e).fitted = FALSE /\ EmptyOf(m, e).weights = <<>>
        /\ EmptyOf(m, e).model = m /\ EmptyOf(m, e).evaluator = e
    BY DEF EmptyOf, Unfitted, Fields
  <1>. QED BY <1>3, <1>4 DEF GoodWeights

LEMMA FullObject ==
  ASSUME NEW m \in ModelSet, NEW c \in Seq(Locations), NEW g \in Seq(Locations),
         NEW w \in Seq(AnyWeight), NEW e \in Evaluators \cup {None}
  PROVE  /\ Full(m, c, g, w, e) \in Objects
         /\ Full(m, c, g, w, e).model = m
         /\ Full(m, c, g, w, e).fitted
         /\ Full(m, c, g, w, e).centers = c
         /\ Full(m, c, g, w, e).grad_centers = g
         /\ Full(m, c, g, w, e).weights = w
         /\ Full(m, c, g, w, e).evaluator = e
  <1>1. Bbox(c, g) \in SUBSET Locations
    BY BboxInside
  <1>2. Full(m, c, g, w, e) \in Objects
    BY <1>1 DEF Full, Fields, Objects
  <1>. QED BY <1>2 DEF Full, Fields

\* An interpolant without a fit.
LEMMA ClearedObject ==
  ASSUME NEW f \in Objects
  PROVE  /\ Cleared(f) \in Objects /\ GoodWeights(Cleared(f)) /\ Cleared(f).model = f.model
         /\ Cleared(f).evaluator = f.evaluator
  <1>1. f.model \in ModelSet /\ f.evaluator \in Evaluators \cup {None}
    BY DEF Objects
  <1>2. Cleared(f) = EmptyOf(f.model, f.evaluator)
    BY DEF Cleared, EmptyOf
  <1>. QED BY <1>1, <1>2, EmptyObject

LEMMA UnfittedObject ==
  ASSUME NEW m \in ModelSet
  PROVE  Unfitted(m) \in Objects /\ GoodWeights(Unfitted(m))
  <1>1. <<>> \in Seq(Locations) /\ <<>> \in Seq(AnyWeight)
    OBVIOUS
  <1>2. Bbox(<<>>, <<>>) \in SUBSET Locations
    BY <1>1, BboxInside
  <1>3. Unfitted(m) \in Objects
    BY <1>1, <1>2 DEF Unfitted, Fields, Objects
  <1>4. Unfitted(m).fitted = FALSE /\ Unfitted(m).weights = <<>>
    BY DEF Unfitted, Fields
  <1>. QED BY <1>3, <1>4 DEF GoodWeights

\* Another evaluator, or none, leaves the rest of an object alone.
LEMMA OtherEvaluator ==
  ASSUME NEW f \in Objects, GoodWeights(f), NEW e \in Evaluators \cup {None}
  PROVE  LET obj == [f EXCEPT !.evaluator = e]
         IN  /\ obj \in Objects /\ GoodWeights(obj) /\ obj.evaluator = e
             /\ obj.model = f.model /\ obj.centers = f.centers /\ obj.bbox = f.bbox
             /\ obj.grad_centers = f.grad_centers /\ obj.weights = f.weights
  BY DEF Objects, GoodWeights, FewCenters

\* What a fitter returns of a list is a list of the same locations.
LEMMA ChosenList ==
  ASSUME NEW s \in Seq(Locations), NEW how, NEW c \in Chosen(s, how)
  PROVE  c \in Seq(Locations)
  <1>1. CASE how = "fit"
    BY <1>1 DEF Chosen
  <1>2. CASE how # "fit"
    <2>0. PICK I \in SUBSET (1..Len(s)) :
            \E idx \in SetToSeqs(I) : c = [i \in 1..Len(idx) |-> s[idx[i]]]
      BY <1>2, Zenon DEF Chosen
    <2>1. PICK idx \in SetToSeqs(I) : c = [i \in 1..Len(idx) |-> s[idx[i]]]
      BY <2>0
    <2>2. Cardinality(I) \in Nat
      <3>1. IsFiniteSet(1..Len(s))
        BY FS_Interval
      <3>. QED BY <3>1, FS_Subset, FS_CardinalityType
    <2>3. idx \in [1..Cardinality(I) -> I]
      BY <2>1 DEF SetToSeqs
    <2>4. Len(idx) = Cardinality(I)
      BY <2>2, <2>3
    <2>5. \A i \in 1..Len(idx) : s[idx[i]] \in Locations
      <3>1. ASSUME NEW i \in 1..Len(idx) PROVE s[idx[i]] \in Locations
        <4>1. idx[i] \in 1..Len(s)
          BY <2>3, <2>4
        <4>. QED BY <4>1
      <3>. QED BY <3>1
    <2>. QED BY <2>1, <2>2, <2>4, <2>5
  <1>. QED BY <1>1, <1>2

LEMMA NewEvaluatorGood ==
  ASSUME inter \in Objects, NEW box \in SUBSET Locations
  PROVE  /\ NewEvaluator(box) \in Evaluators /\ NewEvaluator(box) # None
         /\ box \cup inter.bbox \subseteq NewEvaluator(box).bbox
  <1>1. box \cup inter.bbox \in SUBSET Locations
    BY DEF Objects
  <1>2. /\ box \cup inter.bbox \subseteq Hull(box \cup inter.bbox)
        /\ Hull(box \cup inter.bbox) \in SUBSET Locations
    BY <1>1, HullHolds
  <1>3. NewEvaluator(box) \in Evaluators
    BY <1>2 DEF NewEvaluator, Evaluators, Objects
  <1>4. NewEvaluator(box).bbox = Hull(box \cup inter.bbox)
    BY DEF NewEvaluator
  <1>. QED BY <1>2, <1>3, <1>4, NoneAssumption

LEMMA InterpInvInit == InterpInit => InterpInv
  <1> SUFFICES ASSUME InterpInit PROVE InterpInv
    OBVIOUS
  <1>1. inter \in Objects /\ GoodWeights(inter)
    BY UnfittedObject DEF InterpInit
  <1>. QED BY <1>1 DEF InterpInit, InterpInv, InterpolantCurrent, InitialWeightsPlaced,
                       EvaluationCurrent

\* A fit begins: the initial weights are right for the points given.
LEMMA BeginFitKeeps ==
  ASSUME InterpInv, NEW how, NEW g \in Given, BeginFit(how, g)
  PROVE  InterpInv'
  <1>1. PICK ini \in {None} \cup Initials : job' = Job(how, g, ini)
    BY DEF BeginFit
  <1>2. inter' = Cleared(inter) /\ file' = file /\ interPc' = "solving"
    BY DEF BeginFit
  <1>3. inter \in Objects /\ inter.model \in ModelSet /\ inter.evaluator \in Evaluators \cup {None}
    BY DEF InterpInv, Objects
  <1>4. inter' \in Objects /\ GoodWeights(inter') /\ inter'.model = inter.model
    BY <1>2, <1>3, ClearedObject
  <1>5. g.points \in Seq(Locations) /\ g.grads \in Seq(Locations)
    BY GivenAssumption
  <1>6. /\ job'.points = g.points /\ job'.grads = g.grads
        /\ job'.initial = IF ini = None THEN ZeroWeights(g.points, g.grads)
                          ELSE InitialWeights(inter.model, g.points, g.grads, ini)
        /\ job'.had = IF ini = None THEN {} ELSE Range(ini.weights)
    BY <1>1 DEF Job
  <1> DEFINE n == WeightCount(g.points, g.grads)
             own(k) == Own(inter.model, g.points, g.grads, k)
  <1>7. n \in Nat
    BY <1>5, CountType
  <1>8. CASE ini = None
    <2>1. Len(job'.initial) = n /\ \A k \in 1..n : job'.initial[k] = Zero
      BY <1>5, <1>6, <1>8, ZeroList
    <2>2. \A k \in 1..n : job'.initial[k] = IF own(k) \in job'.had THEN own(k) ELSE Zero
      BY <1>6, <1>8, <2>1
    <2>3. InitialWeightsPlaced'
      BY <1>4, <1>6, <2>1, <2>2 DEF InitialWeightsPlaced
    <2>. QED BY <1>2, <1>4, <1>5, <1>6, <2>3 DEF InterpInv, InterpolantCurrent, EvaluationCurrent,
                                                 GoodWeights
  <1>9. CASE ini # None
    <2>1. ini \in {inter, file} /\ (ini.fitted \/ ini.model # inter.model)
      BY <1>1, <1>9 DEF Initials
    <2>2. ini \in Objects /\ GoodWeights(ini)
      BY <1>9, <2>1 DEF InterpInv
    <2>3. \A k \in 1..n : job'.initial[k] = IF own(k) \in job'.had THEN own(k) ELSE Zero
      BY <1>3, <1>5, <1>6, <1>9, <2>1, <2>2, InitialPlaced
    <2>4. Len(job'.initial) = n
      <3>1. job'.initial \in [1..n -> {job'.initial[k] : k \in 1..n}]
        BY <1>6, <1>9 DEF InitialWeights
      <3>. QED BY <1>7, <3>1
    <2>5. InitialWeightsPlaced'
      BY <1>4, <1>6, <2>3, <2>4 DEF InitialWeightsPlaced
    <2>. QED BY <1>2, <1>4, <1>5, <1>6, <2>5 DEF InterpInv, InterpolantCurrent, EvaluationCurrent,
                                                 GoodWeights
  <1>. QED BY <1>8, <1>9

\* A fit ends with the weights of the centers that the fitter returned.
LEMMA EndFitKeeps == InterpInv /\ EndFit => InterpInv'
  <1> SUFFICES ASSUME InterpInv, EndFit PROVE InterpInv'
    OBVIOUS
  <1>1. interPc = "solving" /\ job.points \in Seq(Locations) /\ job.grads \in Seq(Locations)
    BY DEF EndFit, InterpInv
  <1>2. PICK c \in Chosen(job.points, job.how),
             g \in IF job.how = "inequality" THEN {<<>>} ELSE Chosen(job.grads, job.how) :
          inter' = [Fields(inter.model, TRUE, c, g, Returned(job.how, c, g))
                      EXCEPT !.evaluator = inter.evaluator]
    BY DEF EndFit
  <1>3. c \in Seq(Locations) /\ g \in Seq(Locations)
    <2>1. <<>> \in Seq(Locations)
      OBVIOUS
    <2>2. CASE job.how = "inequality"
      BY <1>1, <1>2, <2>1, <2>2, ChosenList
    <2>3. CASE job.how # "inequality"
      BY <1>1, <1>2, <2>3, ChosenList
    <2>. QED BY <2>2, <2>3
  <1>4. inter.model \in ModelSet /\ inter.evaluator \in Evaluators \cup {None}
    BY DEF InterpInv, Objects
  <1> DEFINE w == Returned(job.how, c, g)
  <1>5. /\ w \in Seq(AnyWeight)
        /\ \/ w \in {Fitted(inter.model, c, g), ZeroWeights(c, g)}
           \/ Len(c) < BasisSize /\ g = <<>> /\ w = FewWeights
    <2>1. Len(c) \in Nat /\ BasisSize \in Nat
      BY <1>3, CountType
    <2>. QED BY <1>3, <1>4, <2>1, FittedList, ZeroList, FewList DEF Returned
  <1>6. inter' = [Fields(inter.model, TRUE, c, g, w) EXCEPT !.evaluator = inter.evaluator]
    BY <1>2
  <1> HIDE DEF w
  <1>7. /\ inter' \in Objects /\ inter'.model = inter.model /\ inter'.fitted
        /\ inter'.centers = c /\ inter'.grad_centers = g /\ inter'.weights = w
    <2>1. inter' = Full(inter.model, c, g, w, inter.evaluator)
      BY <1>6 DEF Full
    <2>. QED BY <1>3, <1>4, <1>5, <2>1, FullObject
  <1>8. GoodWeights(inter')
    BY <1>5, <1>7 DEF GoodWeights, FewCenters
  <1>9. file' = file /\ interPc' = "idle"
    BY DEF EndFit
  <1>. QED BY <1>7, <1>8, <1>9 DEF InterpInv, InterpolantCurrent, InitialWeightsPlaced,
                                   EvaluationCurrent, GoodWeights

\* Points are evaluated with a new evaluator of the present centers and weights.
LEMMA BeginEvaluateKeeps ==
  ASSUME InterpInv, NEW box \in SUBSET Locations, BeginEvaluate(box)
  PROVE  InterpInv'
  <1> DEFINE e == NewEvaluator(box)
  <1>1. /\ inter' = [inter EXCEPT !.evaluator = e] /\ file' = file
        /\ job' = [box |-> box] /\ interPc' = "evaluating"
    BY DEF BeginEvaluate
  <1>2. inter \in Objects /\ GoodWeights(inter)
    BY DEF InterpInv
  <1>3. e \in Evaluators /\ e # None /\ box \cup inter.bbox \subseteq e.bbox
    BY <1>2, NewEvaluatorGood
  <1>4. <<e.centers, e.grad_centers, e.model, e.weights>>
          = <<inter.centers, inter.grad_centers, inter.model, inter.weights>>
    BY DEF NewEvaluator
  <1> HIDE DEF e
  <1>5. /\ inter' \in Objects /\ GoodWeights(inter') /\ inter'.evaluator = e
        /\ inter'.model = inter.model /\ inter'.centers = inter.centers
        /\ inter'.bbox = inter.bbox /\ inter'.grad_centers = inter.grad_centers
        /\ inter'.weights = inter.weights
    BY <1>1, <1>2, <1>3, OtherEvaluator
  <1>6. EvaluationCurrent'
    BY <1>1, <1>3, <1>4, <1>5 DEF EvaluationCurrent
  <1>. QED BY <1>1, <1>5, <1>6 DEF InterpInv, InterpolantCurrent, InitialWeightsPlaced, GoodWeights

LEMMA InterpInvNext == InterpInv /\ [InterpNext]_interVars => InterpInv'
  <1> SUFFICES ASSUME InterpInv, [InterpNext]_interVars PROVE InterpInv'
    OBVIOUS
  <1> USE DEF GoodWeights
  <1>1. ASSUME NEW how \in Hows, NEW g \in Given, BeginFit(how, g) PROVE InterpInv'
    BY <1>1, BeginFitKeeps
  <1>2. CASE EndFit
    BY <1>2, EndFitKeeps
  <1>3. ASSUME inter' = inter, file' = file, interPc' = "idle" PROVE InterpInv'
    BY <1>3 DEF InterpInv, InterpolantCurrent, InitialWeightsPlaced, EvaluationCurrent
  <1>4. CASE FailFit \/ EndEvaluate
    BY <1>3, <1>4 DEF FailFit, EndEvaluate
  <1>5. ASSUME NEW a \in Locations, NEW b \in Locations, BeginEvaluate(a..b) PROVE InterpInv'
    <2>1. a..b \in SUBSET Locations
      BY LocationsAssumption
    <2>. QED BY <1>5, <2>1, BeginEvaluateKeeps
  <1>6. CASE Save
    <2>1. /\ file' = [inter EXCEPT !.evaluator = None] /\ inter' = inter /\ interPc = "idle"
          /\ interPc' = interPc
      BY <1>6 DEF Save
    <2>2. file' \in Objects /\ GoodWeights(file') /\ file'.evaluator = None
      BY <2>1, OtherEvaluator DEF InterpInv
    <2>. QED BY <2>1, <2>2 DEF InterpInv, InterpolantCurrent, InitialWeightsPlaced, EvaluationCurrent
  <1>7. CASE Load
    <2>1. file # None /\ inter' = file /\ file' = file /\ interPc = "idle" /\ interPc' = interPc
      BY <1>7 DEF Load
    <2>. QED BY <2>1 DEF InterpInv, InterpolantCurrent, InitialWeightsPlaced, EvaluationCurrent
  <1>8. ASSUME NEW m \in ModelSet, New(m) PROVE InterpInv'
    <2>1. inter' = Unfitted(m) /\ file' = file /\ interPc = "idle" /\ interPc' = interPc
      BY <1>8 DEF New
    <2>2. inter' \in Objects /\ GoodWeights(inter')
      BY <2>1, UnfittedObject
    <2>. QED BY <2>1, <2>2 DEF InterpInv, InterpolantCurrent, InitialWeightsPlaced, EvaluationCurrent
  <1>9. CASE UNCHANGED interVars
    BY <1>9 DEF interVars, InterpInv, InterpolantCurrent, InitialWeightsPlaced, EvaluationCurrent
  <1>. QED BY <1>1, <1>2, <1>4, <1>5, <1>6, <1>7, <1>8, <1>9 DEF InterpNext

\* Interpolant, for any points, models and dimensions: in whatever order it is fitted, fails,
\* is saved, loaded and evaluated, a fit starts from weights that were computed for the
\* components they stand at and loses none, and points are evaluated with the centers and
\* weights of the last fit.
THEOREM AlwaysCurrent == InterpSpec => []InterpolantCurrent
  <1>1. InterpInv => InterpolantCurrent
    BY DEF InterpInv
  <1>. QED BY <1>1, InterpInvInit, InterpInvNext, PTL DEF InterpSpec

\* The types of an interpolant: as many weights as its centers and polynomial ask for, but
\* only those of the polynomial if a fit with bounds ended with too few centers for it.
THEOREM InterpTypes == InterpSpec => []InterpTypeOK
  <1>1. InterpInv => InterpTypeOK
    <2> SUFFICES ASSUME InterpInv PROVE InterpTypeOK
      OBVIOUS
    <2>1. inter \in Objects /\ GoodWeights(inter)
      BY DEF InterpInv
    <2>2. /\ inter.model \in ModelSet /\ inter.fitted \in BOOLEAN
          /\ inter.centers \in Seq(Locations) /\ inter.grad_centers \in Seq(Locations)
          /\ inter.evaluator \in Evaluators \cup {None}
      BY <2>1 DEF Objects
    <2>3. IF inter.fitted
            THEN \/ Len(inter.weights) = WeightCount(inter.centers, inter.grad_centers)
                 \/ FewCenters(inter) /\ Len(inter.weights) = BasisSize
            ELSE inter.weights = <<>>
      BY <2>1, <2>2, FittedList, ZeroList, FewList DEF GoodWeights
    <2>4. inter.evaluator # None => inter.evaluator.bbox \subseteq Locations
      BY <2>2 DEF Evaluators
    <2>5. file # None => file.evaluator = None
      BY DEF InterpInv
    <2>6. interPc \in {"idle", "solving", "evaluating"}
      BY DEF InterpInv
    <2>. QED BY <2>2, <2>3, <2>4, <2>5, <2>6 DEF InterpTypeOK
  <1>. QED BY <1>1, InterpInvInit, InterpInvNext, PTL DEF InterpSpec

-----------------------------------------------------------------------------
\* The solver.  The rows a solution misses are rows of the present system, and none while
\* no call runs, when the points may change.
SolverInv ==
  /\ missed \subseteq Rows
  /\ solverPc = "idle" => missed = {}
  /\ SolutionTested

LEMMA SolverInvNext == SolverInv /\ [SolverNext]_solverVars => SolverInv'
  <1> SUFFICES ASSUME SolverInv, [SolverNext]_solverVars PROVE SolverInv'
    OBVIOUS
  <1> USE DEF SolverInv, SolutionTested, DirectRowsCurrent, ZeroNeverReturned
  <1>1. CASE SetPoints
    <2>1. missed' = {} /\ solverPc' = "idle"
      BY <1>1 DEF SetPoints
    <2>. QED BY <2>1
  <1>2. ASSUME size' = size PROVE Rows' = Rows /\ \A p \in RowKinds : Few(p)' = Few(p)
    BY <1>2 DEF Rows, Few
  <1>3. CASE Start
    <2>1. size' = size /\ solverPc' = "setup"
      BY <1>3 DEF Start
    <2>2. missed' \subseteq Rows
      BY <1>3 DEF Start
    <2>. QED BY <1>2, <2>1, <2>2
  <1>4. CASE ExactAlready
    <2>1. size' = size /\ solverPc' = "returned" /\ missed' = missed /\ missed = {}
      BY <1>4 DEF ExactAlready
    <2>. QED BY <1>2, <2>1
  <1>5. CASE SetValues
    <2>1. size' = size /\ solverPc' = "direct" /\ missed' = missed
      BY <1>5 DEF SetValues
    <2>2. direct' \subseteq Rows /\ \A p \in RowKinds : Cardinality(Part(direct', p)) = Few(p)
      BY <1>5 DEF SetValues
    <2>3. Rows' = Rows /\ \A p \in RowKinds : Few(p)' = Few(p)
      BY <1>2, <2>1
    <2>. QED BY <2>1, <2>2, <2>3 DEF Part
  <1>6. CASE ConvergedDirect
    <2>1. /\ size' = size /\ x' = x /\ missed' = missed /\ direct' = direct /\ solverPc = "direct"
          /\ solverPc' = IF Exceeding(missed \cap direct) # {} THEN "unconverged"
                         ELSE IF direct = Rows THEN "returned" ELSE "fast"
      BY <1>6 DEF ConvergedDirect
    <2>2. ASSUME solverPc' = "returned", x' = "zero" PROVE missed' = {}
      <3>1. Exceeding(missed \cap direct) = {} /\ direct = Rows
        BY <2>1, <2>2
      <3>. QED BY <2>1, <2>2, <3>1 DEF Exceeding
    <2>. QED BY <1>2, <2>1, <2>2 DEF Part
  <1>7. CASE ConvergedFast
    <2>1. /\ size' = size /\ x' = x /\ missed' = missed /\ direct' = direct /\ solverPc = "fast"
      BY <1>7 DEF ConvergedFast
    <2>2. PICK reported \in IF x = "number" THEN SUBSET Rows ELSE {missed} :
            solverPc' = IF Exceeding(reported) # {} THEN "unconverged" ELSE "returned"
      BY <1>7 DEF ConvergedFast
    <2>3. ASSUME solverPc' = "returned", x' = "zero" PROVE missed' = {}
      BY <2>1, <2>2, <2>3 DEF Exceeding
    <2>. QED BY <1>2, <2>1, <2>2, <2>3 DEF Part
  <1>8. CASE ReachedMaxIter
    <2>1. size' = size /\ solverPc' = "thrown" /\ missed' = missed
      BY <1>8 DEF ReachedMaxIter
    <2>. QED BY <1>2, <2>1
  <1>9. CASE Iterate
    <2>1. /\ size' = size /\ solverPc' = "direct" /\ missed' \subseteq Rows /\ direct' = direct
          /\ solverPc = "unconverged"
      BY <1>9 DEF Iterate
    <2>. QED BY <1>2, <2>1 DEF Part
  <1>10. CASE Return
    <2>1. solverPc' = "idle" /\ missed' = {}
      BY <1>10 DEF Return
    <2>. QED BY <2>1
  <1>11. CASE UNCHANGED solverVars
    <2>1. /\ size' = size /\ solverPc' = solverPc /\ missed' = missed /\ direct' = direct /\ x' = x
      BY <1>11 DEF solverVars
    <2>. QED BY <1>2, <2>1 DEF Part
  <1>. QED BY <1>1, <1>3, <1>4, <1>5, <1>6, <1>7, <1>8, <1>9, <1>10, <1>11 DEF SolverNext

\* Solver, for any numbers of rows and of iterations: however often it was set to other
\* points and values, the rows tested with the direct evaluator are as many rows of the
\* present system as there may be, and weights of zero that miss a value never pass.
THEOREM SolutionsTested == SolverSpec => []SolutionTested
  <1>1. SolverInit => SolverInv
    BY DEF SolverInit, SolverInv, SolutionTested, DirectRowsCurrent, ZeroNeverReturned
  <1>2. SolverInv => SolutionTested
    BY DEF SolverInv
  <1>. QED BY <1>1, <1>2, SolverInvNext, PTL DEF SolverSpec

\* Rows are among all rows, whatever the size.
LEMMA RowsAmongAll == Rows \subseteq AllRows /\ Rows' \subseteq AllRows
  <1>1. AllRows' = AllRows
    BY DEF AllRows
  <1>. QED BY <1>1 DEF Rows

LEMMA SolverTypeNext ==
  SolverTypeOK /\ SolverInv /\ [SolverNext]_solverVars => SolverTypeOK'
  <1> SUFFICES ASSUME SolverTypeOK, SolverInv, [SolverNext]_solverVars PROVE SolverTypeOK'
    OBVIOUS
  <1> USE DEF krylov
  <1>1. missed' \subseteq Rows'
    BY SolverInvNext DEF SolverInv
  <1>2. MaxIter \in Nat /\ iter \in 0..MaxIter /\ zs = iter
        /\ vs = (IF solverPc = "idle" THEN 0 ELSE iter + 1)
    BY IterationsAssumption DEF SolverTypeOK
  <1>3. ASSUME size' = size PROVE Rows' = Rows
    BY <1>3 DEF Rows
  <1>4. CASE SetPoints
    <2>1. /\ size' \in SystemSizes /\ solverPc' = "idle" /\ x' = x /\ iter' = iter /\ vs' = vs /\ zs' = zs
          /\ broken' = broken /\ direct' = direct /\ solverPc = "idle"
      BY <1>4 DEF SetPoints
    <2>. QED BY <1>1, <1>2, <2>1 DEF SolverTypeOK
  <1>5. CASE Start
    <2>1. /\ size' = size /\ value' \in [Rows -> RowValues] /\ x' \in {"zero", "number"}
          /\ iter' = 0 /\ vs' = 1 /\ zs' = 0 /\ broken' \in BOOLEAN /\ solverPc' = "setup" /\ direct' = direct
      BY <1>5 DEF Start
    <2>. QED BY <1>1, <1>2, <1>3, <2>1 DEF SolverTypeOK
  <1>6. ASSUME size' = size, value' = value, x' = x, iter' = iter, vs' = vs, zs' = zs,
               broken' = broken, solverPc # "idle",
               direct' = direct \/ direct' \subseteq Rows,
               solverPc' \in {"setup", "direct", "fast", "unconverged", "returned", "thrown"}
        PROVE  SolverTypeOK'
    <2>1. direct' = NoRows \/ direct' \subseteq AllRows
      BY <1>6, RowsAmongAll DEF SolverTypeOK
    <2>. QED BY <1>1, <1>2, <1>3, <1>6, <2>1 DEF SolverTypeOK
  <1>7. CASE ExactAlready
    BY <1>6, <1>7 DEF ExactAlready
  <1>8. CASE SetValues
    BY <1>6, <1>8 DEF SetValues
  <1>9. CASE ConvergedDirect
    BY <1>6, <1>9 DEF ConvergedDirect
  <1>10. CASE ConvergedFast
    BY <1>6, <1>10 DEF ConvergedFast
  <1>11. CASE ReachedMaxIter
    BY <1>6, <1>11 DEF ReachedMaxIter
  <1>12. CASE Iterate
    <2>1. /\ size' = size /\ value' = value /\ x' \in {"nan", "number"} /\ iter < MaxIter
          /\ iter' = iter + 1 /\ vs' = vs + 1 /\ zs' = zs + 1 /\ broken' \in BOOLEAN
          /\ solverPc = "unconverged" /\ solverPc' = "direct" /\ direct' = direct
      BY <1>12 DEF Iterate
    <2>. QED BY <1>1, <1>2, <1>3, <2>1 DEF SolverTypeOK
  <1>13. CASE Return
    <2>1. /\ size' = size /\ x' = "zero" /\ iter' = 0 /\ vs' = 0 /\ zs' = 0 /\ broken' \in BOOLEAN
          /\ solverPc' = "idle" /\ direct' = direct
      BY <1>13 DEF Return
    <2>. QED BY <1>1, <1>2, <2>1 DEF SolverTypeOK
  <1>14. CASE UNCHANGED solverVars
    <2>1. /\ size' = size /\ value' = value /\ x' = x /\ iter' = iter /\ vs' = vs /\ zs' = zs
          /\ broken' = broken /\ direct' = direct /\ solverPc' = solverPc
      BY <1>14 DEF solverVars
    <2>. QED BY <1>1, <1>2, <1>3, <2>1 DEF SolverTypeOK
  <1>. QED BY <1>4, <1>5, <1>7, <1>8, <1>9, <1>10, <1>11, <1>12, <1>13, <1>14 DEF SolverNext

\* The types of the solver: there are always one more vector in vs_ than in zs_ while a call
\* runs, never more than max_iter_ allows, and the direct rows are rows of some points.
THEOREM SolverTypes == SolverSpec => []SolverTypeOK
  <1>1. SolverInit => SolverInv
    BY DEF SolverInit, SolverInv, SolutionTested, DirectRowsCurrent, ZeroNeverReturned
  <1>2. SolverInit => SolverTypeOK
    <2> SUFFICES ASSUME SolverInit PROVE SolverTypeOK
      OBVIOUS
    <2>1. broken \in BOOLEAN
      BY DEF SolverInit
    <2>2. /\ size \in SystemSizes /\ x = "zero" /\ missed = {} /\ iter = 0 /\ vs = 0 /\ zs = 0
          /\ direct = NoRows /\ solverPc = "idle"
      BY DEF SolverInit
    <2>. QED BY <2>1, <2>2, IterationsAssumption DEF SolverTypeOK
  <1>. QED BY <1>1, <1>2, SolverInvNext, SolverTypeNext, PTL DEF SolverSpec

-----------------------------------------------------------------------------
\* Induction up to a bound.
LEMMA UpTo ==
  ASSUME NEW n \in Nat, NEW P, 0 \in P, \A k \in 1..n : k - 1 \in P => k \in P
  PROVE  \A k \in 0..n : k \in P
  <1>. DEFINE Bad == {k \in 0..n : k \notin P}
  <1>1. SUFFICES ASSUME Bad # {} PROVE FALSE
    OBVIOUS
  <1>2. PICK k \in Bad : \A j \in Bad : k <= j
    <2>1. Bad \in SUBSET Nat
      OBVIOUS
    <2>. HIDE DEF Bad
    <2>. QED BY <1>1, <2>1, LeastNumber
  <1>3. k \in 1..n /\ k - 1 \in 0..n /\ k \notin P /\ k - 1 \notin Bad
    BY <1>2
  <1>. QED BY <1>3

\* The values that a recursion takes, up to n.
Runs(f, n, S, base, step) ==
  f \in [0..n -> S] /\ f[0] = base /\ \A k \in 1..n : f[k] = step[k][f[k - 1]]

\* A function that is defined step by step exists.
LEMMA Recursion ==
  ASSUME NEW n \in Nat, NEW S, NEW base \in S, NEW step \in [1..n -> [S -> S]]
  PROVE  \E f : Runs(f, n, S, base, step)
  <1>. DEFINE P == {j \in 0..n : \E f : Runs(f, j, S, base, step)}
  <1>1. 0 \in P
    <2>1. PICK f : f = [i \in 0..0 |-> base]
      OBVIOUS
    <2>2. f \in [0..0 -> S] /\ f[0] = base /\ 0 \in 0..n
      BY <2>1
    <2>3. \A k \in 1..0 : FALSE
      OBVIOUS
    <2>. QED BY <2>2, <2>3 DEF Runs
  <1>2. ASSUME NEW j \in 1..n, j - 1 \in P PROVE j \in P
    <2>1. PICK f : Runs(f, j - 1, S, base, step)
      BY <1>2
    <2>. DEFINE g == [i \in 0..j |-> IF i < j THEN f[i] ELSE step[j][f[j - 1]]]
    <2>2. j - 1 \in 0..(j - 1) /\ step[j] \in [S -> S] /\ f[j - 1] \in S
      BY <2>1 DEF Runs
    <2>3. step[j][f[j - 1]] \in S
      BY <2>2
    <2>4. g \in [0..j -> S]
      BY <2>1, <2>3 DEF Runs
    <2>5. g[0] = base
      BY <2>1 DEF Runs
    <2>6. ASSUME NEW k \in 1..j PROVE g[k] = step[k][g[k - 1]]
      <3>1. k - 1 \in 0..j /\ k - 1 < j /\ k \in 0..j /\ (k < j => k \in 1..(j - 1)) /\ (~(k < j) => k = j)
        OBVIOUS
      <3>2. g[k - 1] = f[k - 1] /\ g[k] = IF k < j THEN f[k] ELSE step[j][f[j - 1]]
        BY <3>1
      <3>. HIDE DEF g
      <3>. QED BY <2>1, <3>1, <3>2 DEF Runs
    <2>7. Runs(g, j, S, base, step)
      <3>. HIDE DEF g
      <3>. QED BY <2>4, <2>5, <2>6 DEF Runs
    <2>8. j \in 0..n
      OBVIOUS
    <2>. HIDE DEF g
    <2>. QED BY <2>7, <2>8
  <1>3. \A k \in 0..n : k \in P
    <2>. HIDE DEF P
    <2>. QED BY <1>1, <1>2, UpTo
  <1>4. n \in 0..n
    OBVIOUS
  <1>. QED BY <1>3, <1>4

-----------------------------------------------------------------------------
\* What the filter has taken out after each point.
LEMMA TakenOut ==
  ASSUME NEW R, NEW s \in Seq(R), NEW near
  PROVE  \E gone : /\ gone[0] = {}
                   /\ \A k \in 1..Len(s) :
                        gone[k] = IF s[k] \in gone[k - 1] THEN gone[k - 1]
                                  ELSE gone[k - 1] \cup (near[s[k]] \ {s[k]})
                   /\ IndicesToRemove(s, near) = gone[Len(s)]
  <1>. DEFINE n == Len(s)
              T == SUBSET UNION {near[s[k]] : k \in 1..n}
              step == [k \in 1..n |-> [u \in T |-> IF s[k] \in u THEN u ELSE u \cup (near[s[k]] \ {s[k]})]]
              Rec(g) == g = [k \in 0..n |-> IF k = 0 THEN {}
                                            ELSE IF s[k] \in g[k - 1] THEN g[k - 1]
                                            ELSE g[k - 1] \cup (near[s[k]] \ {s[k]})]
  <1>1. n \in Nat /\ {} \in T
    OBVIOUS
  <1>2. step \in [1..n -> [T -> T]]
    <2>1. ASSUME NEW k \in 1..n, NEW u \in T
          PROVE  (IF s[k] \in u THEN u ELSE u \cup (near[s[k]] \ {s[k]})) \in T
      OBVIOUS
    <2>. HIDE DEF T
    <2>. QED BY <2>1
  <1>3. PICK f \in [0..n -> T] : f[0] = {} /\ \A k \in 1..n : f[k] = step[k][f[k - 1]]
    <2>. HIDE DEF step, T, n, Rec
    <2>1. PICK N, U, turn, none : N = n /\ U = T /\ turn = step /\ none = {}
      OBVIOUS
    <2>2. N \in Nat /\ none \in U /\ turn \in [1..N -> [U -> U]]
      BY <1>1, <1>2, <2>1
    <2>3. \E h : Runs(h, N, U, none, turn)
      BY <2>2, Recursion
    <2>. QED BY <2>1, <2>3 DEF Runs
  <1>4. Rec(f)
    <2>1. ASSUME NEW k \in 0..n
          PROVE  f[k] = IF k = 0 THEN {}
                        ELSE IF s[k] \in f[k - 1] THEN f[k - 1]
                        ELSE f[k - 1] \cup (near[s[k]] \ {s[k]})
      <3>1. CASE k = 0
        BY <1>3, <3>1
      <3>2. CASE k # 0
        <4>1. k \in 1..n /\ k - 1 \in 0..n
          BY <1>1, <3>2
        <4>2. f[k - 1] \in T
          BY <1>3, <4>1
        <4>3. f[k] = step[k][f[k - 1]]
          BY <1>3, <4>1
        <4>. HIDE DEF T, n
        <4>4. step[k] = [u \in T |-> IF s[k] \in u THEN u ELSE u \cup (near[s[k]] \ {s[k]})]
          BY <4>1
        <4>. HIDE DEF step
        <4>. QED BY <3>2, <4>2, <4>3, <4>4
      <3>. QED BY <3>1, <3>2
    <2>. HIDE DEF T, step
    <2>. QED BY <1>3, <2>1
  <1>5. PICK g : g = (CHOOSE h : Rec(h))
    OBVIOUS
  <1>6. Rec(g)
    <2>. HIDE DEF Rec
    <2>. QED BY <1>4, <1>5
  <1>7. IndicesToRemove(s, near) = g[n]
    BY <1>5 DEF IndicesToRemove
  <1>8. g[0] = {}
    BY <1>1, <1>6
  <1>9. ASSUME NEW k \in 1..n
        PROVE  g[k] = IF s[k] \in g[k - 1] THEN g[k - 1] ELSE g[k - 1] \cup (near[s[k]] \ {s[k]})
    <2>1. k \in 0..n /\ k # 0
      BY <1>1
    <2>. QED BY <1>6, <2>1
  <1>. QED BY <1>7, <1>8, <1>9


\* A point that no earlier one takes out takes out what is near to it.  Those of the
\* first m, if they are apart, are never taken out by each other.
LEMMA FilteredApart ==
  ASSUME NEW R, NEW s \in Seq(R), NEW near, NEW m \in 0..Len(s),
         \A a, b \in 1..Len(s) : s[a] = s[b] => a = b,
         \A a, b \in 1..m : a # b => s[b] \notin near[s[a]]
  PROVE  \A a, b \in 1..Len(s) :
           a < b /\ s[b] \in Filtered(s, near) /\ (a <= m \/ s[a] \in Filtered(s, near))
             => s[b] \notin near[s[a]]
  <1>. DEFINE n == Len(s)
  <1>1. n \in Nat
    OBVIOUS
  <1>2. PICK gone : /\ gone[0] = {}
                    /\ \A k \in 1..n :
                         gone[k] = IF s[k] \in gone[k - 1] THEN gone[k - 1]
                                   ELSE gone[k - 1] \cup (near[s[k]] \ {s[k]})
                    /\ IndicesToRemove(s, near) = gone[n]
    BY TakenOut
  <1>3. ASSUME NEW k \in 1..n, s[k] \notin Filtered(s, near) PROVE s[k] \in gone[n]
    BY <1>2, <1>3 DEF Filtered, Range
  <1>. HIDE DEF n
  <1>4. ASSUME NEW a \in 0..n, NEW u \in gone[a] PROVE u \in gone[n]
    <2>. DEFINE P == {k \in 0..n : k >= a => u \in gone[k]}
    <2>1. 0 \in P
      BY <1>1, <1>4
    <2>2. ASSUME NEW k \in 1..n, k - 1 \in P PROVE k \in P
      <3>1. CASE k = a
        BY <1>4, <3>1
      <3>2. CASE k < a
        BY <3>2
      <3>3. CASE k > a
        <4>1. u \in gone[k - 1]
          BY <2>2, <3>3
        <4>2. u \in gone[k]
          BY <1>2, <4>1
        <4>. QED BY <4>2
      <3>. QED BY <3>1, <3>2, <3>3
    <2>3. \A k \in 0..n : k \in P
      <3>. HIDE DEF P
      <3>. QED BY <1>1, <2>1, <2>2, UpTo
    <2>4. n \in P /\ n >= a
      BY <1>1, <2>3
    <2>. QED BY <2>4
  <1>5. ASSUME NEW a \in 1..n, a <= m PROVE s[a] \notin gone[a - 1]
    <2>. DEFINE P == {k \in 0..n : k <= m => \A b \in 1..m : s[b] \notin gone[k]}
    <2>1. 0 \in P
      BY <1>1, <1>2
    <2>2. ASSUME NEW k \in 1..n, k - 1 \in P PROVE k \in P
      <3>1. SUFFICES ASSUME k <= m, NEW b \in 1..m PROVE s[b] \notin gone[k]
        OBVIOUS
      <3>2. s[b] \notin gone[k - 1]
        BY <2>2, <3>1
      <3>3. k \in 1..m /\ b \in 1..n
        BY <1>1, <3>1 DEF n
      <3>4. s[b] \notin near[s[k]] \ {s[k]}
        BY <3>3
      <3>5. gone[k] = gone[k - 1] \/ gone[k] = gone[k - 1] \cup (near[s[k]] \ {s[k]})
        BY <1>2
      <3>. QED BY <3>2, <3>4, <3>5
    <2>3. \A k \in 0..n : k \in P
      <3>. HIDE DEF P
      <3>. QED BY <1>1, <2>1, <2>2, UpTo
    <2>4. a - 1 \in P /\ a \in 1..m /\ a - 1 <= m
      BY <1>1, <1>5, <2>3
    <2>. QED BY <2>4
  <1>6. ASSUME NEW a \in 1..n, s[a] \in Filtered(s, near) PROVE s[a] \notin gone[a - 1]
    <2>1. a - 1 \in 0..n
      BY <1>1
    <2>2. s[a] \notin gone[n]
      BY <1>2, <1>6 DEF Filtered
    <2>. QED BY <1>4, <2>1, <2>2
  <1>7. ASSUME NEW a \in 1..n, NEW b \in 1..n, a < b, s[b] \in Filtered(s, near),
               a <= m \/ s[a] \in Filtered(s, near)
        PROVE  s[b] \notin near[s[a]]
    <2>1. s[a] \notin gone[a - 1]
      BY <1>5, <1>6, <1>7
    <2>2. gone[a] = gone[a - 1] \cup (near[s[a]] \ {s[a]})
      BY <1>2, <2>1
    <2>3. s[b] \notin gone[n]
      BY <1>2, <1>7 DEF Filtered
    <2>4. s[b] \notin gone[a]
      BY <1>4, <2>3
    <2>5. s[a] # s[b]
      BY <1>7 DEF n
    <2>. QED BY <2>2, <2>4, <2>5
  <1>. QED BY <1>7 DEF n

\* What is kept of a list are entries of it, each as often as it is there.
LEMMA KeptEntries ==
  ASSUME NEW R, NEW s \in Seq(R), NEW S, \A a, b \in 1..Len(s) : s[a] = s[b] => a = b
  PROVE  /\ Kept(s, S) \in Seq(R)
         /\ \A k \in 1..Len(Kept(s, S)) :
              Kept(s, S)[k] \in S /\ \E a \in 1..Len(s) : Kept(s, S)[k] = s[a]
         /\ \A j, k \in 1..Len(Kept(s, S)) : Kept(s, S)[j] = Kept(s, S)[k] => j = k
  <1>. DEFINE n == Len(s)
              T == Seq(R)
              step == [k \in 1..n |-> [u \in T |-> IF s[k] \in S THEN Append(u, s[k]) ELSE u]]
              Rec(g) == g = [k \in 0..n |-> IF k = 0 THEN <<>>
                                            ELSE IF s[k] \in S THEN Append(g[k - 1], s[k]) ELSE g[k - 1]]
  <1>1. n \in Nat /\ <<>> \in T /\ \A k \in 1..n : s[k] \in R
    OBVIOUS
  <1>2. step \in [1..n -> [T -> T]]
    <2>1. ASSUME NEW k \in 1..n, NEW u \in T PROVE (IF s[k] \in S THEN Append(u, s[k]) ELSE u) \in T
      BY <1>1
    <2>. HIDE DEF T
    <2>. QED BY <2>1
  <1>3. PICK f : Runs(f, n, T, <<>>, step)
    <2>. HIDE DEF step, T, n, Rec
    <2>1. PICK N, U, turn, none : N = n /\ U = T /\ turn = step /\ none = <<>>
      OBVIOUS
    <2>2. N \in Nat /\ none \in U /\ turn \in [1..N -> [U -> U]]
      BY <1>1, <1>2, <2>1
    <2>3. \E h : Runs(h, N, U, none, turn)
      BY <2>2, Recursion
    <2>. QED BY <2>1, <2>3
  <1>4. Rec(f)
    <2>1. ASSUME NEW k \in 0..n
          PROVE  f[k] = IF k = 0 THEN <<>> ELSE IF s[k] \in S THEN Append(f[k - 1], s[k]) ELSE f[k - 1]
      <3>1. CASE k = 0
        BY <1>3, <3>1 DEF Runs
      <3>2. CASE k # 0
        <4>1. k \in 1..n /\ k - 1 \in 0..n
          BY <1>1, <3>2
        <4>2. f[k - 1] \in T
          BY <1>3, <4>1 DEF Runs
        <4>3. f[k] = step[k][f[k - 1]]
          BY <1>3, <4>1 DEF Runs
        <4>. HIDE DEF T, n
        <4>4. step[k] = [u \in T |-> IF s[k] \in S THEN Append(u, s[k]) ELSE u]
          BY <4>1
        <4>. HIDE DEF step
        <4>. QED BY <3>2, <4>2, <4>3, <4>4
      <3>. QED BY <3>1, <3>2
    <2>2. f \in [0..n -> T]
      BY <1>3 DEF Runs
    <2>. HIDE DEF T, step, n
    <2>. QED BY <2>1, <2>2
  <1>5. PICK g : g = (CHOOSE h : Rec(h))
    OBVIOUS
  <1>6. Rec(g)
    <2>. HIDE DEF Rec
    <2>. QED BY <1>4, <1>5
  <1>7. Kept(s, S) = g[n]
    BY <1>5 DEF Kept
  <1>8. g[0] = <<>>
    BY <1>1, <1>6
  <1>9. ASSUME NEW k \in 1..n PROVE g[k] = IF s[k] \in S THEN Append(g[k - 1], s[k]) ELSE g[k - 1]
    <2>1. k \in 0..n /\ k # 0
      BY <1>1
    <2>. QED BY <1>6, <2>1
  <1>. DEFINE Good(k) == /\ g[k] \in Seq(R)
                         /\ \A j \in 1..Len(g[k]) : g[k][j] \in S /\ \E a \in 1..k : g[k][j] = s[a]
                         /\ \A i, j \in 1..Len(g[k]) : g[k][i] = g[k][j] => i = j
              P == {k \in 0..n : Good(k)}
  <1>10. 0 \in P
    <2>1. g[0] \in Seq(R) /\ Len(g[0]) = 0
      BY <1>8
    <2>2. \A j \in 1..0 : FALSE
      OBVIOUS
    <2>3. Good(0)
      BY <2>1, <2>2
    <2>. HIDE DEF Good
    <2>. QED BY <1>1, <2>3
  <1>11. ASSUME NEW k \in 1..n, k - 1 \in P PROVE k \in P
    <2>1. PICK p, q, u : p = g[k - 1] /\ q = g[k] /\ u = s[k]
      OBVIOUS
    <2>2. /\ p \in Seq(R) /\ u \in R /\ q = IF u \in S THEN Append(p, u) ELSE p
          /\ \A j \in 1..Len(p) : p[j] \in S /\ \E a \in 1..(k - 1) : p[j] = s[a]
          /\ \A i, j \in 1..Len(p) : p[i] = p[j] => i = j
      BY <1>1, <1>9, <1>11, <2>1
    <2>3. \A a \in 1..(k - 1) : a \in 1..k /\ s[a] # u
      <3>1. \A a \in 1..(k - 1) : a \in 1..k /\ a \in 1..Len(s) /\ k \in 1..Len(s) /\ a # k
        OBVIOUS
      <3>. QED BY <2>1, <3>1
    <2>4. CASE u \in S
      <3>1. q \in Seq(R) /\ Len(q) = Len(p) + 1 /\ q[Len(p) + 1] = u /\ Len(p) \in Nat
            /\ \A j \in 1..Len(p) : q[j] = p[j]
        BY <2>2, <2>4
      <3>2. \A j \in 1..Len(q) : j \in 1..Len(p) \/ j = Len(p) + 1
        BY <3>1
      <3>3. k \in 1..k
        OBVIOUS
      <3>4. \A j \in 1..Len(q) : q[j] \in S /\ \E a \in 1..k : q[j] = s[a]
        BY <2>1, <2>2, <2>3, <2>4, <3>1, <3>2, <3>3
      <3>5. \A j \in 1..Len(p) : p[j] # u
        BY <2>2, <2>3
      <3>6. \A i, j \in 1..Len(q) : q[i] = q[j] => i = j
        BY <2>2, <3>1, <3>2, <3>5
      <3>7. Good(k)
        BY <2>1, <3>1, <3>4, <3>6
      <3>8. k \in 0..n
        OBVIOUS
      <3>. HIDE DEF Good
      <3>. QED BY <3>7, <3>8
    <2>5. CASE u \notin S
      <3>1. q = p /\ \A j \in 1..Len(q) : q[j] \in S /\ \E a \in 1..k : q[j] = s[a]
        BY <2>2, <2>3, <2>5
      <3>2. Good(k)
        BY <2>1, <2>2, <3>1
      <3>3. k \in 0..n
        OBVIOUS
      <3>. HIDE DEF Good
      <3>. QED BY <3>2, <3>3
    <2>. QED BY <2>4, <2>5
  <1>12. n \in P
    <2>. HIDE DEF P, n
    <2>1. \A k \in 0..n : k \in P
      BY <1>1, <1>10, <1>11, UpTo
    <2>2. n \in 0..n
      BY <1>1
    <2>. QED BY <2>1, <2>2
  <1>. QED BY <1>7, <1>12


\* No two entries of a list are near each other.
Apart(s, near) == \A i, j \in Range(s) : i # j => i \notin near[j]

\* The centers of an incremental fit with those that a turn adds: none is taken twice,
\* and if the old ones are apart then all are.
LEMMA AddedApart ==
  ASSUME NEW S, IsFiniteSet(S), NEW old \in Seq(S), IsInjective(old), NEW near, Apart(old, near),
         \A i, j \in S : i \in near[j] <=> j \in near[i],
         NEW order \in SetToSeqs(S \ Range(old)), NEW need \in 0..Len(order)
  PROVE  LET new == Added(old, order, need, near)
         IN  new \in Seq(S) /\ IsInjective(old \o new) /\ Apart(old \o new, near)
  <1>. DEFINE n == Cardinality(S \ Range(old))
              all == old \o order
              first == SubSeq(order, 1, need)
              F == Filtered(all, near)
              new == Kept(first, F)
  <1>1. n \in Nat
    BY FS_CardinalityType, FS_Subset
  <1>2. order \in [1..n -> S \ Range(old)] /\ \A i, j \in 1..n : i # j => order[i] # order[j]
    BY DEF SetToSeqs
  <1>3. order \in Seq(S) /\ Len(order) = n
    <2>1. order \in [1..n -> S]
      BY <1>2
    <2>. HIDE DEF n
    <2>. QED BY <1>1, <1>2, <2>1
  <1>4. /\ Len(old) \in Nat /\ DOMAIN old = 1..Len(old)
        /\ \A a \in 1..Len(old) : old[a] \in Range(old) /\ old[a] \in S
        /\ \A a, b \in 1..Len(old) : old[a] = old[b] => a = b
    BY DEF Range, IsInjective
  <1>. HIDE DEF n
  <1>5. /\ all \in Seq(S) /\ Len(all) = Len(old) + n
        /\ \A a \in 1..Len(old) : all[a] = old[a]
        /\ \A a \in 1..n : all[Len(old) + a] = order[a]
    BY <1>1, <1>3, <1>4
  <1>6. ASSUME NEW a \in 1..Len(all), a \notin 1..Len(old)
        PROVE  a - Len(old) \in 1..n /\ all[a] = order[a - Len(old)] /\ a > Len(old)
    <2>1. a - Len(old) \in 1..n /\ Len(old) + (a - Len(old)) = a /\ a > Len(old)
      BY <1>1, <1>4, <1>5, <1>6
    <2>. QED BY <1>5, <2>1
  <1>7. \A a \in 1..n : order[a] \notin Range(old) /\ order[a] \in S
    BY <1>2
  <1>8. ASSUME NEW a \in 1..Len(all), NEW b \in 1..Len(all), all[a] = all[b] PROVE a = b
    <2>. HIDE DEF all
    <2>1. CASE a \in 1..Len(old) /\ b \in 1..Len(old)
      BY <1>4, <1>5, <1>8, <2>1
    <2>2. CASE a \in 1..Len(old) /\ b \notin 1..Len(old)
      BY <1>4, <1>5, <1>6, <1>7, <1>8, <2>2
    <2>3. CASE a \notin 1..Len(old) /\ b \in 1..Len(old)
      BY <1>4, <1>5, <1>6, <1>7, <1>8, <2>3
    <2>4. CASE a \notin 1..Len(old) /\ b \notin 1..Len(old)
      <3>1. a - Len(old) = b - Len(old)
        BY <1>2, <1>6, <1>8, <2>4
      <3>. QED BY <1>4, <3>1
    <2>. QED BY <2>1, <2>2, <2>3, <2>4
  <1>9. ASSUME NEW a \in 1..Len(old), NEW b \in 1..Len(old), a # b PROVE all[b] \notin near[all[a]]
    <2>1. all[a] = old[a] /\ all[b] = old[b] /\ old[a] # old[b]
      BY <1>4, <1>5, <1>9
    <2>. QED BY <1>4, <2>1 DEF Apart
  <1>10. \A a, b \in 1..Len(all) :
           a < b /\ all[b] \in F /\ (a <= Len(old) \/ all[a] \in F) => all[b] \notin near[all[a]]
    <2>1. Len(old) \in 0..Len(all)
      BY <1>1, <1>4, <1>5
    <2>. HIDE DEF all
    <2>. QED BY <1>5, <1>8, <1>9, <2>1, FilteredApart
  <1>11. /\ first \in Seq(S) /\ Len(first) = need /\ need \in Nat
         /\ \A a \in 1..need : first[a] = order[a] /\ a \in 1..n
    BY <1>1, <1>3
  <1>12. \A a, b \in 1..Len(first) : first[a] = first[b] => a = b
    BY <1>2, <1>11
  <1>13. /\ new \in Seq(S)
         /\ \A k \in 1..Len(new) : new[k] \in F /\ \E a \in 1..Len(first) : new[k] = first[a]
         /\ \A j, k \in 1..Len(new) : new[j] = new[k] => j = k
    <2>. HIDE DEF first, F
    <2>1. PICK some, G : some = first /\ G = F
      OBVIOUS
    <2>2. some \in Seq(S) /\ \A a, b \in 1..Len(some) : some[a] = some[b] => a = b
      BY <1>11, <1>12, <2>1
    <2>3. /\ Kept(some, G) \in Seq(S)
          /\ \A k \in 1..Len(Kept(some, G)) :
               Kept(some, G)[k] \in G /\ \E a \in 1..Len(some) : Kept(some, G)[k] = some[a]
          /\ \A j, k \in 1..Len(Kept(some, G)) : Kept(some, G)[j] = Kept(some, G)[k] => j = k
      BY <2>2, KeptEntries
    <2>. QED BY <2>1, <2>3
  <1>14. Added(old, order, need, near) = new
    BY DEF Added
  <1>15. ASSUME NEW k \in 1..Len(new)
         PROVE  \E b \in 1..Len(all) : b > Len(old) /\ all[b] = new[k] /\ all[b] \in F
    <2>. HIDE DEF new, all, first, F
    <2>1. PICK a \in 1..n : new[k] = order[a]
      BY <1>11, <1>13
    <2>2. Len(old) + a \in 1..Len(all) /\ Len(old) + a > Len(old)
      BY <1>1, <1>4, <1>5
    <2>3. all[Len(old) + a] = new[k] /\ new[k] \in F
      BY <1>5, <1>13, <2>1
    <2>. QED BY <2>2, <2>3
  <1>. DEFINE more == old \o new
  <1>16. /\ more \in Seq(S) /\ Len(new) \in Nat /\ Len(more) = Len(old) + Len(new)
         /\ DOMAIN more = 1..Len(more)
         /\ \A a \in 1..Len(old) : more[a] = old[a]
         /\ \A a \in 1..Len(new) : more[Len(old) + a] = new[a]
    <2>. HIDE DEF new
    <2>. QED BY <1>4, <1>13
  <1>. HIDE DEF new, all, F, first
  <1>17. ASSUME NEW a \in 1..Len(more), a \notin 1..Len(old)
         PROVE  a - Len(old) \in 1..Len(new) /\ more[a] = new[a - Len(old)]
    <2>. HIDE DEF more
    <2>1. a - Len(old) \in 1..Len(new) /\ Len(old) + (a - Len(old)) = a
      BY <1>4, <1>16, <1>17
    <2>. QED BY <1>16, <2>1
  <1>18. ASSUME NEW k \in 1..Len(new), NEW a \in 1..Len(old) PROVE new[k] # old[a]
    <2>1. PICK b \in 1..Len(all) : b > Len(old) /\ all[b] = new[k] /\ all[b] \in F
      BY <1>15
    <2>2. a \in 1..Len(all) /\ a # b
      <3>1. Len(all) = Len(old) + n /\ n \in Nat /\ Len(old) \in Nat /\ b > Len(old)
        BY <1>1, <1>4, <1>5, <2>1
      <3>. QED BY <3>1
    <2>3. all[a] = old[a]
      BY <1>5
    <2>. QED BY <1>8, <2>1, <2>2, <2>3
  <1>19. ASSUME NEW a \in 1..Len(more), NEW b \in 1..Len(more), more[a] = more[b] PROVE a = b
    <2>. HIDE DEF more
    <2>1. CASE a \in 1..Len(old) /\ b \in 1..Len(old)
      BY <1>4, <1>16, <1>19, <2>1
    <2>2. CASE a \in 1..Len(old) /\ b \notin 1..Len(old)
      BY <1>16, <1>17, <1>18, <1>19, <2>2
    <2>3. CASE a \notin 1..Len(old) /\ b \in 1..Len(old)
      BY <1>16, <1>17, <1>18, <1>19, <2>3
    <2>4. CASE a \notin 1..Len(old) /\ b \notin 1..Len(old)
      <3>1. a - Len(old) = b - Len(old)
        BY <1>13, <1>17, <1>19, <2>4
      <3>. QED BY <1>4, <3>1
    <2>. QED BY <2>1, <2>2, <2>3, <2>4
  <1>20. ASSUME NEW k \in 1..Len(new), NEW a \in 1..Len(old) PROVE new[k] \notin near[old[a]]
    <2>1. PICK b \in 1..Len(all) : b > Len(old) /\ all[b] = new[k] /\ all[b] \in F
      BY <1>15
    <2>2. a \in 1..Len(all) /\ a < b /\ a <= Len(old)
      <3>1. Len(all) = Len(old) + n /\ n \in Nat /\ Len(old) \in Nat /\ b > Len(old)
        BY <1>1, <1>4, <1>5, <2>1
      <3>. QED BY <3>1
    <2>3. all[a] = old[a]
      BY <1>5
    <2>. QED BY <1>10, <2>1, <2>2, <2>3
  <1>21. ASSUME NEW j \in 1..Len(new), NEW k \in 1..Len(new), new[j] # new[k]
         PROVE  new[k] \notin near[new[j]]
    <2>1. PICK a \in 1..Len(all) : a > Len(old) /\ all[a] = new[j] /\ all[a] \in F
      BY <1>15
    <2>2. PICK b \in 1..Len(all) : b > Len(old) /\ all[b] = new[k] /\ all[b] \in F
      BY <1>15
    <2>3. new[j] \in S /\ new[k] \in S
      BY <1>13
    <2>4. CASE a < b
      BY <1>10, <2>1, <2>2, <2>4
    <2>5. CASE b < a
      <3>1. new[j] \notin near[new[k]]
        BY <1>10, <2>1, <2>2, <2>5
      <3>. QED BY <2>3, <3>1
    <2>6. a < b \/ b < a
      BY <1>21, <2>1, <2>2
    <2>. QED BY <2>4, <2>5, <2>6
  <1>22. ASSUME NEW i \in Range(more), NEW j \in Range(more), i # j PROVE i \notin near[j]
    <2>1. PICK a \in 1..Len(more), b \in 1..Len(more) : i = more[a] /\ j = more[b]
      BY <1>16 DEF Range
    <2>. HIDE DEF more
    <2>2. CASE a \in 1..Len(old) /\ b \in 1..Len(old)
      <3>1. i = old[a] /\ j = old[b] /\ i \in Range(old) /\ j \in Range(old)
        BY <1>4, <1>16, <2>1, <2>2
      <3>. QED BY <1>22, <3>1 DEF Apart
    <2>3. CASE a \in 1..Len(old) /\ b \notin 1..Len(old)
      <3>1. PICK k \in 1..Len(new) : j = new[k]
        BY <1>17, <2>1, <2>3
      <3>2. i = old[a] /\ i \in S /\ j \in S
        BY <1>4, <1>13, <1>16, <2>1, <2>3, <3>1
      <3>3. j \notin near[i]
        BY <1>20, <2>3, <3>1, <3>2
      <3>. QED BY <3>2, <3>3
    <2>4. CASE a \notin 1..Len(old) /\ b \in 1..Len(old)
      <3>1. PICK k \in 1..Len(new) : i = new[k]
        BY <1>17, <2>1, <2>4
      <3>2. j = old[b]
        BY <1>16, <2>1, <2>4
      <3>. QED BY <1>20, <2>4, <3>1, <3>2
    <2>5. CASE a \notin 1..Len(old) /\ b \notin 1..Len(old)
      <3>1. PICK k \in 1..Len(new) : i = new[k]
        BY <1>17, <2>1, <2>5
      <3>2. PICK l \in 1..Len(new) : j = new[l]
        BY <1>17, <2>1, <2>5
      <3>. QED BY <1>21, <1>22, <3>1, <3>2
    <2>. QED BY <2>2, <2>3, <2>4, <2>5
  <1>23. IsInjective(more)
    BY <1>16, <1>19 DEF IsInjective
  <1>24. Apart(more, near)
    BY <1>22 DEF Apart
  <1>. QED BY <1>13, <1>14, <1>23, <1>24


-----------------------------------------------------------------------------
\* The fitters.  BoundSpec and IncSpec share no state; the invariant of each is proved
\* by itself.

WeightEntries ==
  {ZeroWeight} \cup {Value(i) : i \in PointIndex}
    \cup {Component(i, j) : i \in GradIndex, j \in 0..(Dim - 1)}

IncInv ==
  /\ pointCenters \in Seq(PointIndex) /\ IsInjective(pointCenters)
  /\ grad_centers \in Seq(GradIndex) /\ IsInjective(grad_centers)
  /\ weights \in Seq(WeightEntries) /\ Len(weights) = Mu + Dim * Sigma
  /\ halvings \in 0..(IncHalvings + 1)
  /\ incPc \in {"fit", "select", "done", "thrown"}
  /\ WeightsCarried
  /\ halvings = 0 => Mu <= 1 /\ Sigma = 0
  /\ halvings > 0 => /\ Apart(pointCenters, IncNear[halvings - 1])
                     /\ Apart(grad_centers, IncGradNear[halvings - 1])

\* Of each point with a gradient there are as many components as dimensions.
LEMMA GradientOf ==
  ASSUME NEW sigma \in Nat, NEW u \in Nat, u < Dim * sigma
  PROVE  u \div Dim + 1 \in 1..sigma /\ u % Dim \in 0..(Dim - 1)
  <1>1. CASE Dim = 1
    BY <1>1
  <1>2. CASE Dim = 2
    BY <1>2
  <1>3. CASE Dim = 3
    BY <1>3
  <1>. QED BY <1>1, <1>2, <1>3, SizesAssumption

\* The number of weights.
LEMMA ProductType ==
  ASSUME NEW sigma \in Nat
  PROVE  Dim * sigma \in Nat /\ Dim * 0 = 0
  <1>1. CASE Dim = 1
    BY <1>1
  <1>2. CASE Dim = 2
    BY <1>2
  <1>3. CASE Dim = 3
    BY <1>3
  <1>. QED BY <1>1, <1>2, <1>3, SizesAssumption

\* incremental_fitter.hpp:51: one center in the special case, none else.
LEMMA IncInvInit == IncInit => IncInv
  <1>. SUFFICES ASSUME IncInit PROVE IncInv
    OBVIOUS
  <1>1. /\ pointCenters \in Seq(PointIndex) /\ Len(pointCenters) \in 0..1
        /\ \A a \in 1..Len(pointCenters) : a = 1
    <2>1. CASE Linear /\ MuFull = 1 /\ SigmaFull >= 1
      <3>1. pointCenters = <<0>> /\ 0 \in PointIndex
        BY <2>1 DEF IncInit, PointIndex
      <3>. QED BY <3>1
    <2>2. CASE ~(Linear /\ MuFull = 1 /\ SigmaFull >= 1)
      BY <2>2 DEF IncInit
    <2>. QED BY <2>1, <2>2
  <1>2. IsInjective(pointCenters)
    BY <1>1 DEF IsInjective
  <1>3. grad_centers \in Seq(GradIndex) /\ Len(grad_centers) = 0 /\ IsInjective(grad_centers)
    BY DEF IncInit, IsInjective
  <1>4. /\ weights \in Seq(WeightEntries) /\ Len(weights) = Len(pointCenters)
        /\ \A k \in 1..Len(weights) : weights[k] = ZeroWeight
    <2>1. ZeroWeight \in WeightEntries
      BY DEF WeightEntries
    <2>2. weights = [k \in 1..Len(pointCenters) |-> ZeroWeight]
      BY DEF IncInit
    <2>. QED BY <1>1, <2>1, <2>2
  <1>5. Len(weights) = Mu + Dim * Sigma
    BY <1>1, <1>3, <1>4, ProductType DEF Mu, Sigma
  <1>6. WeightsCarried
    BY <1>4 DEF WeightsCarried
  <1>7. Mu <= 1 /\ Sigma = 0
    BY <1>1, <1>3 DEF Mu, Sigma
  <1>8. halvings = 0 /\ halvings \in 0..(IncHalvings + 1) /\ incPc = "fit"
    BY SizesAssumption DEF IncInit
  <1>. QED BY <1>1, <1>2, <1>3, <1>4, <1>5, <1>6, <1>7, <1>8 DEF IncInv

\* What a weight is computed for is a component of the centers.
LEMMA OwnEntry ==
  ASSUME pointCenters \in Seq(PointIndex), grad_centers \in Seq(GradIndex),
         NEW k \in 1..(Mu + Dim * Sigma)
  PROVE  OwnComponent(k) \in WeightEntries
  <1>1. Mu \in Nat /\ Sigma \in Nat /\ Dim * Sigma \in Nat
    <2>1. Mu \in Nat /\ Sigma \in Nat
      BY DEF Mu, Sigma
    <2>. QED BY <2>1, ProductType
  <1>2. CASE k <= Mu
    <2>1. pointCenters[k] \in PointIndex
      BY <1>1, <1>2 DEF Mu
    <2>. QED BY <1>2, <2>1 DEF OwnComponent, WeightEntries
  <1>3. CASE ~(k <= Mu)
    <2>1. k - Mu - 1 \in Nat /\ k - Mu - 1 < Dim * Sigma
      BY <1>1, <1>3
    <2>2. (k - Mu - 1) \div Dim + 1 \in 1..Sigma /\ (k - Mu - 1) % Dim \in 0..(Dim - 1)
      BY <1>1, <2>1, GradientOf
    <2>3. grad_centers[(k - Mu - 1) \div Dim + 1] \in GradIndex
      BY <2>2 DEF Sigma
    <2>. QED BY <1>3, <2>2, <2>3 DEF OwnComponent, WeightEntries
  <1>. QED BY <1>2, <1>3

\* A fit computes each weight for its own component.
LEMMA FitCentersKeeps == IncInv /\ FitCenters => IncInv'
  <1>. SUFFICES ASSUME IncInv, FitCenters PROVE IncInv'
    OBVIOUS
  <1>1. UNCHANGED <<pointCenters, grad_centers, halvings>> /\ Mu' = Mu /\ Sigma' = Sigma
    BY DEF FitCenters, Mu, Sigma
  <1>2. \A k : OwnComponent(k)' = OwnComponent(k)
    BY <1>1 DEF OwnComponent
  <1>3. /\ weights' \in Seq(WeightEntries) /\ Len(weights') = Mu + Dim * Sigma
        /\ \A k \in 1..Len(weights') : weights'[k] \in {ZeroWeight, OwnComponent(k)}
    <2>1. CASE ~Enough
      BY <2>1 DEF FitCenters, IncInv, WeightsCarried
    <2>2. CASE Enough
      <3>1. weights' = [k \in 1..(Mu + Dim * Sigma) |-> OwnComponent(k)]
        BY <2>2 DEF FitCenters
      <3>2. Mu + Dim * Sigma \in Nat
        <4>1. Mu \in Nat /\ Sigma \in Nat
          BY DEF IncInv, Mu, Sigma
        <4>. QED BY <4>1, ProductType
      <3>3. \A k \in 1..(Mu + Dim * Sigma) : OwnComponent(k) \in WeightEntries
        BY OwnEntry DEF IncInv
      <3>4. PICK many : many = Mu + Dim * Sigma
        OBVIOUS
      <3>. QED BY <3>1, <3>2, <3>3, <3>4
    <2>. QED BY <2>1, <2>2
  <1>4. WeightsCarried'
    BY <1>2, <1>3 DEF WeightsCarried
  <1>. QED BY <1>1, <1>3, <1>4 DEF IncInv, FitCenters, Apart

\* The weights of the old components are in the places that these have among the new.
LEMMA CarriedEntries ==
  ASSUME IncInv, NEW new \in Seq(PointIndex), NEW grad_new \in Seq(GradIndex),
         pointCenters' = pointCenters \o new, grad_centers' = grad_centers \o grad_new,
         weights' = Carried(Mu + Len(new), Sigma + Len(grad_new))
  PROVE  /\ weights' \in Seq(WeightEntries) /\ Len(weights') = Mu' + Dim * Sigma'
         /\ WeightsCarried'
  <1>1. Mu \in Nat /\ Sigma \in Nat /\ Len(new) \in Nat /\ Len(grad_new) \in Nat
    BY DEF IncInv, Mu, Sigma
  <1>2. PICK mu, sigma : mu = Mu + Len(new) /\ sigma = Sigma + Len(grad_new)
    OBVIOUS
  <1>3. mu \in Nat /\ sigma \in Nat /\ Mu <= mu /\ Sigma <= sigma
    BY <1>1, <1>2
  <1>4. Mu' = mu /\ Sigma' = sigma
    BY <1>2 DEF IncInv, Mu, Sigma
  <1>5. PICK old, all : old = Dim * Sigma /\ all = Dim * sigma
    OBVIOUS
  <1>6. old \in Nat /\ all \in Nat /\ old <= all
    <2>1. CASE Dim = 1
      BY <1>1, <1>3, <1>5, <2>1
    <2>2. CASE Dim = 2
      BY <1>1, <1>3, <1>5, <2>2
    <2>3. CASE Dim = 3
      BY <1>1, <1>3, <1>5, <2>3
    <2>. QED BY <2>1, <2>2, <2>3, SizesAssumption
  <1>7. weights' = [k \in 1..(mu + all) |-> IF k <= Mu THEN weights[k]
                                           ELSE IF k \in (mu + 1)..(mu + old) THEN weights[k - mu + Mu]
                                           ELSE ZeroWeight]
    BY <1>2, <1>5 DEF Carried
  <1>8. Len(weights) = Mu + old /\ weights \in Seq(WeightEntries)
        /\ \A k \in 1..(Mu + old) : weights[k] \in WeightEntries /\ weights[k] \in {ZeroWeight, OwnComponent(k)}
    BY <1>5 DEF IncInv, WeightsCarried
  <1>9. ASSUME NEW k \in 1..(mu + all)
        PROVE  weights'[k] \in WeightEntries /\ weights'[k] \in {ZeroWeight, OwnComponent(k)'}
    <2>1. CASE k <= Mu
      <3>1. weights'[k] = weights[k] /\ k \in 1..(Mu + old) /\ k <= mu /\ k \in 1..Mu
        BY <1>1, <1>3, <1>6, <1>7, <2>1
      <3>2. pointCenters'[k] = pointCenters[k]
        BY <3>1 DEF Mu, IncInv
      <3>3. OwnComponent(k)' = OwnComponent(k)
        BY <1>4, <2>1, <3>1, <3>2 DEF OwnComponent
      <3>. QED BY <1>8, <3>1, <3>3
    <2>2. CASE ~(k <= Mu) /\ k \in (mu + 1)..(mu + old)
      <3>1. PICK j, u : j = k - mu + Mu /\ u = k - mu - 1
        OBVIOUS
      <3>2. /\ weights'[k] = weights[j] /\ j \in 1..(Mu + old) /\ ~(j <= Mu) /\ ~(k <= mu)
            /\ u \in Nat /\ u < old /\ u = j - Mu - 1
        BY <1>1, <1>3, <1>6, <1>7, <2>2, <3>1
      <3>3. u \div Dim + 1 \in 1..Sigma
        BY <1>1, <1>5, <3>2, GradientOf
      <3>4. grad_centers'[u \div Dim + 1] = grad_centers[u \div Dim + 1]
        BY <3>3 DEF Sigma, IncInv
      <3>5. OwnComponent(j) = Component(grad_centers[u \div Dim + 1], u % Dim)
        BY <3>2 DEF OwnComponent
      <3>6. OwnComponent(k)' = Component(grad_centers'[u \div Dim + 1], u % Dim)
        BY <1>4, <3>1, <3>2 DEF OwnComponent, Component
      <3>7. OwnComponent(k)' = OwnComponent(j)
        BY <3>4, <3>5, <3>6
      <3>. QED BY <1>8, <3>2, <3>7
    <2>3. CASE ~(k <= Mu) /\ k \notin (mu + 1)..(mu + old)
      <3>1. weights'[k] = ZeroWeight
        BY <1>7, <2>3
      <3>2. ZeroWeight \in WeightEntries
        BY DEF WeightEntries
      <3>. QED BY <3>1, <3>2
    <2>. QED BY <2>1, <2>2, <2>3
  <1>10. weights' \in Seq(WeightEntries) /\ Len(weights') = mu + all
    <2>1. mu + all \in Nat
      BY <1>3, <1>6
    <2>2. PICK many : many = mu + all
      OBVIOUS
    <2>3. weights' \in [1..many -> WeightEntries]
      BY <1>7, <1>9, <2>2
    <2>4. many \in Nat
      BY <2>1, <2>2
    <2>5. weights' \in Seq(WeightEntries) /\ Len(weights') = many
      BY <2>3, <2>4
    <2>. QED BY <2>2, <2>5
  <1>11. WeightsCarried'
    BY <1>9, <1>10 DEF WeightsCarried
  <1>. QED BY <1>4, <1>5, <1>10, <1>11


\* A relation of points at a distance holds at a smaller one if it does at a larger one.
LEMMA ApartCloser ==
  ASSUME NEW S, NEW s \in Seq(S), NEW near, NEW closer, Apart(s, near),
         \A i \in S : closer[i] \subseteq near[i]
  PROVE  Apart(s, closer)
  <1>1. Range(s) \subseteq S
    BY DEF Range
  <1>. QED BY <1>1 DEF Apart

\* At most one entry is not near any other.
LEMMA OneApart ==
  ASSUME NEW S, NEW s \in Seq(S), NEW near, Len(s) <= 1
  PROVE  Apart(s, near)
  <1>1. \A a, b \in DOMAIN s : a = b
    <2>1. DOMAIN s = 1..Len(s) /\ Len(s) \in Nat
      OBVIOUS
    <2>. QED BY <2>1
  <1>. QED BY <1>1 DEF Apart, Range

\* The centers that were apart are so at the distance of this turn.
LEMMA ApartNow ==
  ASSUME IncInv, halvings <= IncHalvings
  PROVE  Apart(pointCenters, IncNear[halvings]) /\ Apart(grad_centers, IncGradNear[halvings])
  <1>1. CASE halvings = 0
    <2>1. /\ pointCenters \in Seq(PointIndex) /\ Len(pointCenters) <= 1
          /\ grad_centers \in Seq(GradIndex) /\ Len(grad_centers) <= 1
      BY <1>1 DEF IncInv, Mu, Sigma
    <2>. QED BY <2>1, OneApart
  <1>2. CASE halvings > 0
    <2>1. halvings \in 0..IncHalvings
      BY <1>2 DEF IncInv
    <2>2. /\ \A i \in PointIndex : IncNear[halvings][i] \subseteq IncNear[halvings - 1][i]
          /\ \A i \in GradIndex : IncGradNear[halvings][i] \subseteq IncGradNear[halvings - 1][i]
      BY <1>2, <2>1, IncNearAssumption DEF NearRelations
    <2>3. /\ pointCenters \in Seq(PointIndex) /\ Apart(pointCenters, IncNear[halvings - 1])
          /\ grad_centers \in Seq(GradIndex) /\ Apart(grad_centers, IncGradNear[halvings - 1])
      BY <1>2 DEF IncInv
    <2>4. PICK near, grad_near, closer, grad_closer :
            /\ near = IncNear[halvings - 1] /\ closer = IncNear[halvings]
            /\ grad_near = IncGradNear[halvings - 1] /\ grad_closer = IncGradNear[halvings]
      OBVIOUS
    <2>5. Apart(pointCenters, closer)
      <3>1. Apart(pointCenters, near) /\ \A i \in PointIndex : closer[i] \subseteq near[i]
        BY <2>2, <2>3, <2>4
      <3>. QED BY <2>3, <3>1, ApartCloser
    <2>6. Apart(grad_centers, grad_closer)
      <3>1. Apart(grad_centers, grad_near) /\ \A i \in GradIndex : grad_closer[i] \subseteq grad_near[i]
        BY <2>2, <2>3, <2>4
      <3>. QED BY <2>3, <3>1, ApartCloser
    <2>. QED BY <2>4, <2>5, <2>6
  <1>. QED BY <1>1, <1>2 DEF IncInv

\* incremental_fitter.hpp:94: some points are missed and become centers, or none is.
LEMMA SelectCentersKeeps == IncInv /\ SelectCenters => IncInv'
  <1>. SUFFICES ASSUME IncInv, SelectCenters PROVE IncInv'
    OBVIOUS
  <1>1. PICK order \in SetToSeqs(PointIndex \ Range(pointCenters)),
             grad_order \in SetToSeqs(GradIndex \ Range(grad_centers)) :
          \E need \in 0..Len(order), grad_need \in 0..Len(grad_order) :
            IF need = 0 /\ grad_need = 0
              THEN incPc' = "done" /\ UNCHANGED <<pointCenters, grad_centers, weights, halvings>>
              ELSE /\ halvings <= IncHalvings
                   /\ LET new == Added(pointCenters, order, need, IncNear[halvings])
                          grad_new == Added(grad_centers, grad_order, grad_need, IncGradNear[halvings])
                      IN  /\ pointCenters' = pointCenters \o new
                          /\ grad_centers' = grad_centers \o grad_new
                          /\ weights' = Carried(Mu + Len(new), Sigma + Len(grad_new))
                   /\ halvings' = halvings + 1
                   /\ incPc' = "fit"
    BY DEF SelectCenters
  <1>. DEFINE newOf(need) == Added(pointCenters, order, need, IncNear[halvings])
              gradNewOf(need) == Added(grad_centers, grad_order, need, IncGradNear[halvings])
  <1>2. PICK need \in 0..Len(order), grad_need \in 0..Len(grad_order) :
          IF need = 0 /\ grad_need = 0
            THEN incPc' = "done" /\ UNCHANGED <<pointCenters, grad_centers, weights, halvings>>
            ELSE /\ halvings <= IncHalvings
                 /\ pointCenters' = pointCenters \o newOf(need)
                 /\ grad_centers' = grad_centers \o gradNewOf(grad_need)
                 /\ weights' = Carried(Mu + Len(newOf(need)), Sigma + Len(gradNewOf(grad_need)))
                 /\ halvings' = halvings + 1
                 /\ incPc' = "fit"
    BY <1>1
  <1>3. PICK new, grad_new :
          /\ new = Added(pointCenters, order, need, IncNear[halvings])
          /\ grad_new = Added(grad_centers, grad_order, grad_need, IncGradNear[halvings])
          /\ IF need = 0 /\ grad_need = 0
               THEN incPc' = "done" /\ UNCHANGED <<pointCenters, grad_centers, weights, halvings>>
               ELSE /\ halvings <= IncHalvings
                    /\ pointCenters' = pointCenters \o new
                    /\ grad_centers' = grad_centers \o grad_new
                    /\ weights' = Carried(Mu + Len(new), Sigma + Len(grad_new))
                    /\ halvings' = halvings + 1
                    /\ incPc' = "fit"
    BY <1>2
  <1>4. CASE need = 0 /\ grad_need = 0
    <2>1. UNCHANGED <<pointCenters, grad_centers, weights, halvings>> /\ incPc' = "done"
      BY <1>3, <1>4
    <2>2. Mu' = Mu /\ Sigma' = Sigma
      BY <2>1 DEF Mu, Sigma
    <2>3. WeightsCarried'
      BY <2>1, <2>2 DEF IncInv, WeightsCarried, OwnComponent
    <2>. QED BY <2>1, <2>2, <2>3 DEF IncInv, Apart
  <1>5. CASE ~(need = 0 /\ grad_need = 0)
    <2>1. halvings <= IncHalvings /\ halvings' = halvings + 1 /\ incPc' = "fit"
          /\ pointCenters' = pointCenters \o new /\ grad_centers' = grad_centers \o grad_new
          /\ weights' = Carried(Mu + Len(new), Sigma + Len(grad_new))
      BY <1>3, <1>5
    <2>2. halvings \in 0..IncHalvings
      BY <2>1 DEF IncInv
    <2>3. IsFiniteSet(PointIndex) /\ IsFiniteSet(GradIndex)
      <3>1. 0 \in Int /\ MuFull - 1 \in Int /\ SigmaFull - 1 \in Int
        BY SizesAssumption
      <3>. QED BY <3>1, FS_Interval DEF PointIndex, GradIndex
    <2>4. new \in Seq(PointIndex) /\ IsInjective(pointCenters')
          /\ Apart(pointCenters', IncNear[halvings])
      <3>1. \A i, j \in PointIndex : i \in IncNear[halvings][j] <=> j \in IncNear[halvings][i]
        BY <2>2, IncNearAssumption DEF NearRelations
      <3>2. pointCenters \in Seq(PointIndex) /\ IsInjective(pointCenters)
        BY DEF IncInv
      <3>. QED BY <1>3, <2>1, <2>3, <3>1, <3>2, ApartNow, AddedApart
    <2>5. grad_new \in Seq(GradIndex) /\ IsInjective(grad_centers')
          /\ Apart(grad_centers', IncGradNear[halvings])
      <3>1. \A i, j \in GradIndex : i \in IncGradNear[halvings][j] <=> j \in IncGradNear[halvings][i]
        BY <2>2, IncNearAssumption DEF NearRelations
      <3>2. grad_centers \in Seq(GradIndex) /\ IsInjective(grad_centers)
        BY DEF IncInv
      <3>. QED BY <1>3, <2>1, <2>3, <3>1, <3>2, ApartNow, AddedApart
    <2>6. weights' \in Seq(WeightEntries) /\ Len(weights') = Mu' + Dim * Sigma' /\ WeightsCarried'
      BY <2>1, <2>4, <2>5, CarriedEntries
    <2>7. pointCenters' \in Seq(PointIndex) /\ grad_centers' \in Seq(GradIndex)
      BY <2>1, <2>4, <2>5 DEF IncInv
    <2>8. halvings' \in 0..(IncHalvings + 1) /\ halvings' # 0 /\ halvings' - 1 = halvings
      BY <2>1, <2>2, SizesAssumption
    <2>9. Apart(pointCenters, IncNear[halvings - 1])' <=> Apart(pointCenters', IncNear[halvings])
      BY <2>8 DEF Apart
    <2>10. Apart(grad_centers, IncGradNear[halvings - 1])' <=> Apart(grad_centers', IncGradNear[halvings])
      BY <2>8 DEF Apart
    <2>. QED BY <2>1, <2>4, <2>5, <2>6, <2>7, <2>8, <2>9, <2>10 DEF IncInv
  <1>. QED BY <1>4, <1>5

\* Every step of the incremental fitter.
LEMMA IncInvNext == IncInv /\ [IncNext]_incVars => IncInv'
  <1>. SUFFICES ASSUME IncInv, [IncNext]_incVars PROVE IncInv'
    OBVIOUS
  <1>1. CASE FitCenters
    BY <1>1, FitCentersKeeps
  <1>2. CASE SelectCenters
    BY <1>2, SelectCentersKeeps
  <1>3. ASSUME UNCHANGED <<pointCenters, grad_centers, weights, halvings>>,
               incPc' = "thrown" \/ UNCHANGED incPc
        PROVE  IncInv'
    <2>1. Mu' = Mu /\ Sigma' = Sigma
      BY <1>3 DEF Mu, Sigma
    <2>2. WeightsCarried'
      BY <1>3, <2>1 DEF IncInv, WeightsCarried, OwnComponent
    <2>. QED BY <1>3, <2>1, <2>2 DEF IncInv, Apart
  <1>4. CASE IncThrow
    BY <1>3, <1>4 DEF IncThrow
  <1>5. CASE IncSolverThrows
    BY <1>3, <1>5 DEF IncSolverThrows
  <1>6. CASE UNCHANGED incVars
    BY <1>3, <1>6 DEF incVars
  <1>. QED BY <1>1, <1>2, <1>4, <1>5, <1>6 DEF IncNext

\* incremental_fitter.hpp: whatever the residuals are.
LEMMA IncAlways == IncSpec => []IncInv
  <1>. QED BY IncInvInit, IncInvNext, PTL DEF IncSpec

\* What the invariant is for.
LEMMA IncImplies == IncInv => IncTypeOK /\ CentersApart /\ WeightsCarried
  BY DEF IncInv, IncTypeOK, CentersApart, Apart

-----------------------------------------------------------------------------
\* The values of the fit at its centers are their bounds; once the loop ends no bound is
\* violated, and no active one holds the fit back.
BoundInv ==
  /\ active_lb \subseteq DOMAIN Lb /\ active_ub \subseteq DOMAIN Ub
  /\ centers \subseteq Index /\ n_weights \in Nat
  /\ weight \in [Ineq -> -1..1] /\ values_fit \in [Ineq -> Int]
  /\ halved \in 0..(BoundHalvings + 1)
  /\ boundPc \in {"fit", "update", "done", "thrown"}
  /\ boundPc \in {"update", "done"} =>
       /\ centers = Eq \cup active_lb \cup active_ub
       /\ Cardinality(centers) >= NPoly =>
            /\ n_weights = Cardinality(centers) + NPoly
            /\ \A i \in active_lb \cup active_ub : values_fit[i] = CenterValue(i)
  /\ boundPc = "done" => Below \cup Above \cup LbOut \cup UbOut = {}

\* inequality_fitter.hpp:68: nothing is active at first.
LEMMA BoundInvInit == BoundInit => BoundInv
  <1>. SUFFICES ASSUME BoundInit PROVE BoundInv
    OBVIOUS
  <1>1. weight \in [Ineq -> -1..1] /\ values_fit \in [Ineq -> Int]
    BY DEF BoundInit
  <1>2. halved = 0 /\ halved \in 0..(BoundHalvings + 1)
    BY CountsAssumption DEF BoundInit
  <1>. QED BY <1>1, <1>2 DEF BoundInit, BoundInv

\* inequality_fitter.hpp:89: a fit hits the values of its centers.
LEMMA FitActiveKeeps == BoundInv /\ FitActive => BoundInv'
  <1>. SUFFICES ASSUME BoundInv, FitActive PROVE BoundInv'
    OBVIOUS
  <1>. DEFINE C == Eq \cup active_lb \cup active_ub
  <1>1. UNCHANGED <<active_lb, active_ub, halved>> /\ centers' = C /\ boundPc' = "update"
    BY DEF FitActive
  <1>2. C \subseteq Index /\ Cardinality(C) \in Nat /\ active_lb \cup active_ub \subseteq C \cap Ineq
    <2>1. C \subseteq Index /\ active_lb \cup active_ub \subseteq C \cap Ineq
      BY ConstraintsAssumption DEF BoundInv, Ineq
    <2>2. IsFiniteSet(Index)
      BY FS_Interval, CountsAssumption DEF Index
    <2>. QED BY <2>1, <2>2, FS_CardinalityType, FS_Subset
  <1>3. CASE Cardinality(C) >= NPoly
    <2>1. PICK s \in [C \ Eq -> -1..1] :
            weight' = [i \in Ineq |-> IF i \in C THEN s[i] ELSE weight[i]]
      BY <1>3 DEF FitActive
    <2>2. PICK v \in [Ineq \ C -> FitValues] :
            values_fit' = [i \in Ineq |-> IF i \in C THEN CenterValue(i) ELSE v[i]]
      BY <1>3 DEF FitActive
    <2>3. n_weights' = Cardinality(C) + NPoly
      BY <1>3 DEF FitActive
    <2>4. weight' \in [Ineq -> -1..1]
      <3>1. \A i \in Ineq : i \in C => i \in C \ Eq
        BY ConstraintsAssumption
      <3>2. \A i \in Ineq : weight[i] \in -1..1
        BY DEF BoundInv
      <3>3. \A i \in C \ Eq : s[i] \in -1..1
        OBVIOUS
      <3>. HIDE DEF C
      <3>. QED BY <2>1, <3>1, <3>2, <3>3
    <2>5. values_fit' \in [Ineq -> Int]
      <3>1. \A i \in C \cap Ineq : CenterValue(i) \in Int
        <4>1. \A i \in C \cap Ineq : i \in active_lb \/ i \in active_ub
          BY ConstraintsAssumption
        <4>. QED BY <4>1, ConstraintsAssumption DEF CenterValue, BoundInv
      <3>2. \A i \in Ineq \ C : v[i] \in Int
        BY ConstraintsAssumption
      <3>. HIDE DEF C
      <3>. QED BY <2>2, <3>1, <3>2
    <2>6. \A i \in active_lb \cup active_ub : values_fit'[i] = CenterValue(i)
      BY <1>2, <2>2
    <2>7. \A i : CenterValue(i)' = CenterValue(i)
      BY <1>1 DEF CenterValue
    <2>. QED
      BY <1>1, <1>2, <2>3, <2>4, <2>5, <2>6, <2>7, CountsAssumption DEF BoundInv
  <1>4. CASE ~(Cardinality(C) >= NPoly)
    <2>1. n_weights' = NPoly /\ UNCHANGED weight /\ values_fit' = [i \in Ineq |-> 0]
      BY <1>4 DEF FitActive
    <2>2. values_fit' \in [Ineq -> Int]
      BY <2>1
    <2>. QED BY <1>1, <1>2, <1>4, <2>1, <2>2, CountsAssumption DEF BoundInv
  <1>. QED BY <1>3, <1>4

\* inequality_fitter.hpp:178: the loop ends only if nothing was to be changed.
LEMMA UpdateKeeps == BoundInv /\ Update => BoundInv'
  <1>. SUFFICES ASSUME BoundInv, Update PROVE BoundInv'
    OBVIOUS
  <1>1. PICK kept : LET lb == Below \cap kept
                        ub == Above \cap kept
                    IN  /\ active_lb' = (active_lb \ LbOut) \cup lb
                        /\ active_ub' = (active_ub \ UbOut) \cup ub
                        /\ weight' = [i \in Ineq |-> IF i \in lb \cup ub THEN 0 ELSE weight[i]]
                        /\ IF Below \cup Above \cup LbOut \cup UbOut = {}
                             THEN boundPc' = "done" /\ UNCHANGED halved
                             ELSE boundPc' = "fit" /\ halved' = halved + 1
    BY DEF Update
  <1>2. boundPc = "update" /\ halved <= BoundHalvings /\ UNCHANGED <<centers, n_weights, values_fit>>
    BY DEF Update
  <1>3. active_lb' \subseteq DOMAIN Lb /\ active_ub' \subseteq DOMAIN Ub
    BY <1>1 DEF BoundInv, Below, Above
  <1>4. weight' \in [Ineq -> -1..1]
    BY <1>1 DEF BoundInv
  <1>5. CASE Below \cup Above \cup LbOut \cup UbOut = {}
    <2>1. Below = {} /\ Above = {} /\ LbOut = {} /\ UbOut = {}
      BY <1>5
    <2>2. active_lb' = active_lb /\ active_ub' = active_ub /\ boundPc' = "done" /\ UNCHANGED halved
      BY <1>1, <2>1
    <2>3. weight' = weight
      BY <1>1, <2>1 DEF BoundInv
    <2>4. Below' = {} /\ Above' = {} /\ LbOut' = {} /\ UbOut' = {}
      BY <1>2, <2>1, <2>2, <2>3 DEF Below, Above, LbOut, UbOut
    <2>5. \A i : CenterValue(i)' = CenterValue(i)
      BY <2>2 DEF CenterValue
    <2>. QED BY <1>2, <2>2, <2>3, <2>4, <2>5 DEF BoundInv
  <1>6. CASE ~(Below \cup Above \cup LbOut \cup UbOut = {})
    <2>1. boundPc' = "fit" /\ halved' = halved + 1
      BY <1>1, <1>6
    <2>2. halved' \in 0..(BoundHalvings + 1)
      BY <1>2, <2>1, CountsAssumption DEF BoundInv
    <2>. QED BY <1>2, <1>3, <1>4, <2>1, <2>2 DEF BoundInv
  <1>. QED BY <1>5, <1>6

\* Every step of the inequality fitter.
LEMMA BoundInvNext == BoundInv /\ [BoundNext]_boundVars => BoundInv'
  <1>. SUFFICES ASSUME BoundInv, [BoundNext]_boundVars PROVE BoundInv'
    OBVIOUS
  <1>1. CASE FitActive
    BY <1>1, FitActiveKeeps
  <1>2. CASE Update
    BY <1>2, UpdateKeeps
  <1>3. CASE BoundThrow
    BY <1>3 DEF BoundThrow, BoundInv
  <1>4. CASE BoundSolverThrows
    BY <1>4 DEF BoundSolverThrows, BoundInv
  <1>5. CASE UNCHANGED boundVars
    BY <1>5 DEF boundVars, BoundInv, CenterValue, Below, Above, LbOut, UbOut
  <1>. QED BY <1>1, <1>2, <1>3, <1>4, <1>5 DEF BoundNext

\* inequality_fitter.hpp: whatever the fits give.
LEMMA BoundAlways == BoundSpec => []BoundInv
  <1>. QED BY BoundInvInit, BoundInvNext, PTL DEF BoundSpec

\* A value within both bounds exceeds none.
LEMMA NoExcess ==
  ASSUME NEW i \in Ineq, NEW v \in Int, i \in DOMAIN Lb => Lb[i] <= v, i \in DOMAIN Ub => v <= Ub[i]
  PROVE  Excess(i, v) = 0
  <1>. DEFINE S == {0} \cup (IF i \in DOMAIN Lb THEN {Lb[i] - v} ELSE {})
                       \cup (IF i \in DOMAIN Ub THEN {v - Ub[i]} ELSE {})
  <1>1. 0 \in S /\ \A u \in S : u \in Int /\ u <= 0
    BY ConstraintsAssumption
  <1>. HIDE DEF S
  <1>2. Max(S) = 0
    BY <1>1 DEF Max
  <1>. QED BY <1>2 DEF Excess, S

\* What the invariant is for.
LEMMA BoundImplies == BoundInv => BoundTypeOK /\ BoundsMet
  <1>. SUFFICES ASSUME BoundInv PROVE BoundTypeOK /\ BoundsMet
    OBVIOUS
  <1>1. BoundTypeOK
    BY DEF BoundInv, BoundTypeOK
  <1>2. SUFFICES ASSUME boundPc = "done", Cardinality(centers) >= NPoly PROVE BoundsMet
    BY <1>1 DEF BoundsMet
  <1>3. /\ n_weights = Cardinality(centers) + NPoly /\ centers = Eq \cup active_lb \cup active_ub
        /\ \A i \in active_lb \cup active_ub : values_fit[i] = CenterValue(i)
        /\ Below = {} /\ Above = {} /\ LbOut = {} /\ UbOut = {}
    BY <1>2 DEF BoundInv
  <1>4. ASSUME NEW i \in Ineq PROVE Excess(i, values_fit[i]) = 0
    <2>1. values_fit[i] \in Int
      BY DEF BoundInv
    <2>2. ASSUME i \in DOMAIN Lb PROVE Lb[i] <= values_fit[i]
      <3>1. CASE i \in active_lb
        BY <1>3, <3>1, <2>2, ConstraintsAssumption DEF CenterValue
      <3>2. CASE i \notin active_lb
        BY <1>3, <2>1, <2>2, <3>2, ConstraintsAssumption DEF Below
      <3>. QED BY <3>1, <3>2
    <2>3. ASSUME i \in DOMAIN Ub PROVE values_fit[i] <= Ub[i]
      <3>1. CASE i \in active_ub
        <4>1. values_fit[i] = IF i \in active_lb THEN Lb[i] ELSE Ub[i]
          BY <1>3, <3>1 DEF CenterValue
        <4>2. i \in active_lb => i \in DOMAIN Lb
          BY DEF BoundInv
        <4>. QED BY <2>3, <4>1, <4>2, ConstraintsAssumption
      <3>2. CASE i \notin active_ub
        BY <1>3, <2>1, <2>3, <3>2, ConstraintsAssumption DEF Above
      <3>. QED BY <3>1, <3>2
    <2>. QED BY <2>1, <2>2, <2>3, NoExcess
  <1>5. \A i \in active_lb : weight[i] > 0
    <2>1. \A i \in active_lb : weight[i] \in -1..1
      BY DEF BoundInv, Ineq
    <2>. QED BY <1>3, <2>1 DEF LbOut
  <1>6. \A i \in active_ub : weight[i] < 0
    <2>1. \A i \in active_ub : weight[i] \in -1..1
      BY DEF BoundInv, Ineq
    <2>. QED BY <1>3, <2>1 DEF UbOut
  <1>. QED BY <1>3, <1>4, <1>5, <1>6 DEF BoundsMet

\* inequality_fitter.hpp:178, incremental_fitter.hpp:145: whatever fits make of the points
\* that are no centers, bounds are met at the end; centers are apart, and weights are
\* those of their own components.
THEOREM AdaptiveFitsRight == BoundSpec /\ IncSpec => []AdaptiveFits
  <1>1. BoundInv /\ IncInv => AdaptiveFits
    BY BoundImplies, IncImplies DEF AdaptiveFits
  <1>. QED BY <1>1, BoundAlways, IncAlways, PTL

\* The types of the variables of both fitters.
THEOREM FitterTypes == BoundSpec /\ IncSpec => [](BoundTypeOK /\ IncTypeOK)
  <1>1. BoundInv /\ IncInv => BoundTypeOK /\ IncTypeOK
    BY BoundImplies, IncImplies
  <1>. QED BY <1>1, BoundAlways, IncAlways, PTL
=============================================================================
