------------------------- MODULE FmmEvaluatorProofs -------------------------
(***************************************************************************)
(* Proofs about FmmEvaluator for any sets of points, weights, accuracies,  *)
(* thresholds and capacities: each cache, wherever a call that threw has   *)
(* left it, is either dropped before it is used or still fits the others.  *)
(* The evaluator of rectangular blocks comes first, then the symmetric one.*)
(* Last come the products by blocks of module Evaluators: in whatever order*)
(* points, targets and weights are set, each part of each block has those  *)
(* that were set last, and an accuracy that is a share of what was asked;  *)
(* so the blocks add up to the product of the matrix with the weights.     *)
(***************************************************************************)
EXTENDS FmmSymmetricEvaluator, Evaluators, DirectProductsProofs, WellFoundedInduction

PairCount == Size[src] * Size[trg]
BuildSteps == {"search", "configure", "farField", "operator", "sourceTree", "targetTree"}
Passing == pc \in {"m2l", "p2p", "downward"} \/ (pc = "compute" /\ config.tree_height > 0)
WithTrees == pc \in BuildSteps \/ Passing

\* The levels that the evaluator keeps are the true ones, and deep enough for the
\* trees from the moment the particles are sorted.
OrderInv ==
  /\ srcDepth = srcLevel /\ trgDepth = trgLevel
  /\ WithTrees =>
       /\ PairCount >= Threshold
       /\ srcLevel >= Height - 1 /\ trgLevel >= Height - 1

\* Every entry of best_config_ is of the present accuracy and source points, and the
\* one that this call has looked up is there until the call ends.
EntriesFit ==
  \A ht \in DOMAIN best :
    best[ht] = Entry(best[ht].config) /\ best[ht].config.tree_height \in {0, ht}
BestInv ==
  /\ EntriesFit
  /\ pc \in BuildSteps \ {"search"} =>
       Height \in DOMAIN best /\ best[Height].config = chosen
  /\ pc \in {"sourceTree", "targetTree"} => chosen = config
  /\ Passing => config.tree_height > 0
  /\ Passing => Height \in DOMAIN best /\ best[Height].config = config

\* What is known of a tree that is there: it was built for the configuration, over
\* sorted particles at their present positions.
TreeFits(t, p) ==
  /\ t.points = p /\ t.depth >= t.height - 1
  /\ t.order = config.order
  /\ config.tree_height > 0 => t.height = config.tree_height
TreeInv ==
  /\ srcTree # None => TreeFits(srcTree, src)
  /\ trgTree # None => TreeFits(trgTree, trg)
  /\ pc = "targetTree" \/ Passing => srcTree # None
  /\ Passing => trgTree # None
  /\ srcTree # None /\ ~dirty => srcTree.multipoles = srcTree.weights
  /\ Passing => pc = "compute" \/ ~dirty

\* The passes have lists; none are left to the next call unless this one throws
\* once it has them.
ListsInv ==
  /\ pc \in {"p2p", "downward"} => m2lLists # "none"
  /\ pc = "downward" => p2pLists # "none"
  /\ throws \cap WithLists = {} =>
       /\ m2lLists # "gone" /\ p2pLists # "gone"
       /\ pc \notin WithLists => m2lLists = "none" /\ p2pLists = "none"

\* The weights are where evaluate looks for them.
FreshInv ==
  throws \cap WithSourceTree = {} =>
    /\ weights = asked
    /\ pc \notin WithSourceTree => srcTree = None
    /\ srcTree # None => srcTree.weights = asked

\* The interpolator in use is the one of the configuration and the most recent in
\* the cache; while another is put in front of it, it is still the second.
InUse == far = config /\ op = config
RefInv ==
  /\ pc \notin {"farField", "operator"} =>
       \/ far = None /\ op = None /\ config = Default
       \/ InUse /\ cache # <<>> /\ cache[1] = config
  /\ pc = "farField" =>
       /\ cache # <<>> /\ cache[1] = chosen
       /\ (far = None /\ op = None) \/ (InUse /\ Contains(cache, config))
  /\ pc = "operator" =>
       /\ cache # <<>> /\ cache[1] = chosen /\ far = chosen
       /\ op = None \/ (op = config /\ Contains(cache, config))

IInv == TypeOK /\ OrderInv /\ BestInv /\ TreeInv /\ ListsInv /\ FreshInv

\* Room for the interpolator in use and the new one, and no exception from the
\* two allocations between which only one of far field and operator is the new one.
InterpolatorAssumptions ==
  Capacity >= 2 /\ \A S \in MayThrow : S \cap {"farField", "operator"} = {}

-----------------------------------------------------------------------------
\* A tree is built over some points, so its height is a number.
LEMMA HeightType ==
  ASSUME TypeOK, PairCount >= Threshold
  PROVE  Height \in Nat
<1>1. Size[src] \in Nat /\ Size[trg] \in Nat /\ Threshold \in Nat \ {0}
  BY SizeAssumption, NumbersAssumption DEF TypeOK
<1>2. Size[src] > 0 /\ Size[trg] > 0
  <2>1. Size[src] # 0
    BY <1>1 DEF PairCount
  <2>2. Size[trg] # 0
    BY <1>1 DEF PairCount
  <2> QED BY <1>1, <2>1, <2>2
<1> QED BY <1>2, HeightAssumption DEF Height, TypeOK

\* What the search finds is a configuration of the height it is for.
LEMMA FoundType ==
  ASSUME NEW ht \in Nat, NEW acc \in Accuracy, NEW c \in Found(ht, acc)
  PROVE  c \in ConfigType /\ c.tree_height = ht
<1>1. \A o \in Searched : o \in Nat
  BY OrderAssumption DEF Searched
<1>2. \E o \in Nat, d \in Int : c = Config(ht, o, d)
  <2>1. kClassic \in Int
    BY DEF kClassic
  <2> QED BY <1>1, <2>1 DEF Found
<1> QED BY <1>2 DEF Config, ConfigType

LEMMA DefaultType == Default \in ConfigType /\ Default.tree_height = 0
  BY DEF Default, Config, ConfigType

\* The cache after a new key, and after one that was found is put in front.
LEMMA EmplacedType ==
  ASSUME NEW list \in Seq(ConfigType), NEW key \in ConfigType
  PROVE  /\ Emplaced(list, key) \in Seq(ConfigType)
         /\ \E i \in DOMAIN Emplaced(list, key) : Emplaced(list, key)[i] = key
<1>1. CASE Contains(list, key)
  <2>1. PICK i \in 1..Len(list) : list[i] = key
    BY <1>1 DEF Contains
  <2>2. Emplaced(list, key) = list
    BY <1>1 DEF Emplaced
  <2> QED BY <2>1, <2>2
<1>2. CASE ~Contains(list, key)
  <2> DEFINE whole == <<key>> \o list
             m == IF Len(list) + 1 > Capacity THEN Capacity ELSE Len(list) + 1
  <2>1. /\ whole \in Seq(ConfigType) /\ Len(whole) = Len(list) + 1 /\ whole[1] = key
        /\ m \in 1..Len(whole)
    BY NumbersAssumption
  <2>2. Emplaced(list, key) = SubSeq(whole, 1, m)
    BY <1>2 DEF Emplaced
  <2> HIDE DEF whole, m
  <2>3. SubSeq(whole, 1, m) \in Seq(ConfigType) /\ SubSeq(whole, 1, m)[1] = key
        /\ 1 \in DOMAIN SubSeq(whole, 1, m)
    BY <2>1
  <2> QED BY <2>2, <2>3
<1> QED BY <1>1, <1>2

LEMMA TouchedType ==
  ASSUME NEW list \in Seq(ConfigType), NEW i \in DOMAIN list
  PROVE  /\ Touched(list, i) \in Seq(ConfigType)
         /\ Touched(list, i) # <<>> /\ Touched(list, i)[1] = list[i]
         /\ \A j \in DOMAIN list : Contains(Touched(list, i), list[j])
<1> DEFINE before == SubSeq(list, 1, i - 1)
           after == SubSeq(list, i + 1, Len(list))
           others == before \o after
           new == <<list[i]>> \o others
<1>1. i \in 1..Len(list) /\ Len(list) \in Nat
  OBVIOUS
<1>2. /\ before \in Seq(ConfigType) /\ Len(before) = i - 1
      /\ \A j \in 1..(i - 1) : before[j] = list[j]
  BY <1>1
<1>3. /\ after \in Seq(ConfigType) /\ Len(after) = Len(list) - i
      /\ \A j \in 1..(Len(list) - i) : after[j] = list[j + i]
  BY <1>1
<1>4. Touched(list, i) = new
  BY DEF Touched, RemoveAt
<1> HIDE DEF before, after
<1>5. /\ others \in Seq(ConfigType) /\ Len(others) = Len(list) - 1
      /\ \A j \in 1..(i - 1) : others[j] = list[j]
      /\ \A j \in i..(Len(list) - 1) : others[j] = after[j - (i - 1)]
  BY <1>1, <1>2, <1>3
<1> HIDE DEF others
<1>6. /\ new \in Seq(ConfigType) /\ Len(new) = Len(list) /\ new[1] = list[i]
      /\ \A j \in 1..(Len(list) - 1) : new[j + 1] = others[j]
  BY <1>1, <1>5
<1> HIDE DEF new
<1>7. ASSUME NEW j \in DOMAIN list PROVE \E k \in 1..Len(new) : new[k] = list[j]
  <2>1. j \in 1..Len(list)
    BY <1>1
  <2>2. CASE j = i
    BY <1>1, <1>6, <2>2
  <2>3. CASE j < i
    <3>1. new[j + 1] = list[j] /\ j + 1 \in 1..Len(new)
      BY <1>1, <1>5, <1>6, <2>1, <2>3
    <3> QED BY <3>1
  <2>4. CASE j > i
    <3>1. /\ j - 1 \in i..(Len(list) - 1) /\ j - 1 \in 1..(Len(list) - 1)
          /\ j - i \in 1..(Len(list) - i)
      BY <1>1, <2>1, <2>4
    <3>2. new[(j - 1) + 1] = others[j - 1]
      BY <1>6, <3>1
    <3>3. others[j - 1] = after[(j - 1) - (i - 1)]
      BY <1>5, <3>1
    <3>4. after[j - i] = list[(j - i) + i]
      BY <1>3, <3>1
    <3>5. (j - 1) + 1 = j /\ (j - 1) - (i - 1) = j - i /\ (j - i) + i = j /\ j \in 1..Len(new)
      BY <1>1, <1>6, <2>1
    <3> QED BY <3>2, <3>3, <3>4, <3>5
  <2> QED BY <1>1, <2>1, <2>2, <2>3, <2>4
<1>8. new # <<>>
  BY <1>1, <1>6
<1> QED BY <1>4, <1>6, <1>7, <1>8 DEF Contains

-----------------------------------------------------------------------------
LEMMA InitInv == Init => IInv /\ RefInv
<1> SUFFICES ASSUME Init PROVE IInv /\ RefInv
  OBVIOUS
<1>1. TypeOK
  <2>1. cache \in Seq(ConfigType) /\ DOMAIN best = {}
    BY DEF Init
  <2>2. /\ throws \in MayThrow /\ accuracy \in Accuracy /\ src \in PointSet /\ trg \in PointSet
        /\ weights = None /\ asked = None /\ srcTree = None /\ trgTree = None
        /\ far = None /\ op = None
    BY AccuracyAssumption DEF Init
  <2>3. {srcLevel, trgLevel, srcDepth, trgDepth} \subseteq Nat
    BY DEF Init
  <2>4. dirty \in BOOLEAN /\ pc \in Steps /\ {m2lLists, p2pLists} \subseteq {"none", "present", "gone"}
    BY DEF Init, Steps
  <2>5. config \in ConfigType /\ chosen \in ConfigType
    BY DefaultType DEF Init
  <2> QED BY <2>1, <2>2, <2>3, <2>4, <2>5 DEF TypeOK
<1>2. OrderInv /\ BestInv
  BY DefaultType DEF Init, OrderInv, BestInv, EntriesFit, WithTrees, Passing, BuildSteps
<1>3. TreeInv /\ ListsInv /\ FreshInv
  BY DEF Init, TreeInv, Passing, ListsInv, FreshInv
<1>4. RefInv
  BY DEF Init, RefInv
<1> QED BY <1>1, <1>2, <1>3, <1>4 DEF IInv

\* Every variable keeps its type; the heights and levels are those of sets of points
\* that are not empty.
LEMMA NextType == ASSUME IInv, [Next]_vars PROVE TypeOK'
<1> USE DEF IInv, userVars, orders, srcOrder, trgOrder, fmmVars, treeVars, lists
<1>1. CASE Setters /\ UNCHANGED throws
  <2>1. ASSUME NEW acc \in Accuracy, SetAccuracy(acc) PROVE TypeOK'
    BY <1>1, <2>1 DEF SetAccuracy, TypeOK, Steps
  <2>2. ASSUME NEW p \in PointSet, SetSourcePoints(p) PROVE TypeOK'
    BY <1>1, <2>2 DEF SetSourcePoints, ListsOutlive, Outlived, TypeOK, Steps
  <2>3. ASSUME NEW p \in PointSet, SetTargetPoints(p) PROVE TypeOK'
    BY <1>1, <2>3 DEF SetTargetPoints, NoLists, TypeOK, Steps
  <2>4. ASSUME NEW w \in Weights, SetWeights(w) PROVE TypeOK'
    <3>1. srcTree # None => [srcTree EXCEPT !.weights = w] \in TreeType
      BY DEF TypeOK, TreeType
    <3> QED BY <1>1, <2>4, <3>1 DEF SetWeights, TypeOK, Steps
  <2> QED BY <1>1, <2>1, <2>2, <2>3, <2>4 DEF Setters
<1>2. CASE (Evaluate \/ PrepareDirect) /\ UNCHANGED throws
  BY <1>2, DefaultType DEF Evaluate, PrepareDirect, NoLists, TypeOK, Steps
<1>3. CASE Sort /\ UNCHANGED throws
  <2>1. Height \in Nat
    BY <1>3, HeightType DEF Sort, PairCount, OrderInv
  <2>2. Deeper(srcLevel) \in Nat /\ Deeper(trgLevel) \in Nat
    BY <2>1 DEF Deeper, TypeOK
  <2>3. Sorted(srcLevel, srcDepth) \in Nat /\ Sorted(trgLevel, trgDepth) \in Nat
    BY <2>1 DEF Sorted, TypeOK
  <2> QED BY <1>3, <2>2, <2>3 DEF Sort, TypeOK, Steps
<1>4. CASE (LookUp \/ Search \/ SearchFails) /\ UNCHANGED throws
  <2>1. Height \in Nat
    BY <1>4, HeightType DEF LookUp, Search, SearchFails, OrderInv, WithTrees, Passing, BuildSteps
  <2>2. ASSUME NEW c \in ConfigType, best' = WithEntry(c)
        PROVE  \A ht \in DOMAIN best' : best'[ht].config \in ConfigType
    BY <2>2 DEF WithEntry, Entry, TypeOK
  <2>3. CASE LookUp
    BY <1>4, <2>3 DEF LookUp, TypeOK, Steps
  <2>4. CASE Search
    <3>1. PICK c \in Found(Height, accuracy) : best' = WithEntry(c) /\ chosen' = c
      BY <2>4 DEF Search
    <3>2. c \in ConfigType
      BY <2>1, FoundType DEF TypeOK
    <3> QED BY <1>4, <2>2, <2>4, <3>1, <3>2 DEF Search, TypeOK, Steps
  <2>5. CASE SearchFails
    BY <1>4, <2>2, <2>5, DefaultType DEF SearchFails, TypeOK, Steps
  <2> QED BY <1>4, <2>3, <2>4, <2>5
<1>5. CASE ChangeInterpolator /\ UNCHANGED throws
  <2> DEFINE list == Emplaced(cache, chosen)
             i == CHOOSE i \in DOMAIN list : list[i] = chosen
  <2>1. list \in Seq(ConfigType) /\ i \in DOMAIN list
    BY EmplacedType DEF TypeOK
  <2>2. cache' = Touched(list, i)
    BY <1>5 DEF ChangeInterpolator
  <2> HIDE DEF list, i
  <2>3. cache' \in Seq(ConfigType)
    BY <2>1, <2>2, TouchedType
  <2> QED BY <1>5, <2>3 DEF ChangeInterpolator, TypeOK, Steps
<1>6. CASE (KeepInterpolator \/ MakeFarField \/ MakeOperator) /\ UNCHANGED throws
  BY <1>6 DEF KeepInterpolator, MakeFarField, MakeOperator, NoLists, TypeOK, Steps
<1>7. CASE (MakeSourceTree \/ MakeTargetTree) /\ UNCHANGED throws
  <2>1. Height \in Nat
    BY <1>7, HeightType DEF MakeSourceTree, MakeTargetTree, OrderInv, WithTrees, Passing, BuildSteps
  <2>2. Tree(src, srcDepth, weights) \in TreeType /\ Tree(trg, trgDepth, None) \in TreeType
    BY <2>1 DEF Tree, TreeType, TypeOK, ConfigType
  <2> QED BY <1>7, <2>2 DEF MakeSourceTree, MakeTargetTree, TypeOK, Steps
<1>8. CASE Upward /\ UNCHANGED throws
  <2>1. srcTree \in TreeType
    BY <1>8 DEF Upward, TreeInv, Passing, TypeOK
  <2>2. [srcTree EXCEPT !.multipoles = srcTree.weights] \in TreeType
    BY <2>1 DEF TreeType
  <2> QED BY <1>8, <2>1, <2>2 DEF Upward, TypeOK, Steps
<1>9. CASE (BuildM2LLists \/ BuildP2PLists \/ Downward) /\ UNCHANGED throws
  BY <1>9 DEF BuildM2LLists, BuildP2PLists, Built, Downward, TypeOK, Steps
<1>11. CASE (Direct \/ Release \/ Throw) /\ UNCHANGED throws
  BY <1>11, DefaultType DEF Direct, Release, NoLists, Throw, TypeOK, Steps
<1>10. CASE UNCHANGED vars
  BY <1>10 DEF vars, TypeOK
<1> QED BY <1>1, <1>2, <1>3, <1>4, <1>5, <1>6, <1>7, <1>8, <1>9, <1>10, <1>11 DEF Next

\* The levels stay the true ones: setters reset both, and sorting is deep enough for
\* the trees that follow.
LEMMA NextOrder == ASSUME IInv, [Next]_vars PROVE OrderInv'
<1> USE DEF IInv, userVars, orders, srcOrder, trgOrder, fmmVars, treeVars, lists
<1>1. CASE Setters /\ UNCHANGED throws
  BY <1>1 DEF Setters, SetAccuracy, SetSourcePoints, SetTargetPoints, SetWeights,
              OrderInv, WithTrees, Passing, BuildSteps
<1>2. CASE (Evaluate \/ PrepareDirect) /\ UNCHANGED throws
  BY <1>2, DefaultType DEF Evaluate, PrepareDirect, OrderInv, WithTrees, Passing, BuildSteps
<1>3. CASE Sort /\ UNCHANGED throws
  <2>1. Height \in Nat /\ srcLevel \in Nat /\ trgLevel \in Nat /\ PairCount >= Threshold
    BY <1>3, HeightType DEF Sort, PairCount, TypeOK
  <2>2. Height' = Height /\ PairCount' = PairCount /\ pc' = "search"
    BY <1>3 DEF Sort, Height, PairCount
  <2>3. srcLevel' = srcDepth' /\ trgLevel' = trgDepth'
    BY <1>3 DEF Sort, Deeper, Sorted, OrderInv
  <2>4. srcLevel' >= Height - 1 /\ trgLevel' >= Height - 1
    BY <1>3, <2>1 DEF Sort, Deeper
  <2> QED BY <2>1, <2>2, <2>3, <2>4 DEF OrderInv
<1>4. CASE (LookUp \/ Search \/ SearchFails \/ KeepInterpolator \/ ChangeInterpolator)
        /\ UNCHANGED throws
  BY <1>4 DEF LookUp, Search, SearchFails, KeepInterpolator, ChangeInterpolator,
              OrderInv, WithTrees, Passing, BuildSteps, Height, PairCount
<1>5. CASE (MakeFarField \/ MakeOperator \/ MakeSourceTree \/ MakeTargetTree) /\ UNCHANGED throws
  BY <1>5 DEF MakeFarField, MakeOperator, MakeSourceTree, MakeTargetTree,
              OrderInv, WithTrees, Passing, BuildSteps, Height, PairCount
<1>6. CASE (Upward \/ BuildM2LLists \/ BuildP2PLists \/ Downward) /\ UNCHANGED throws
  BY <1>6 DEF Upward, BuildM2LLists, BuildP2PLists, Downward,
              OrderInv, WithTrees, Passing, BuildSteps, Height, PairCount
<1>8. CASE (Direct \/ Release \/ Throw) /\ UNCHANGED throws
  BY <1>8 DEF Direct, Release, Throw, OrderInv, WithTrees, Passing, BuildSteps, Height, PairCount
<1>7. CASE UNCHANGED vars
  BY <1>7 DEF vars, OrderInv, WithTrees, Passing, Height, PairCount
<1> QED BY <1>1, <1>2, <1>3, <1>4, <1>5, <1>6, <1>7, <1>8 DEF Next

\* Setters that change what best_config_ depends on clear it, and evaluate takes its
\* configuration from there or puts it there.
LEMMA NextBest == ASSUME IInv, [Next]_vars PROVE BestInv'
<1> USE DEF IInv, userVars, orders, srcOrder, trgOrder, fmmVars, treeVars, lists
<1>1. CASE Setters /\ UNCHANGED throws
  BY <1>1 DEF Setters, SetAccuracy, SetSourcePoints, SetTargetPoints, SetWeights,
              BestInv, Passing, EntriesFit, BuildSteps, Entry
<1>2. CASE (Evaluate \/ PrepareDirect \/ Sort) /\ UNCHANGED throws
  BY <1>2, DefaultType DEF Evaluate, PrepareDirect, Sort, BestInv, Passing, EntriesFit, BuildSteps, Entry
<1>3. CASE LookUp /\ UNCHANGED throws
  BY <1>3 DEF LookUp, BestInv, Passing, EntriesFit, BuildSteps, Entry, Height
<1>4. ASSUME NEW c \in ConfigType, best' = WithEntry(c), c.tree_height \in {0, Height},
             UNCHANGED userVars
      PROVE  EntriesFit' /\ (Height \in DOMAIN best)' /\ (best[Height].config)' = c
  <2>1. Height' = Height
    BY <1>4 DEF Height
  <2>2. DOMAIN best' = DOMAIN best \cup {Height} /\ best'[Height] = Entry(c)
    BY <1>4 DEF WithEntry
  <2>3. \A ht \in DOMAIN best \ {Height} : best'[ht] = best[ht]
    BY <1>4 DEF WithEntry
  <2>4. ASSUME NEW ht \in DOMAIN best'
        PROVE  best'[ht] = [config |-> best'[ht].config, accuracy |-> accuracy, src |-> src]
               /\ best'[ht].config.tree_height \in {0, ht}
    <3>1. CASE ht = Height
      BY <1>4, <2>2, <3>1 DEF Entry
    <3>2. CASE ht # Height
      BY <2>2, <2>3, <3>2 DEF BestInv, Passing, EntriesFit, Entry
    <3> QED BY <3>1, <3>2
  <2>5. EntriesFit'
    BY <1>4, <2>4 DEF EntriesFit, Entry
  <2> QED BY <2>1, <2>2, <2>5 DEF Entry
<1>5. CASE (Search \/ SearchFails) /\ UNCHANGED throws
  <2>1. Height \in Nat
    BY <1>5, HeightType DEF Search, SearchFails, OrderInv, WithTrees, Passing, BuildSteps
  <2>2. CASE Search
    <3>1. PICK c \in Found(Height, accuracy) : best' = WithEntry(c) /\ chosen' = c
      BY <2>2 DEF Search
    <3>2. c \in ConfigType /\ c.tree_height = Height
      BY <2>1, FoundType DEF TypeOK
    <3>3. UNCHANGED userVars /\ pc' = "configure"
      BY <2>2 DEF Search
    <3>4. EntriesFit' /\ (Height \in DOMAIN best)' /\ (best[Height].config)' = chosen'
      BY <1>4, <3>1, <3>2, <3>3
    <3> QED BY <3>3, <3>4 DEF BestInv, Passing, BuildSteps
  <2>3. CASE SearchFails
    <3>1. best' = WithEntry(Default) /\ UNCHANGED userVars /\ pc' = "idle"
      BY <2>3 DEF SearchFails
    <3>2. EntriesFit'
      BY <1>4, <3>1, DefaultType
    <3> QED BY <3>1, <3>2 DEF BestInv, Passing, BuildSteps
  <2> QED BY <1>5, <2>2, <2>3
<1>6. CASE (KeepInterpolator \/ ChangeInterpolator \/ MakeFarField) /\ UNCHANGED throws
  BY <1>6 DEF KeepInterpolator, ChangeInterpolator, MakeFarField, BestInv, Passing, EntriesFit,
    BuildSteps, Entry, Height
<1>7. CASE (MakeOperator \/ MakeSourceTree \/ MakeTargetTree) /\ UNCHANGED throws
  BY <1>7 DEF MakeOperator, MakeSourceTree, MakeTargetTree, BestInv, Passing, EntriesFit, BuildSteps,
    Entry, Height
<1>8. CASE (Upward \/ BuildM2LLists \/ BuildP2PLists \/ Downward) /\ UNCHANGED throws
  BY <1>8 DEF Upward, BuildM2LLists, BuildP2PLists, Downward,
              BestInv, Passing, EntriesFit, BuildSteps, Entry, Height
<1>10. CASE (Direct \/ Release \/ Throw) /\ UNCHANGED throws
  BY <1>10, DefaultType DEF Direct, Release, Throw, BestInv, Passing, EntriesFit, BuildSteps, Entry, Height
<1>9. CASE UNCHANGED vars
  BY <1>9 DEF vars, BestInv, Passing, EntriesFit, Entry, Height
<1> QED BY <1>1, <1>2, <1>3, <1>5, <1>6, <1>7, <1>8, <1>9, <1>10 DEF Next

\* A tree goes when its points or the configuration change; otherwise it stays, and a
\* new one is built for the configuration over what has just been sorted.
LEMMA NextTree == ASSUME IInv, [Next]_vars PROVE TreeInv'
<1> USE DEF IInv, userVars, orders, srcOrder, trgOrder, fmmVars, treeVars, lists
<1>1. CASE Setters /\ UNCHANGED throws
  <2>1. ASSUME NEW acc \in Accuracy, SetAccuracy(acc) PROVE TreeInv'
    BY <1>1, <2>1 DEF SetAccuracy, TreeInv, Passing, TreeFits
  <2>2. ASSUME NEW p \in PointSet, SetSourcePoints(p) PROVE TreeInv'
    BY <1>1, <2>2 DEF SetSourcePoints, TreeInv, Passing, TreeFits
  <2>3. ASSUME NEW p \in PointSet, SetTargetPoints(p) PROVE TreeInv'
    BY <1>1, <2>3 DEF SetTargetPoints, TreeInv, Passing, TreeFits
  <2>4. ASSUME NEW w \in Weights, SetWeights(w) PROVE TreeInv'
    <3>1. CASE srcTree = None
      BY <2>4, <3>1 DEF SetWeights, TreeInv, Passing, TreeFits
    <3>2. CASE srcTree # None
      <4> DEFINE t == [srcTree EXCEPT !.weights = w]
      <4>1. srcTree \in TreeType
        BY <3>2 DEF TypeOK
      <4>2. /\ t.points = srcTree.points /\ t.depth = srcTree.depth
            /\ t.height = srcTree.height /\ t.order = srcTree.order
        BY <4>1 DEF TreeType
      <4>3. srcTree' = t /\ dirty' /\ pc' = "idle"
            /\ UNCHANGED <<src, trg, config, trgTree>>
        BY <2>4, <3>2 DEF SetWeights
      <4> HIDE DEF t
      <4> QED BY <3>2, <4>2, <4>3 DEF TreeInv, Passing, TreeFits
    <3> QED BY <3>1, <3>2
  <2> QED BY <1>1, <2>1, <2>2, <2>3, <2>4 DEF Setters
<1>2. CASE (Evaluate \/ PrepareDirect \/ Sort) /\ UNCHANGED throws
  BY <1>2, DefaultType DEF Evaluate, PrepareDirect, Sort, TreeInv, Passing, TreeFits
<1>3. CASE (LookUp \/ Search \/ SearchFails) /\ UNCHANGED throws
  BY <1>3 DEF LookUp, Search, SearchFails, TreeInv, Passing, TreeFits
<1>4. CASE (KeepInterpolator \/ ChangeInterpolator \/ MakeFarField \/ MakeOperator)
        /\ UNCHANGED throws
  BY <1>4 DEF KeepInterpolator, ChangeInterpolator, MakeFarField, MakeOperator, TreeInv, Passing, TreeFits
<1>5. ASSUME NEW p \in PointSet, NEW k \in Nat, NEW w, k >= Height - 1,
             pc \in {"sourceTree", "targetTree"}
      PROVE  TreeFits(Tree(p, k, w), p)
  <2>1. chosen = config /\ config.tree_height \in {0, Height}
    BY <1>5 DEF BestInv, Passing, EntriesFit, BuildSteps
  <2> QED BY <1>5, <2>1 DEF TreeFits, Tree
<1>6. CASE MakeSourceTree /\ UNCHANGED throws
  <2>1. srcDepth \in Nat /\ srcDepth >= Height - 1 /\ src \in PointSet
    BY <1>6 DEF MakeSourceTree, OrderInv, WithTrees, Passing, BuildSteps, TypeOK
  <2>2. TreeFits(Tree(src, srcDepth, weights), src)
    BY <1>5, <1>6, <2>1 DEF MakeSourceTree
  <2>3. Tree(src, srcDepth, weights) # None
    <3>1. Tree(src, srcDepth, weights) \in TreeType
      <4>1. Height \in Nat
        BY <1>6, HeightType DEF MakeSourceTree, OrderInv, WithTrees, Passing, BuildSteps
      <4> QED BY <2>1, <4>1 DEF Tree, TreeType, TypeOK, ConfigType
    <3> QED BY <3>1, NoneAssumption
  <2>4. CASE srcTree = None
    <3>1. srcTree' = Tree(src, srcDepth, weights) /\ dirty' /\ pc' = "targetTree"
          /\ UNCHANGED <<src, trg, config, trgTree>>
      BY <1>6, <2>4 DEF MakeSourceTree
    <3>2. TreeFits(srcTree, src)' /\ srcTree' # None
      BY <2>2, <2>3, <3>1 DEF TreeFits
    <3>3. (trgTree # None => TreeFits(trgTree, trg))'
      BY <3>1 DEF TreeInv, Passing, TreeFits
    <3> QED BY <3>1, <3>2, <3>3 DEF TreeInv, Passing
  <2>5. CASE srcTree # None
    BY <1>6, <2>5 DEF MakeSourceTree, TreeInv, Passing, TreeFits
  <2> QED BY <2>4, <2>5
<1>7. CASE MakeTargetTree /\ UNCHANGED throws
  <2>1. trgDepth \in Nat /\ trgDepth >= Height - 1 /\ trg \in PointSet
    BY <1>7 DEF MakeTargetTree, OrderInv, WithTrees, Passing, BuildSteps, TypeOK
  <2>2. TreeFits(Tree(trg, trgDepth, None), trg)
    BY <1>5, <1>7, <2>1 DEF MakeTargetTree
  <2>3. Tree(trg, trgDepth, None) # None
    <3>1. Tree(trg, trgDepth, None) \in TreeType
      <4>1. Height \in Nat
        BY <1>7, HeightType DEF MakeTargetTree, OrderInv, WithTrees, Passing, BuildSteps
      <4> QED BY <2>1, <4>1 DEF Tree, TreeType, TypeOK, ConfigType
    <3> QED BY <3>1, NoneAssumption
  <2>4. /\ pc = "targetTree" /\ pc' = "compute" /\ UNCHANGED <<src, trg, config, srcTree, dirty>>
        /\ trgTree' = IF trgTree = None THEN Tree(trg, trgDepth, None) ELSE trgTree
    BY <1>7 DEF MakeTargetTree
  <2>5. trgTree' # None /\ TreeFits(trgTree, trg)'
    BY <2>2, <2>3, <2>4 DEF TreeInv, Passing, TreeFits
  <2>6. (srcTree # None /\ TreeFits(srcTree, src))'
    BY <2>4 DEF TreeInv, Passing, TreeFits
  <2> QED BY <2>4, <2>5, <2>6 DEF TreeInv, Passing
<1>8. CASE Upward /\ UNCHANGED throws
  <2> DEFINE t == [srcTree EXCEPT !.multipoles = srcTree.weights]
  <2>1. srcTree \in TreeType /\ srcTree # None /\ trgTree # None
    BY <1>8 DEF Upward, TreeInv, Passing, TypeOK
  <2>2. /\ t.points = srcTree.points /\ t.depth = srcTree.depth /\ t.height = srcTree.height
        /\ t.order = srcTree.order /\ t.multipoles = t.weights
    BY <2>1 DEF TreeType
  <2>3. t \in TreeType
    BY <2>1 DEF TreeType
  <2>4. t # None
    BY <2>3, NoneAssumption
  <2>5. /\ srcTree' = IF dirty THEN t ELSE srcTree
        /\ dirty' = FALSE /\ pc' = "m2l" /\ UNCHANGED <<src, trg, config, trgTree>>
    BY <1>8 DEF Upward
  <2> HIDE DEF t
  <2>6. (srcTree # None /\ TreeFits(srcTree, src) /\ srcTree.multipoles = srcTree.weights)'
    BY <2>1, <2>2, <2>4, <2>5 DEF TreeInv, Passing, TreeFits
  <2>7. (trgTree # None /\ TreeFits(trgTree, trg))'
    BY <2>1, <2>5 DEF TreeInv, Passing, TreeFits
  <2> QED BY <2>5, <2>6, <2>7 DEF TreeInv, Passing
<1>9. CASE (BuildM2LLists \/ BuildP2PLists \/ Downward) /\ UNCHANGED throws
  BY <1>9 DEF BuildM2LLists, BuildP2PLists, Downward, TreeInv, Passing, TreeFits
<1>11. CASE (Direct \/ Release \/ Throw) /\ UNCHANGED throws
  BY <1>11 DEF Direct, Release, Throw, TreeInv, Passing, TreeFits
<1>10. CASE UNCHANGED vars
  BY <1>10 DEF vars, TreeInv, Passing, TreeFits
<1> QED BY <1>1, <1>2, <1>3, <1>4, <1>6, <1>7, <1>8, <1>9, <1>10, <1>11 DEF Next

\* Lists are built into the source tree that is there.  They outlive it only in a target
\* tree that a call left behind, which it does only if it throws once it has them.
LEMMA NextLists == ASSUME IInv, [Next]_vars PROVE ListsInv'
<1> USE DEF IInv, userVars, orders, srcOrder, trgOrder, fmmVars, treeVars, lists, WithLists
<1>1. CASE Setters /\ UNCHANGED throws
  BY <1>1 DEF Setters, SetAccuracy, SetSourcePoints, SetTargetPoints, SetWeights,
              ListsOutlive, Outlived, NoLists, ListsInv
<1>2. CASE (Evaluate \/ PrepareDirect \/ Sort \/ LookUp \/ Search \/ SearchFails)
        /\ UNCHANGED throws
  BY <1>2 DEF Evaluate, PrepareDirect, Sort, LookUp, Search, SearchFails, NoLists, ListsInv
<1>3. CASE (KeepInterpolator \/ ChangeInterpolator \/ MakeFarField \/ MakeOperator)
        /\ UNCHANGED throws
  BY <1>3 DEF KeepInterpolator, ChangeInterpolator, MakeFarField, MakeOperator, NoLists, ListsInv
<1>4. CASE (MakeSourceTree \/ MakeTargetTree \/ Upward) /\ UNCHANGED throws
  BY <1>4 DEF MakeSourceTree, MakeTargetTree, Upward, ListsInv
<1>5. CASE (BuildM2LLists \/ BuildP2PLists \/ Downward) /\ UNCHANGED throws
  BY <1>5 DEF BuildM2LLists, BuildP2PLists, Built, Downward, ListsInv
<1>6. CASE (Direct \/ Release) /\ UNCHANGED throws
  BY <1>6 DEF Direct, Release, NoLists, ListsInv
<1>7. CASE Throw /\ UNCHANGED throws
  BY <1>7 DEF Throw, ListsInv
<1>8. CASE UNCHANGED vars
  BY <1>8 DEF vars, ListsInv
<1> QED BY <1>1, <1>2, <1>3, <1>4, <1>5, <1>6, <1>7, <1>8 DEF Next

\* If no call throws while there is a source tree, there is none when the setters are
\* called, and the weights go to the particles, from which the next tree takes them.
LEMMA NextFresh == ASSUME IInv, [Next]_vars PROVE FreshInv'
<1> USE DEF IInv, userVars, orders, srcOrder, trgOrder, fmmVars, treeVars, lists, WithSourceTree
<1>1. CASE Setters /\ UNCHANGED throws
  BY <1>1 DEF Setters, SetAccuracy, SetSourcePoints, SetTargetPoints, SetWeights, FreshInv
<1>2. CASE (Evaluate \/ PrepareDirect \/ Sort \/ LookUp \/ Search \/ SearchFails)
        /\ UNCHANGED throws
  BY <1>2 DEF Evaluate, PrepareDirect, Sort, LookUp, Search, SearchFails, FreshInv
<1>3. CASE (KeepInterpolator \/ ChangeInterpolator \/ MakeFarField \/ MakeOperator)
        /\ UNCHANGED throws
  BY <1>3 DEF KeepInterpolator, ChangeInterpolator, MakeFarField, MakeOperator, FreshInv
<1>4. CASE (MakeSourceTree \/ MakeTargetTree) /\ UNCHANGED throws
  BY <1>4 DEF MakeSourceTree, MakeTargetTree, Tree, FreshInv
<1>5. CASE Upward /\ UNCHANGED throws
  <2>1. srcTree \in TreeType
    BY <1>5 DEF Upward, TreeInv, Passing, TypeOK
  <2>2. [srcTree EXCEPT !.multipoles = srcTree.weights].weights = srcTree.weights
    BY <2>1 DEF TreeType
  <2>3. srcTree # None
    BY <1>5 DEF Upward, TreeInv, Passing
  <2> QED BY <1>5, <2>2, <2>3 DEF Upward, FreshInv
<1>6. CASE (BuildM2LLists \/ BuildP2PLists \/ Downward) /\ UNCHANGED throws
  BY <1>6 DEF BuildM2LLists, BuildP2PLists, Downward, FreshInv
<1>8. CASE (Direct \/ Release \/ Throw) /\ UNCHANGED throws
  BY <1>8 DEF Direct, Release, Throw, FreshInv
<1>7. CASE UNCHANGED vars
  BY <1>7 DEF vars, FreshInv
<1> QED BY <1>1, <1>2, <1>3, <1>4, <1>5, <1>6, <1>7, <1>8 DEF Next

\* The new interpolator is put in front of the one in use, which stays in the cache:
\* it was the most recent one, and there is room for two.
LEMMA EmplacedKeepsFirst ==
  ASSUME NEW list \in Seq(ConfigType), NEW key \in ConfigType, list # <<>>, Capacity >= 2
  PROVE  \E j \in DOMAIN Emplaced(list, key) : Emplaced(list, key)[j] = list[1]
<1>1. Len(list) \in Nat /\ Len(list) >= 1 /\ Capacity \in Nat
  BY NumbersAssumption
<1>2. CASE Contains(list, key)
  <2>1. Emplaced(list, key) = list
    BY <1>2 DEF Emplaced
  <2> QED BY <1>1, <2>1
<1>3. CASE ~Contains(list, key)
  <2> DEFINE whole == <<key>> \o list
             m == IF Len(list) + 1 > Capacity THEN Capacity ELSE Len(list) + 1
  <2>1. /\ whole \in Seq(ConfigType) /\ Len(whole) = Len(list) + 1 /\ whole[2] = list[1]
        /\ m \in 2..Len(whole)
    BY <1>1
  <2>2. Emplaced(list, key) = SubSeq(whole, 1, m)
    BY <1>3 DEF Emplaced
  <2> HIDE DEF whole, m
  <2>3. SubSeq(whole, 1, m)[2] = whole[2] /\ 2 \in DOMAIN SubSeq(whole, 1, m)
    BY <2>1
  <2> QED BY <2>1, <2>2, <2>3
<1> QED BY <1>2, <1>3

\* Far field and operator change together with the configuration, and only a new
\* interpolator that has been put in front of theirs can take their place.
LEMMA NextRef ==
  ASSUME InterpolatorAssumptions, IInv, RefInv, [Next]_vars
  PROVE  RefInv'
<1> USE DEF IInv, userVars, orders, srcOrder, trgOrder, fmmVars, treeVars, lists
<1>1. CASE Setters /\ UNCHANGED throws
  BY <1>1 DEF Setters, SetAccuracy, SetSourcePoints, SetTargetPoints, SetWeights, RefInv, InUse
<1>2. CASE (Evaluate \/ PrepareDirect \/ Sort) /\ UNCHANGED throws
  BY <1>2 DEF Evaluate, PrepareDirect, Sort, RefInv, InUse
<1>3. CASE (LookUp \/ Search \/ SearchFails \/ KeepInterpolator) /\ UNCHANGED throws
  BY <1>3 DEF LookUp, Search, SearchFails, KeepInterpolator, RefInv, InUse
<1>4. CASE ChangeInterpolator /\ UNCHANGED throws
  <2> DEFINE list == Emplaced(cache, chosen)
             i == CHOOSE i \in DOMAIN list : list[i] = chosen
  <2>1. list \in Seq(ConfigType) /\ i \in DOMAIN list /\ list[i] = chosen
    BY EmplacedType DEF TypeOK
  <2>2. /\ cache' = Touched(list, i) /\ pc = "configure" /\ pc' = "farField"
        /\ UNCHANGED <<far, op, config, chosen>>
    BY <1>4 DEF ChangeInterpolator
  <2>3. cache # <<>> => \E j \in DOMAIN list : list[j] = cache[1]
    BY EmplacedKeepsFirst DEF TypeOK, InterpolatorAssumptions
  <2> HIDE DEF list, i
  <2>4. cache' # <<>> /\ cache'[1] = chosen
    BY <2>1, <2>2, TouchedType
  <2>5. cache # <<>> => Contains(cache', cache[1])
    BY <2>1, <2>2, <2>3, TouchedType
  <2>6. \/ far = None /\ op = None
        \/ InUse /\ cache # <<>> /\ cache[1] = config
    BY <2>2 DEF RefInv
  <2> QED BY <2>2, <2>4, <2>5, <2>6 DEF RefInv, InUse
<1>5. CASE (MakeFarField \/ MakeOperator) /\ UNCHANGED throws
  BY <1>5 DEF MakeFarField, MakeOperator, RefInv, InUse
<1>6. CASE (MakeSourceTree \/ MakeTargetTree \/ Upward) /\ UNCHANGED throws
  BY <1>6 DEF MakeSourceTree, MakeTargetTree, Upward, RefInv, InUse
<1>7. CASE (BuildM2LLists \/ BuildP2PLists \/ Downward \/ Direct \/ Release)
        /\ UNCHANGED throws
  BY <1>7 DEF BuildM2LLists, BuildP2PLists, Downward, Direct, Release, RefInv, InUse
<1>8. CASE Throw /\ UNCHANGED throws
  <2>1. pc \notin {"farField", "operator"}
    BY <1>8 DEF Throw, TypeOK, InterpolatorAssumptions
  <2> QED BY <1>8, <2>1 DEF Throw, RefInv, InUse
<1>9. CASE UNCHANGED vars
  BY <1>9 DEF vars, RefInv, InUse
<1> QED BY <1>1, <1>2, <1>3, <1>4, <1>5, <1>6, <1>7, <1>8, <1>9 DEF Next

-----------------------------------------------------------------------------
\* The inductive invariant of the evaluator, whichever steps of evaluate may throw.
THEOREM Inductive == Spec => []IInv
<1>1. Init => IInv
  BY InitInv
<1>2. IInv /\ [Next]_vars => IInv'
  BY NextType, NextOrder, NextBest, NextTree, NextLists, NextFresh DEF IInv
<1> QED BY <1>1, <1>2, PTL DEF Spec

\* No sequence of setters, evaluations and exceptions takes a variable out of its type.
THEOREM TypeCorrect == Spec => []TypeOK
<1>1. IInv => TypeOK
  BY DEF IInv
<1> QED BY <1>1, Inductive, PTL

\* A tree is only ever built over particles that are in order down to its leaves, as
\* group_tree_view is told, and stays over those.
THEOREM SortedTrees == Spec => []TreesFromSortedParticles
<1>1. IInv => TreesFromSortedParticles
  BY DEF IInv, TreeInv, TreeFits, TreesFromSortedParticles
<1> QED BY <1>1, Inductive, PTL

\* A result is that of the latest weights, unless a call threw while there was a tree.
THEOREM Fresh == Spec => []WeightsFresh
<1>1. IInv => WeightsFresh
  <2> SUFFICES ASSUME IInv, throws \cap WithSourceTree = {}
               PROVE  /\ pc = "downward" => srcTree.weights = asked /\ srcTree.multipoles = asked
                      /\ pc = "compute" /\ config.tree_height = 0 => weights = asked
    BY DEF WeightsFresh
  <2> QED BY DEF IInv, TreeInv, Passing, FreshInv, WithSourceTree
<1> QED BY <1>1, Inductive, PTL

\* The passes never run with a configuration that was searched for another accuracy
\* or other source points.
THEOREM AccuracyAlways == Spec => []AccuracyMet
<1>1. IInv => AccuracyMet
  BY DEF IInv, BestInv, Passing, EntriesFit, AccuracyMet
<1> QED BY <1>1, Inductive, PTL

\* The interpolator in use stays in the cache, given room for two and no exception
\* between the two allocations that replace it.
THEOREM RefAlways == ASSUME InterpolatorAssumptions PROVE Spec => [](IInv /\ RefInv)
<1>1. Init => IInv /\ RefInv
  BY InitInv
<1>2. IInv /\ RefInv /\ [Next]_vars => (IInv /\ RefInv)'
  BY NextType, NextOrder, NextBest, NextTree, NextLists, NextFresh, NextRef DEF IInv
<1> QED BY <1>1, <1>2, PTL DEF Spec

\* The far field and the operator never refer to an interpolator that was evicted.
THEOREM NeverDangling == ASSUME InterpolatorAssumptions PROVE Spec => []NoDanglingInterpolator
<1>1. IInv /\ RefInv => NoDanglingInterpolator
  BY DEF IInv, RefInv, InUse, NoDanglingInterpolator, TypeOK, Contains
<1> QED BY <1>1, RefAlways, PTL

\* The passes run with the operator of the configuration and trees of its height and
\* order, over the present points and with the multipoles of the weights in the tree.
THEOREM Coherent == ASSUME InterpolatorAssumptions PROVE Spec => []PassesCoherent
<1>1. IInv /\ RefInv => PassesCoherent
  <2> SUFFICES ASSUME IInv, RefInv, pc = "downward"
               PROVE  /\ far = config /\ op = config /\ config.tree_height = Height
                      /\ \A t \in {srcTree, trgTree} : t.height = Height /\ t.order = config.order
                      /\ srcTree.points = src /\ trgTree.points = trg
                      /\ srcTree.multipoles = srcTree.weights
                      /\ throws \cap WithLists = {} => m2lLists = "present" /\ p2pLists = "present"
    BY DEF PassesCoherent
  <2>1. config.tree_height > 0 /\ config.tree_height = Height
    BY DEF IInv, BestInv, Passing, EntriesFit, TypeOK, ConfigType
  <2>2. far = config /\ op = config
    BY <2>1, DefaultType DEF RefInv, InUse
  <2>3. srcTree # None /\ trgTree # None /\ srcTree.multipoles = srcTree.weights
    BY DEF IInv, TreeInv, Passing
  <2>4. TreeFits(srcTree, src) /\ TreeFits(trgTree, trg)
    BY <2>3 DEF IInv, TreeInv
  <2>5. throws \cap WithLists = {} => m2lLists = "present" /\ p2pLists = "present"
    BY DEF IInv, ListsInv, TypeOK
  <2> QED BY <2>1, <2>2, <2>3, <2>4, <2>5 DEF TreeFits
<1> QED BY <1>1, RefAlways, PTL

-----------------------------------------------------------------------------
(* The symmetric evaluator.                                                *)

SymBuild == {"search", "configure", "farField", "operator", "tree"}
SymRunning == symPc \in {"passes", "potentials"} /\ symConfig.tree_height > 0

\* The level is the true one, and deep enough for a tree once the particles are sorted.
SymOrderInv ==
  /\ depth = level
  /\ symPc \in SymBuild => Size[points] >= PointsThreshold /\ level >= SymHeight - 1

\* As BestInv; a configuration keeps the height it was found for.
SymEntriesFit ==
  \A ht \in DOMAIN symBest :
    symBest[ht] = SymEntry(symBest[ht].config) /\ symBest[ht].config.tree_height \in {0, ht}
SymBestInv ==
  /\ SymEntriesFit
  /\ symPc \in SymBuild \ {"search"} =>
       SymHeight \in DOMAIN symBest /\ symBest[SymHeight].config = symChosen
  /\ symPc = "tree" => symChosen = symConfig
  /\ SymRunning => SymHeight \in DOMAIN symBest /\ symBest[SymHeight].config = symConfig

\* A tree that is there was built over the present points, sorted deep enough, with
\* the order of the present configuration.
SymTreeInv ==
  /\ tree # None => /\ tree.points = points /\ tree.height = SymHeight
                    /\ tree.order = symConfig.order /\ tree.depth >= tree.height - 1
  /\ SymRunning => tree # None

\* The weights are where evaluate looks for them, and the passes have used them.
SymFreshInv ==
  symThrows \cap {"passes", "potentials"} = {} =>
    /\ symWeights = symAsked
    /\ tree # None => symPc \in {"passes", "potentials"} /\ tree.weights = symAsked
    /\ symPc = "potentials" /\ SymRunning => tree.passed = tree.weights

SymInv == SymTypeOK /\ SymOrderInv /\ SymBestInv /\ SymTreeInv /\ SymFreshInv

\* Interpolator, far field and operator are those of the configuration, or they are
\* being replaced one after the other.
SymRefInv ==
  /\ symPc \notin {"farField", "operator"} /\ symConfig.tree_height > 0 =>
       interpolator = symConfig /\ symFar = symConfig /\ symOp = symConfig
  /\ symPc = "farField" => interpolator = symChosen
  /\ symPc = "operator" => interpolator = symChosen /\ symFar = symChosen

LEMMA SymHeightType ==
  ASSUME SymTypeOK, Size[points] >= PointsThreshold
  PROVE  SymHeight \in Nat
<1>1. Size[points] \in Nat /\ Size[points] > 0
  BY SizeAssumption, SymNumbersAssumption DEF SymTypeOK
<1> QED BY <1>1, HeightAssumption DEF SymHeight, SymTypeOK

LEMMA SymInitInv == SymInit => SymInv /\ SymRefInv
<1> SUFFICES ASSUME SymInit PROVE SymInv /\ SymRefInv
  OBVIOUS
<1>1. SymTypeOK
  <2>1. DOMAIN symBest = {} /\ level \in Nat /\ depth \in Nat
    BY DEF SymInit
  <2>2. /\ symThrows \in MayThrow /\ symAccuracy \in Accuracy /\ points \in PointSet
        /\ symWeights = None /\ symAsked = None /\ tree = None
        /\ interpolator = None /\ symFar = None /\ symOp = None /\ symPc = "idle"
    BY AccuracyAssumption DEF SymInit
  <2>3. symConfig \in ConfigType /\ symChosen \in ConfigType
    BY DefaultType DEF SymInit
  <2> QED BY <2>1, <2>2, <2>3 DEF SymTypeOK
<1>2. SymOrderInv /\ SymBestInv
  BY DefaultType DEF SymInit, SymOrderInv, SymBestInv, SymEntriesFit, SymBuild, SymRunning
<1>3. SymTreeInv /\ SymFreshInv
  BY DefaultType DEF SymInit, SymTreeInv, SymFreshInv, SymRunning
<1>4. SymRefInv
  BY DefaultType DEF SymInit, SymRefInv
<1> QED BY <1>1, <1>2, <1>3, <1>4 DEF SymInv

\* The tree that is there after MakeTree, and what is known of it.
LEMMA MadeTree ==
  ASSUME SymInv, MakeTree
  PROVE  /\ tree' \in SymTreeType /\ tree' # None
         /\ tree'.points = points /\ tree'.height = SymHeight
         /\ tree'.order = symConfig.order /\ tree'.depth >= tree'.height - 1
         /\ tree = None => tree'.weights = symWeights
<1> DEFINE new == [height |-> SymHeight, order |-> symChosen.order, points |-> points,
                   depth |-> depth, weights |-> symWeights, passed |-> None]
<1>1. symPc = "tree" /\ tree' = IF tree # None THEN tree ELSE new
  BY DEF MakeTree
<1>2. CASE tree # None
  BY <1>1, <1>2 DEF SymInv, SymTreeInv, SymTypeOK
<1>3. CASE tree = None
  <2>1. SymHeight \in Nat /\ depth \in Nat /\ depth >= SymHeight - 1
    BY <1>1, SymHeightType DEF SymInv, SymTypeOK, SymOrderInv, SymBuild
  <2>2. symChosen = symConfig /\ symChosen.order \in Nat
    BY <1>1 DEF SymInv, SymBestInv, SymTypeOK, ConfigType
  <2>3. new \in SymTreeType
    BY <2>1, <2>2 DEF SymInv, SymTypeOK, SymTreeType
  <2>4. tree' = new
    BY <1>1, <1>3
  <2> QED BY <2>1, <2>2, <2>3, <2>4, SymNoneAssumption
<1> QED BY <1>2, <1>3

\* New weights in a tree, or in the sums of its passes, leave the rest of it alone.
LEMMA TreeChanged ==
  ASSUME tree \in SymTreeType, NEW w \in Weights \cup {None}
  PROVE  /\ \A t \in {[tree EXCEPT !.weights = w], [tree EXCEPT !.passed = w]} :
              /\ t \in SymTreeType /\ t # None /\ t.points = tree.points
              /\ t.height = tree.height /\ t.order = tree.order /\ t.depth = tree.depth
         /\ [tree EXCEPT !.weights = w].weights = w
         /\ [tree EXCEPT !.passed = w].passed = w
         /\ [tree EXCEPT !.passed = w].weights = tree.weights
<1>1. /\ [tree EXCEPT !.weights = w] \in SymTreeType /\ [tree EXCEPT !.passed = w] \in SymTreeType
  BY DEF SymTreeType
<1> QED BY <1>1, SymNoneAssumption DEF SymTreeType

LEMMA SymNextType == ASSUME SymInv, [SymNext]_symVars PROVE SymTypeOK'
<1> USE DEF SymInv, symUserVars, symOrder, symFmmVars
<1>1. CASE SymSetters /\ UNCHANGED symThrows
  <2>1. ASSUME NEW acc \in Accuracy, SymSetAccuracy(acc) PROVE SymTypeOK'
    BY <1>1, <2>1 DEF SymSetAccuracy, SymTypeOK
  <2>2. ASSUME NEW p \in PointSet, SetPoints(p) PROVE SymTypeOK'
    BY <1>1, <2>2 DEF SetPoints, SymTypeOK
  <2>3. ASSUME NEW w \in Weights, SymSetWeights(w) PROVE SymTypeOK'
    <3>1. tree # None => [tree EXCEPT !.weights = w] \in SymTreeType
      BY TreeChanged DEF SymTypeOK
    <3> QED BY <1>1, <2>3, <3>1 DEF SymSetWeights, SymTypeOK
  <2> QED BY <1>1, <2>1, <2>2, <2>3 DEF SymSetters
<1>2. CASE (SymEvaluate \/ SymPrepareDirect) /\ UNCHANGED symThrows
  BY <1>2, DefaultType DEF SymEvaluate, SymPrepareDirect, SymTypeOK
<1>3. CASE SymSort /\ UNCHANGED symThrows
  <2>1. SymHeight \in Nat
    BY <1>3, SymHeightType DEF SymSort
  <2>2. level' \in Nat /\ depth' \in Nat
    BY <1>3, <2>1 DEF SymSort, SymTypeOK
  <2> QED BY <1>3, <2>2 DEF SymSort, SymTypeOK
<1>4. CASE (SymLookUp \/ SymSearch \/ SymSearchFails) /\ UNCHANGED symThrows
  <2>1. SymHeight \in Nat
    BY <1>4, SymHeightType DEF SymLookUp, SymSearch, SymSearchFails, SymOrderInv, SymBuild
  <2>2. ASSUME NEW c \in ConfigType, symBest' = SymWithEntry(c)
        PROVE  \A ht \in DOMAIN symBest' : symBest'[ht].config \in ConfigType
    BY <2>2 DEF SymWithEntry, SymEntry, SymTypeOK
  <2>3. CASE SymLookUp
    BY <1>4, <2>3 DEF SymLookUp, SymTypeOK
  <2>4. CASE SymSearch
    <3>1. PICK c \in Found(SymHeight, symAccuracy) : symBest' = SymWithEntry(c) /\ symChosen' = c
      BY <2>4 DEF SymSearch
    <3>2. c \in ConfigType
      BY <2>1, <3>1, FoundType DEF SymTypeOK
    <3> QED BY <1>4, <2>2, <2>4, <3>1, <3>2 DEF SymSearch, SymTypeOK
  <2>5. CASE SymSearchFails
    BY <1>4, <2>2, <2>5, DefaultType DEF SymSearchFails, SymTypeOK
  <2> QED BY <1>4, <2>3, <2>4, <2>5
<1>5. CASE (SymKeepInterpolator \/ SymChangeInterpolator) /\ UNCHANGED symThrows
  BY <1>5 DEF SymKeepInterpolator, SymChangeInterpolator, SymTypeOK
<1>6. CASE (SymMakeFarField \/ SymMakeOperator) /\ UNCHANGED symThrows
  BY <1>6 DEF SymMakeFarField, SymMakeOperator, SymTypeOK
<1>7. CASE MakeTree /\ UNCHANGED symThrows
  <2>1. tree' \in SymTreeType
    BY <1>7, MadeTree
  <2>2. /\ symPc' = "passes"
        /\ UNCHANGED <<symThrows, symUserVars, symOrder, symBest, symChosen, symFmmVars>>
    BY <1>7 DEF MakeTree
  <2> QED BY <2>1, <2>2 DEF SymTypeOK
<1>8. CASE Passes /\ UNCHANGED symThrows
  <2>1. tree' \in SymTreeType \cup {None}
    <3>1. CASE symConfig.tree_height > 0
      <4>1. tree \in SymTreeType
        BY <1>8, <3>1 DEF Passes, SymTreeInv, SymRunning, SymTypeOK
      <4>2. tree.weights \in Weights \cup {None}
        BY <4>1 DEF SymTreeType
      <4>3. [tree EXCEPT !.passed = tree.weights] \in SymTreeType
        BY <4>1, <4>2, TreeChanged
      <4> QED BY <1>8, <3>1, <4>3 DEF Passes
    <3>2. CASE ~(symConfig.tree_height > 0)
      BY <1>8, <3>2 DEF Passes, SymTypeOK
    <3> QED BY <3>1, <3>2
  <2>2. /\ symPc' = "potentials"
        /\ UNCHANGED <<symThrows, symUserVars, symOrder, symBest, symChosen, symFmmVars>>
    BY <1>8 DEF Passes
  <2> QED BY <2>1, <2>2 DEF SymTypeOK
<1>9. CASE (Finish \/ SymThrow) /\ UNCHANGED symThrows
  BY <1>9, DefaultType DEF Finish, SymThrow, SymTypeOK
<1>10. CASE UNCHANGED symVars
  BY <1>10 DEF symVars, SymTypeOK
<1> QED BY <1>1, <1>2, <1>3, <1>4, <1>5, <1>6, <1>7, <1>8, <1>9, <1>10 DEF SymNext

LEMMA SymNextOrder == ASSUME SymInv, [SymNext]_symVars PROVE SymOrderInv'
<1> USE DEF SymInv, symUserVars, symOrder, symFmmVars
<1>1. CASE (SymSetters \/ SymEvaluate \/ SymPrepareDirect) /\ UNCHANGED symThrows
  BY <1>1 DEF SymSetters, SymSetAccuracy, SetPoints, SymSetWeights, SymEvaluate,
              SymPrepareDirect, SymOrderInv, SymBuild
<1>2. CASE SymSort /\ UNCHANGED symThrows
  <2>1. SymHeight \in Nat /\ level \in Nat /\ Size[points] >= PointsThreshold
    BY <1>2, SymHeightType DEF SymSort, SymTypeOK
  <2>2. SymHeight' = SymHeight /\ UNCHANGED points
    BY <1>2 DEF SymSort, SymHeight
  <2> QED BY <1>2, <2>1, <2>2 DEF SymSort, SymOrderInv
<1>3. CASE (SymLookUp \/ SymSearch \/ SymSearchFails \/ SymKeepInterpolator \/ SymChangeInterpolator)
           /\ UNCHANGED symThrows
  BY <1>3 DEF SymLookUp, SymSearch, SymSearchFails, SymKeepInterpolator, SymChangeInterpolator,
              SymOrderInv, SymBuild, SymHeight
<1>4. CASE (SymMakeFarField \/ SymMakeOperator \/ MakeTree) /\ UNCHANGED symThrows
  BY <1>4 DEF SymMakeFarField, SymMakeOperator, MakeTree, SymOrderInv, SymBuild, SymHeight
<1>5. CASE (Passes \/ Finish \/ SymThrow) /\ UNCHANGED symThrows
  BY <1>5 DEF Passes, Finish, SymThrow, SymOrderInv, SymBuild
<1>6. CASE UNCHANGED symVars
  BY <1>6 DEF symVars, SymOrderInv, SymHeight
<1> QED BY <1>1, <1>2, <1>3, <1>4, <1>5, <1>6 DEF SymNext

\* Both setters that best_config_ depends on clear it.
LEMMA SymNextBest == ASSUME SymInv, [SymNext]_symVars PROVE SymBestInv'
<1> USE DEF SymInv, symUserVars, symOrder, symFmmVars
<1>1. CASE SymSetters /\ UNCHANGED symThrows
  BY <1>1 DEF SymSetters, SymSetAccuracy, SetPoints, SymSetWeights,
              SymBestInv, SymEntriesFit, SymBuild, SymRunning, SymEntry
<1>2. CASE (SymEvaluate \/ SymPrepareDirect \/ SymSort) /\ UNCHANGED symThrows
  BY <1>2, DefaultType DEF SymEvaluate, SymPrepareDirect, SymSort,
                           SymBestInv, SymEntriesFit, SymBuild, SymRunning, SymEntry
<1>3. CASE (SymLookUp \/ SymKeepInterpolator \/ SymChangeInterpolator \/ SymMakeFarField)
           /\ UNCHANGED symThrows
  BY <1>3 DEF SymLookUp, SymKeepInterpolator, SymChangeInterpolator, SymMakeFarField,
              SymBestInv, SymEntriesFit, SymBuild, SymRunning, SymEntry, SymHeight
<1>4. CASE (SymSearch \/ SymSearchFails) /\ UNCHANGED symThrows
  <2>1. SymHeight \in Nat
    BY <1>4, SymHeightType DEF SymSearch, SymSearchFails, SymOrderInv, SymBuild
  <2>2. SymHeight' = SymHeight /\ UNCHANGED <<symAccuracy, points, symConfig>>
    BY <1>4 DEF SymSearch, SymSearchFails, SymHeight
  <2>3. ASSUME NEW c \in ConfigType, symBest' = SymWithEntry(c), c.tree_height \in {0, SymHeight}
        PROVE  /\ SymEntriesFit' /\ SymHeight' \in DOMAIN symBest'
               /\ symBest'[SymHeight'].config = c
    <3>1. DOMAIN symBest' = DOMAIN symBest \cup {SymHeight}
      BY <2>3 DEF SymWithEntry
    <3>2. symBest'[SymHeight] = SymEntry(c) /\ symBest'[SymHeight].config = c
      BY <2>3 DEF SymWithEntry, SymEntry
    <3>3. \A ht \in DOMAIN symBest \ {SymHeight} : symBest'[ht] = symBest[ht]
      BY <2>3 DEF SymWithEntry
    <3>4. \A k : SymEntry(k)' = SymEntry(k)
      BY <2>2 DEF SymEntry
    <3> QED BY <2>2, <2>3, <3>1, <3>2, <3>3, <3>4 DEF SymBestInv, SymEntriesFit
  <2>4. CASE SymSearch
    <3>1. PICK c \in Found(SymHeight, symAccuracy) : symBest' = SymWithEntry(c) /\ symChosen' = c
      BY <2>4 DEF SymSearch
    <3>2. c \in ConfigType /\ c.tree_height = SymHeight
      BY <2>1, <3>1, FoundType DEF SymTypeOK
    <3>3. symPc' = "configure"
      BY <2>4 DEF SymSearch
    <3> QED BY <2>3, <3>1, <3>2, <3>3 DEF SymBestInv, SymBuild, SymRunning
  <2>5. CASE SymSearchFails
    <3>1. symBest' = SymWithEntry(Default) /\ symPc' = "idle"
      BY <2>5 DEF SymSearchFails
    <3> QED BY <2>3, <3>1, DefaultType DEF SymBestInv, SymBuild, SymRunning
  <2> QED BY <1>4, <2>4, <2>5
<1>5. CASE (SymMakeOperator \/ MakeTree \/ Passes) /\ UNCHANGED symThrows
  BY <1>5 DEF SymMakeOperator, MakeTree, Passes,
              SymBestInv, SymEntriesFit, SymBuild, SymRunning, SymEntry, SymHeight
<1>6. CASE (Finish \/ SymThrow) /\ UNCHANGED symThrows
  BY <1>6 DEF Finish, SymThrow, SymBestInv, SymEntriesFit, SymBuild, SymRunning, SymEntry
<1>7. CASE UNCHANGED symVars
  BY <1>7 DEF symVars, SymBestInv, SymEntriesFit, SymRunning, SymEntry, SymHeight
<1> QED BY <1>1, <1>2, <1>3, <1>4, <1>5, <1>6, <1>7 DEF SymNext

\* The tree goes with its points and with its configuration, and stays otherwise.
LEMMA SymNextTree == ASSUME SymInv, [SymNext]_symVars PROVE SymTreeInv'
<1> USE DEF SymInv, symUserVars, symOrder, symFmmVars
<1>1. CASE SymSetters /\ UNCHANGED symThrows
  <2>1. ASSUME NEW acc \in Accuracy, SymSetAccuracy(acc) PROVE SymTreeInv'
    BY <1>1, <2>1 DEF SymSetAccuracy, SymTreeInv, SymRunning, SymHeight
  <2>2. ASSUME NEW p \in PointSet, SetPoints(p) PROVE SymTreeInv'
    BY <1>1, <2>2 DEF SetPoints, SymTreeInv, SymRunning
  <2>3. ASSUME NEW w \in Weights, SymSetWeights(w) PROVE SymTreeInv'
    <3>1. SymHeight' = SymHeight /\ symPc' = "idle" /\ UNCHANGED <<points, symConfig>>
      BY <2>3 DEF SymSetWeights, SymHeight
    <3>2. CASE tree = None
      BY <2>3, <3>1, <3>2 DEF SymSetWeights, SymTreeInv, SymRunning
    <3>3. CASE tree # None
      <4> DEFINE t == [tree EXCEPT !.weights = w]
      <4>1. tree \in SymTreeType
        BY <3>3 DEF SymTypeOK
      <4>2. /\ t.points = tree.points /\ t.depth = tree.depth
            /\ t.height = tree.height /\ t.order = tree.order
        BY <4>1, TreeChanged
      <4>3. tree' = t
        BY <2>3, <3>3 DEF SymSetWeights
      <4> HIDE DEF t
      <4> QED BY <3>1, <3>3, <4>2, <4>3 DEF SymTreeInv, SymRunning
    <3> QED BY <3>2, <3>3
  <2> QED BY <1>1, <2>1, <2>2, <2>3 DEF SymSetters
<1>2. CASE (SymEvaluate \/ SymPrepareDirect \/ SymSort) /\ UNCHANGED symThrows
  BY <1>2, DefaultType DEF SymEvaluate, SymPrepareDirect, SymSort, SymTreeInv, SymRunning, SymHeight
<1>3. CASE (SymLookUp \/ SymSearch \/ SymSearchFails \/ SymKeepInterpolator \/ SymChangeInterpolator)
           /\ UNCHANGED symThrows
  BY <1>3 DEF SymLookUp, SymSearch, SymSearchFails, SymKeepInterpolator, SymChangeInterpolator,
              SymTreeInv, SymRunning, SymHeight
<1>4. CASE (SymMakeFarField \/ SymMakeOperator) /\ UNCHANGED symThrows
  BY <1>4 DEF SymMakeFarField, SymMakeOperator, SymTreeInv, SymRunning, SymHeight
<1>5. CASE MakeTree /\ UNCHANGED symThrows
  <2>1. SymHeight' = SymHeight /\ UNCHANGED <<points, symConfig>>
    BY <1>5 DEF MakeTree, SymHeight
  <2> QED BY <1>5, <2>1, MadeTree DEF SymTreeInv
<1>6. CASE Passes /\ UNCHANGED symThrows
  <2>1. SymHeight' = SymHeight /\ symPc = "passes" /\ UNCHANGED <<points, symConfig>>
    BY <1>6 DEF Passes, SymHeight
  <2>2. CASE symConfig.tree_height > 0
    <3> DEFINE t == [tree EXCEPT !.passed = tree.weights]
    <3>1. tree \in SymTreeType /\ tree # None
      BY <2>1, <2>2 DEF SymTreeInv, SymRunning, SymTypeOK
    <3>2. tree.weights \in Weights \cup {None}
      BY <3>1 DEF SymTreeType
    <3>3. /\ t # None /\ t.points = tree.points /\ t.depth = tree.depth
          /\ t.height = tree.height /\ t.order = tree.order
      BY <3>1, <3>2, TreeChanged
    <3>4. tree' = t
      BY <1>6, <2>2 DEF Passes
    <3> HIDE DEF t
    <3> QED BY <2>1, <3>1, <3>3, <3>4 DEF SymTreeInv
  <2>3. CASE ~(symConfig.tree_height > 0)
    BY <1>6, <2>1, <2>3 DEF Passes, SymTreeInv, SymRunning
  <2> QED BY <2>2, <2>3
<1>7. CASE (Finish \/ SymThrow) /\ UNCHANGED symThrows
  BY <1>7 DEF Finish, SymThrow, SymTreeInv, SymRunning, SymHeight
<1>8. CASE UNCHANGED symVars
  BY <1>8 DEF symVars, SymTreeInv, SymRunning, SymHeight
<1> QED BY <1>1, <1>2, <1>3, <1>4, <1>5, <1>6, <1>7, <1>8 DEF SymNext

\* If no call throws while there is a tree, the weights go to the particles and from
\* there into the tree.
LEMMA SymNextFresh == ASSUME SymInv, [SymNext]_symVars PROVE SymFreshInv'
<1> USE DEF SymInv, symUserVars, symOrder, symFmmVars
<1>1. CASE SymSetters /\ UNCHANGED symThrows
  BY <1>1 DEF SymSetters, SymSetAccuracy, SetPoints, SymSetWeights, SymFreshInv, SymRunning
<1>2. CASE (SymEvaluate \/ SymPrepareDirect \/ SymSort) /\ UNCHANGED symThrows
  BY <1>2 DEF SymEvaluate, SymPrepareDirect, SymSort, SymFreshInv, SymRunning
<1>3. CASE (SymLookUp \/ SymSearch \/ SymSearchFails \/ SymKeepInterpolator \/ SymChangeInterpolator)
           /\ UNCHANGED symThrows
  BY <1>3 DEF SymLookUp, SymSearch, SymSearchFails, SymKeepInterpolator, SymChangeInterpolator,
              SymFreshInv, SymRunning
<1>4. CASE (SymMakeFarField \/ SymMakeOperator) /\ UNCHANGED symThrows
  BY <1>4 DEF SymMakeFarField, SymMakeOperator, SymFreshInv, SymRunning
<1>5. CASE MakeTree /\ UNCHANGED symThrows
  <2>1. symPc = "tree" /\ symPc' = "passes" /\ UNCHANGED <<symThrows, symWeights, symAsked>>
    BY <1>5 DEF MakeTree
  <2> QED BY <1>5, <2>1, MadeTree DEF SymFreshInv
<1>6. CASE Passes /\ UNCHANGED symThrows
  <2>1. /\ symPc = "passes" /\ symPc' = "potentials"
        /\ UNCHANGED <<symThrows, symConfig, symWeights, symAsked>>
    BY <1>6 DEF Passes
  <2>2. CASE symConfig.tree_height > 0
    <3>1. tree \in SymTreeType /\ tree # None
      BY <2>1, <2>2 DEF SymTreeInv, SymRunning, SymTypeOK
    <3>2. tree.weights \in Weights \cup {None}
      BY <3>1 DEF SymTreeType
    <3>3. tree' = [tree EXCEPT !.passed = tree.weights]
      BY <1>6, <2>2 DEF Passes
    <3>4. tree'.weights = tree.weights /\ tree'.passed = tree.weights
      BY <3>1, <3>2, <3>3, TreeChanged
    <3> QED BY <2>1, <3>1, <3>4 DEF SymFreshInv
  <2>3. CASE ~(symConfig.tree_height > 0)
    BY <1>6, <2>1, <2>3 DEF Passes, SymFreshInv, SymRunning
  <2> QED BY <2>2, <2>3
<1>7. CASE (Finish \/ SymThrow) /\ UNCHANGED symThrows
  BY <1>7 DEF Finish, SymThrow, SymFreshInv, SymRunning
<1>8. CASE UNCHANGED symVars
  BY <1>8 DEF symVars, SymFreshInv, SymRunning
<1> QED BY <1>1, <1>2, <1>3, <1>4, <1>5, <1>6, <1>7, <1>8 DEF SymNext

LEMMA SymNextRef ==
  ASSUME InterpolatorAssumptions, SymInv, SymRefInv, [SymNext]_symVars
  PROVE  SymRefInv'
<1> USE DEF SymInv, symUserVars, symOrder, symFmmVars
<1>1. CASE SymSetters /\ UNCHANGED symThrows
  BY <1>1 DEF SymSetters, SymSetAccuracy, SetPoints, SymSetWeights, SymRefInv
<1>2. CASE (SymEvaluate \/ SymPrepareDirect \/ SymSort) /\ UNCHANGED symThrows
  BY <1>2, DefaultType DEF SymEvaluate, SymPrepareDirect, SymSort, SymRefInv
<1>3. CASE (SymLookUp \/ SymSearch \/ SymSearchFails \/ SymKeepInterpolator \/ SymChangeInterpolator)
           /\ UNCHANGED symThrows
  BY <1>3 DEF SymLookUp, SymSearch, SymSearchFails, SymKeepInterpolator, SymChangeInterpolator,
    SymRefInv
<1>4. CASE (SymMakeFarField \/ SymMakeOperator \/ MakeTree) /\ UNCHANGED symThrows
  BY <1>4 DEF SymMakeFarField, SymMakeOperator, MakeTree, SymRefInv
<1>5. CASE (Passes \/ Finish) /\ UNCHANGED symThrows
  BY <1>5 DEF Passes, Finish, SymRefInv
<1>6. CASE SymThrow /\ UNCHANGED symThrows
  <2>1. symPc \notin {"farField", "operator"}
    BY <1>6 DEF SymThrow, SymTypeOK, InterpolatorAssumptions
  <2> QED BY <1>6, <2>1 DEF SymThrow, SymRefInv
<1>7. CASE UNCHANGED symVars
  BY <1>7 DEF symVars, SymRefInv
<1> QED BY <1>1, <1>2, <1>3, <1>4, <1>5, <1>6, <1>7 DEF SymNext

-----------------------------------------------------------------------------
\* The inductive invariant of the symmetric evaluator, whichever steps may throw.
THEOREM SymInductive == SymSpec => []SymInv
<1>1. SymInit => SymInv
  BY SymInitInv
<1>2. SymInv /\ [SymNext]_symVars => SymInv'
  BY SymNextType, SymNextOrder, SymNextBest, SymNextTree, SymNextFresh DEF SymInv
<1> QED BY <1>1, <1>2, PTL DEF SymSpec

\* The symmetric evaluator, too, keeps every variable in its type.
THEOREM SymTypeCorrect == SymSpec => []SymTypeOK
<1>1. SymInv => SymTypeOK
  BY DEF SymInv
<1> QED BY <1>1, SymInductive, PTL

\* The results of both evaluators are of the latest weights, far field, near field and
\* diagonal alike, unless a call threw while there was a tree.
THEOREM BothFresh == Spec /\ SymSpec => []WeightsOfBothFresh
<1>1. SymInv => SymWeightsFresh
  <2> SUFFICES ASSUME SymInv, symThrows \cap {"passes", "potentials"} = {}, symPc = "potentials"
               PROVE  IF symConfig.tree_height > 0
                        THEN tree.weights = symAsked /\ tree.passed = symAsked
                        ELSE symWeights = symAsked
    BY DEF SymWeightsFresh
  <2> QED BY DEF SymInv, SymTreeInv, SymFreshInv, SymRunning
<1>2. WeightsFresh /\ SymWeightsFresh => WeightsOfBothFresh
  BY DEF WeightsOfBothFresh
<1> QED BY <1>1, <1>2, Fresh, SymInductive, PTL

\* The passes of both evaluators find caches that fit each other: in the symmetric one
\* the interpolator, the far field and the operator of one configuration, searched for
\* the present points and accuracy, and a tree of it over points sorted deep enough.
THEOREM BothCoherent ==
  ASSUME InterpolatorAssumptions
  PROVE  Spec /\ SymSpec => []PassesOfBothCoherent
<1>1. SymInit => SymInv /\ SymRefInv
  BY SymInitInv
<1>2. SymInv /\ SymRefInv /\ [SymNext]_symVars => (SymInv /\ SymRefInv)'
  BY SymNextType, SymNextOrder, SymNextBest, SymNextTree, SymNextFresh, SymNextRef DEF SymInv
<1>3. SymInv /\ SymRefInv => SymPassesCoherent
  <2> SUFFICES ASSUME SymInv, SymRefInv, symPc = "passes", symConfig.tree_height > 0
               PROVE  /\ interpolator = symConfig /\ symFar = symConfig /\ symOp = symConfig
                      /\ symBest[SymHeight] = SymEntry(symConfig)
                      /\ tree.height = SymHeight /\ tree.order = symConfig.order
                      /\ tree.points = points /\ tree.depth >= tree.height - 1
    BY DEF SymPassesCoherent
  <2>1. interpolator = symConfig /\ symFar = symConfig /\ symOp = symConfig
    BY DEF SymRefInv
  <2>2. symBest[SymHeight] = SymEntry(symConfig)
    BY DEF SymInv, SymBestInv, SymEntriesFit, SymRunning
  <2> QED BY <2>1, <2>2 DEF SymInv, SymTreeInv, SymRunning
<1>4. PassesCoherent /\ SymPassesCoherent => PassesOfBothCoherent
  BY DEF PassesOfBothCoherent
<1> QED BY <1>1, <1>2, <1>3, <1>4, Coherent, PTL DEF SymSpec

-----------------------------------------------------------------------------
(* Products by blocks                                                       *)

\* What set_weights makes of a slice w of the weights: as many in a row for each source.
InputsOf(kernel, sources, w) ==
  [s \in 1..Len(sources) |-> [j \in 1..Km(kernel) |-> w[(Km(kernel) * (s - 1)) + j]]]

\* A part of an rbf with these points, and an error within bound.
PartIs(p, rbf, kernel, symmetric, sources, targets, bound) ==
  /\ p = [rbf |-> rbf, kernel |-> kernel, symmetric |-> symmetric, src |-> sources, trg |-> targets,
          inputs |-> p.inputs, accuracy |-> p.accuracy]
  /\ p.accuracy \in Nat /\ p.accuracy <= bound /\ (rbf.direct => p.accuracy = 0)
BlockIs(block, name, kernel, symmetric, sources, targets, bound) ==
  /\ block = [k \in DOMAIN rbf_parts(name) |-> block[k]]
  /\ \A k \in DOMAIN rbf_parts(name) :
       PartIs(block[k], rbf_parts(name)[k], kernel, symmetric, sources, targets, bound)
Weighted(block, kernel, sources, w) == \A k \in DOMAIN block : block[k].inputs
  = InputsOf(kernel, sources, w)

\* One part or two, of which the first has no error.
LEMMA PartsOfRbf ==
  ASSUME NEW name \in Compact \cup Spheroidal \cup Unbounded
  PROVE  \/ /\ name \notin Spheroidal /\ DOMAIN rbf_parts(name) = 1..1
         \/ /\ name \in Spheroidal /\ DOMAIN rbf_parts(name) = 1..2 /\ rbf_parts(name)[1].direct
  <1>1. CASE name \in Spheroidal
    <2>1. rbf_parts(name) = <<[name |-> name, direct |-> TRUE], [name |-> name, direct |-> FALSE]>>
      BY <1>1 DEF rbf_parts
    <2>. QED BY <1>1, <2>1
  <1>2. CASE name \notin Spheroidal
    <2>1. rbf_parts(name) = <<[name |-> name, direct |-> name \in Compact]>>
      BY <1>2 DEF rbf_parts
    <2>. QED BY <1>2, <2>1
  <1>. QED BY <1>1, <1>2

\* What the setters of a part change and what they keep.
LEMMA PartSource ==
  ASSUME NEW p, NEW rbf, NEW kernel, NEW symmetric, NEW sources, NEW targets, NEW bound,
         PartIs(p, rbf, kernel, symmetric, sources, targets, bound), NEW ps
  PROVE  PartIs(part_source(p, ps), rbf, kernel, symmetric, ps, targets, bound)
  BY DEF PartIs, part_source

LEMMA PartTarget ==
  ASSUME NEW p, NEW rbf, NEW kernel, NEW symmetric, NEW sources, NEW targets, NEW bound,
         PartIs(p, rbf, kernel, symmetric, sources, targets, bound), NEW ps
  PROVE  /\ PartIs(part_target(p, ps), rbf, kernel, symmetric, sources, ps, bound)
         /\ part_target(p, ps).inputs = p.inputs
  BY DEF PartIs, part_target

LEMMA PartPoints ==
  ASSUME NEW p, NEW rbf, NEW kernel, NEW symmetric, NEW sources, NEW targets, NEW bound,
         PartIs(p, rbf, kernel, symmetric, sources, targets, bound), NEW ps
  PROVE  PartIs(part_points(p, ps), rbf, kernel, symmetric, ps, ps, bound)
  <1>1. part_points(p, ps) = part_target(part_source(p, ps), ps)
    BY DEF part_points, part_target, part_source
  <1>. QED BY <1>1, PartSource, PartTarget

LEMMA PartWeights ==
  ASSUME NEW p, NEW rbf, NEW kernel, NEW symmetric, NEW sources, NEW targets, NEW bound,
         PartIs(p, rbf, kernel, symmetric, sources, targets, bound), NEW w
  PROVE  /\ PartIs(part_weights(p, w), rbf, kernel, symmetric, sources, targets, bound)
         /\ part_weights(p, w).inputs = InputsOf(kernel, sources, w)
  <1>1. p.kernel = kernel /\ p.src = sources
    BY DEF PartIs
  <1>2. PICK in : in = InputsOf(kernel, sources, w)
    OBVIOUS
  <1>3. part_weights(p, w) = [p EXCEPT !.inputs = in]
    BY <1>1, <1>2 DEF part_weights, InputsOf
  <1>4. PICK q : q = [p EXCEPT !.inputs = in]
    OBVIOUS
  <1>5. PartIs(q, rbf, kernel, symmetric, sources, targets, bound) /\ q.inputs = in
    BY <1>4 DEF PartIs
  <1>. QED BY <1>2, <1>3, <1>4, <1>5

LEMMA PartAccuracy ==
  ASSUME NEW p, NEW rbf, NEW kernel, NEW symmetric, NEW sources, NEW targets, NEW bound,
         PartIs(p, rbf, kernel, symmetric, sources, targets, bound), NEW c \in Nat
  PROVE  /\ PartIs(part_accuracy(p, c), rbf, kernel, symmetric, sources, targets, c)
         /\ part_accuracy(p, c).inputs = p.inputs
  <1>1. p.rbf = rbf
    BY DEF PartIs
  <1>2. CASE rbf.direct
    BY <1>1, <1>2 DEF PartIs, part_accuracy
  <1>3. CASE ~rbf.direct
    <2>1. PICK q : q = [p EXCEPT !.accuracy = c]
      OBVIOUS
    <2>2. PartIs(q, rbf, kernel, symmetric, sources, targets, c) /\ q.inputs = p.inputs
      BY <2>1, <1>3 DEF PartIs
    <2>. QED BY <1>1, <1>3, <2>1, <2>2 DEF part_accuracy
  <1>. QED BY <1>2, <1>3

\* The same for the parts of a block.
LEMMA BlockMade ==
  ASSUME NEW name, NEW kernel, NEW symmetric, NEW bound \in Nat
  PROVE  BlockIs(Make(name, kernel, symmetric), name, kernel, symmetric, <<>>, <<>>, bound)
  <1>1. ASSUME NEW rbf PROVE PartIs(Part(rbf, kernel, symmetric), rbf, kernel, symmetric, <<>>,
                 <<>>, bound)
    BY DEF PartIs, Part
  <1>. QED BY <1>1 DEF BlockIs, Make

LEMMA BlockSource ==
  ASSUME NEW b, NEW name, NEW kernel, NEW symmetric, NEW sources, NEW targets, NEW bound,
         BlockIs(b, name, kernel, symmetric, sources, targets, bound), NEW ps
  PROVE  BlockIs(set_source_points(b, ps), name, kernel, symmetric, ps, targets, bound)
  <1>1. DOMAIN b = DOMAIN rbf_parts(name)
    BY DEF BlockIs
  <1>2. set_source_points(b, ps) = [k \in DOMAIN rbf_parts(name) |-> part_source(b[k], ps)]
    BY <1>1 DEF set_source_points
  <1>. QED BY <1>2, PartSource DEF BlockIs

LEMMA BlockTarget ==
  ASSUME NEW b, NEW name, NEW kernel, NEW symmetric, NEW sources, NEW targets, NEW bound,
         BlockIs(b, name, kernel, symmetric, sources, targets, bound), NEW ps
  PROVE  /\ BlockIs(set_target_points(b, ps), name, kernel, symmetric, sources, ps, bound)
         /\ \A w : Weighted(b, kernel, sources, w)
              => Weighted(set_target_points(b, ps), kernel, sources, w)
  <1>1. DOMAIN b = DOMAIN rbf_parts(name)
    BY DEF BlockIs
  <1>2. set_target_points(b, ps) = [k \in DOMAIN rbf_parts(name) |-> part_target(b[k], ps)]
    BY <1>1 DEF set_target_points
  <1>3. \A k \in DOMAIN b : part_target(b[k], ps).inputs = b[k].inputs
    BY <1>1, PartTarget DEF BlockIs
  <1>4. BlockIs(set_target_points(b, ps), name, kernel, symmetric, sources, ps, bound)
    BY <1>2, PartTarget DEF BlockIs
  <1>. QED BY <1>1, <1>2, <1>3, <1>4 DEF Weighted

LEMMA BlockPoints ==
  ASSUME NEW b, NEW name, NEW kernel, NEW symmetric, NEW sources, NEW targets, NEW bound,
         BlockIs(b, name, kernel, symmetric, sources, targets, bound), NEW ps
  PROVE  BlockIs(set_points(b, ps), name, kernel, symmetric, ps, ps, bound)
  <1>1. DOMAIN b = DOMAIN rbf_parts(name)
    BY DEF BlockIs
  <1>2. set_points(b, ps) = [k \in DOMAIN rbf_parts(name) |-> part_points(b[k], ps)]
    BY <1>1 DEF set_points
  <1>. QED BY <1>2, PartPoints DEF BlockIs

LEMMA BlockWeights ==
  ASSUME NEW b, NEW name, NEW kernel, NEW symmetric, NEW sources, NEW targets, NEW bound,
         BlockIs(b, name, kernel, symmetric, sources, targets, bound), NEW w
  PROVE  /\ BlockIs(set_weights(b, w), name, kernel, symmetric, sources, targets, bound)
         /\ Weighted(set_weights(b, w), kernel, sources, w)
  <1>1. DOMAIN b = DOMAIN rbf_parts(name)
    BY DEF BlockIs
  <1>2. set_weights(b, w) = [k \in DOMAIN rbf_parts(name) |-> part_weights(b[k], w)]
    BY <1>1 DEF set_weights
  <1>3. \A k \in DOMAIN b : part_weights(b[k], w).inputs = InputsOf(kernel, sources, w)
    BY <1>1, PartWeights DEF BlockIs
  <1>4. BlockIs(set_weights(b, w), name, kernel, symmetric, sources, targets, bound)
    BY <1>2, PartWeights DEF BlockIs
  <1>. QED BY <1>1, <1>2, <1>3, <1>4 DEF Weighted

LEMMA BlockAccuracy ==
  ASSUME NEW b, NEW name, NEW kernel, NEW symmetric, NEW sources, NEW targets, NEW bound,
         BlockIs(b, name, kernel, symmetric, sources, targets, bound), NEW c \in Nat
  PROVE  BlockIs(set_accuracy(b, c), name, kernel, symmetric, sources, targets, c)
  <1>1. DOMAIN b = DOMAIN rbf_parts(name)
    BY DEF BlockIs
  <1>2. set_accuracy(b, c) = [k \in DOMAIN rbf_parts(name) |-> part_accuracy(b[k], c)]
    BY <1>1 DEF set_accuracy
  <1>. QED BY <1>2, PartAccuracy DEF BlockIs

\* The error of a block is within its bound, and there is none without sources.
LEMMA ErrorWithin ==
  ASSUME NEW name \in Compact \cup Spheroidal \cup Unbounded, NEW b, NEW kernel, NEW symmetric,
         NEW sources, NEW targets, NEW bound \in Nat,
           BlockIs(b, name, kernel, symmetric, sources, targets, bound)
  PROVE  Error(b) \in Nat /\ Error(b) <= bound /\ (sources = <<>> => Error(b) = 0)
  <1>1. 1 \in DOMAIN rbf_parts(name)
    BY PartsOfRbf
  <1>2. PartIs(b[1], rbf_parts(name)[1], kernel, symmetric, sources, targets, bound)
    BY <1>1 DEF BlockIs
  <1>3. b[1].src = sources /\ b[1].accuracy \in Nat /\ b[1].accuracy <= bound
    BY <1>2 DEF PartIs
  <1>4. CASE Len(b) # 2
    BY <1>3, <1>4 DEF Error
  <1>5. CASE Len(b) = 2
    <2>1. CASE name \notin Spheroidal
      <3>1. b = [k \in 1..1 |-> b[k]]
        BY <2>1, PartsOfRbf DEF BlockIs
      <3>2. b \in [1..1 -> {b[1]}]
        BY <3>1
      <3>3. b \in Seq({b[1]}) 
        BY <3>2, SeqDef
      <3>4. Len(b) = 1
        BY <3>1, <3>3
      <3>. QED BY <3>4, <1>5
    <2>2. CASE name \in Spheroidal
      <3>1. PartIs(b[2], rbf_parts(name)[2], kernel, symmetric, sources, targets, bound)
        BY <2>2, PartsOfRbf DEF BlockIs
      <3>2. b[2].accuracy \in Nat /\ b[2].accuracy <= bound
        BY <3>1 DEF PartIs
      <3>3. b[1].accuracy = 0
        BY <2>2, <1>2, PartsOfRbf DEF PartIs
      <3>. QED BY <1>3, <1>5, <3>2, <3>3 DEF Error
    <2>. QED BY <2>1, <2>2
  <1>. QED BY <1>4, <1>5

\* A set of natural numbers that is not empty has a least one.
LEMMA LeastNumber ==
  ASSUME NEW S \in SUBSET Nat, S # {}
  PROVE  \E i \in S : \A j \in S : i <= j
  <1> DEFINE Less == {p \in Nat \X Nat : p[1] < p[2]}
  <1>1. IsWellFoundedOn(Less, Nat)
    BY NatLessThanWellFounded DEF OpToRel, Less
  <1> HIDE DEF Less
  <1>2. PICK i \in S : \A j \in S : ~(<<j, i>> \in Less)
    BY <1>1, WFMin
  <1>3. \A j \in S : ~(j < i)
    BY <1>2 DEF Less
  <1>. QED BY <1>3

\* Half of an accuracy, or all of it, in n parts.
LEMMA Shares ==
  ASSUME NEW n \in Nat \ {0}, NEW x \in Nat
  PROVE  x \div n \in Nat /\ n * (x \div n) <= x /\ x \div 2 \in Nat /\ 2 * (x \div 2) <= x
  <1>1. PICK q \in Int, r \in 0..(n - 1) : x = (n * q) + r
    <2>1. x = (n * (x \div n)) + (x % n) /\ x \div n \in Int /\ x % n \in 0..(n - 1)
      OBVIOUS
    <2>. QED BY <2>1
  <1>2. x \div n \in Nat /\ n * (x \div n) <= x
    OBVIOUS
  <1>. QED BY <1>2

\* Twice a product.
LEMMA Doubled ==
  ASSUME NEW x \in Int, NEW z \in Int
  PROVE  x * z \in Int /\ x * (z + z) = (x * z) + (x * z)
  OBVIOUS

\* Added one after another there are sums of the first terms.
LEMMA SumsThere ==
  ASSUME NEW n \in Nat, NEW t
  PROVE  \E s : s = [i \in 0..n |-> IF i = 0 THEN 0 ELSE s[i - 1] + t[i]]
  <1>. DEFINE Rec(s, j) == s = [i \in 0..j |-> IF i = 0 THEN 0 ELSE s[i - 1] + t[i]]
  <1>1. ASSUME NEW j \in Nat PROVE \E s : Rec(s, j)
    <2>. DEFINE Bad == {k \in Nat : ~\E s : Rec(s, k)}
    <2>1. SUFFICES ASSUME Bad # {} PROVE FALSE
      OBVIOUS
    <2>2. PICK k \in Bad : \A i \in Bad : k <= i
      BY <2>1, LeastNumber
    <2>3. CASE k = 0
      <3>1. Rec([i \in 0..0 |-> 0], 0)
        OBVIOUS
      <3>. QED BY <2>2, <2>3, <3>1
    <2>4. CASE k # 0
      <3>1. k - 1 \in Nat /\ k - 1 \notin Bad
        <4>1. k \in Nat /\ \A i \in Bad : i \in Nat
          BY <2>2
        <4>. HIDE DEF Bad
        <4>. QED BY <2>2, <2>4, <4>1
      <3>2. PICK s : Rec(s, k - 1)
        BY <3>1
      <3>. DEFINE r == [i \in 0..k |-> IF i < k THEN s[i] ELSE s[k - 1] + t[k]]
      <3>3. ASSUME NEW i \in 0..k PROVE r[i] = IF i = 0 THEN 0 ELSE r[i - 1] + t[i]
        <4>1. CASE i = 0
          BY <3>2, <4>1, <2>4, <2>2
        <4>2. CASE i # 0 /\ i < k
          <5>1. i \in 0..(k - 1) /\ i - 1 \in 0..k /\ i - 1 < k
            BY <4>2, <3>1
          <5>. QED BY <3>2, <4>2, <5>1
        <4>3. CASE i = k
          <5>1. i - 1 \in 0..k /\ i - 1 < k /\ i # 0
            BY <4>3, <3>1, <2>4
          <5>. QED BY <4>3, <5>1
        <4>. QED BY <4>1, <4>2, <4>3
      <3>4. Rec(r, k)
        BY <3>3
      <3>. QED BY <2>2, <3>4
    <2>. QED BY <2>3, <2>4
  <1>. QED BY <1>1

\* If n terms are within a bound, their sum is within n times the bound.
LEMMA SumWithin ==
  ASSUME NEW n \in Nat, NEW t, NEW bound \in Nat, \A i \in 1..n : t[i] \in Nat /\ t[i] <= bound,
         NEW sum, \A i \in 0..n : sum[i] = IF i = 0 THEN 0 ELSE sum[i - 1] + t[i]
  PROVE  sum[n] \in Nat /\ sum[n] <= n * bound
  <1>. DEFINE Bad == {i \in 0..n : ~(sum[i] \in Nat /\ sum[i] <= i * bound)}
  <1>4. SUFFICES ASSUME Bad # {} PROVE FALSE
    <2>1. n \in 0..n
      OBVIOUS
    <2>. QED BY <2>1
  <1>5. PICK i \in Bad : \A j \in Bad : i <= j
    <2>1. Bad \in SUBSET Nat
      OBVIOUS
    <2>. HIDE DEF Bad
    <2>. QED BY <1>4, <2>1, LeastNumber
  <1>6. i # 0
    BY <1>5
  <1>7. i - 1 \in 0..n /\ i \in 1..n /\ i - 1 \notin Bad
    <2>1. i \in 0..n /\ \A j \in Bad : j \in Nat
      BY <1>5
    <2>. HIDE DEF Bad
    <2>. QED BY <1>5, <1>6, <2>1
  <1>8. PICK x \in Nat, z \in Nat : x = sum[i - 1] /\ z = t[i] /\ z <= bound /\ x <= (i - 1) * bound
    BY <1>7
  <1>9. sum[i] = x + z
    BY <1>6, <1>7, <1>8
  <1>10. x + z <= i * bound
    <2>1. (i - 1) * bound + bound = i * bound /\ (i - 1) * bound \in Int /\ i * bound \in Int
      BY <1>7
    <2>. QED BY <1>8, <2>1
  <1>. QED BY <1>5, <1>7, <1>8, <1>9, <1>10

\* The errors of all blocks of a row are within the accuracy that was asked for.
LEMMA ErrorSumWithin ==
  ASSUME NEW left, NEW right, NEW acc \in Nat, NEW n_grads \in Nat, Len(model.rbfs) \in Nat \ {0},
         \A i \in 1..Len(model.rbfs) :
           /\ Error(left[i]) \in Nat /\ Error(left[i]) <= Share(acc, n_grads)
           /\ Error(right[i]) \in Nat /\ Error(right[i]) <= Share(acc, n_grads)
           /\ n_grads = 0 => Error(right[i]) = 0
  PROVE  ErrorSum(left, right) <= acc
  <1>1. PICK n \in Nat \ {0} : n = Len(model.rbfs)
    OBVIOUS
  <1>2. PICK t : t = [i \in 1..n |-> Error(left[i]) + Error(right[i])]
    OBVIOUS
  <1>. DEFINE Rec(s) == s = [i \in 0..Len(model.rbfs) |->
                              IF i = 0 THEN 0 ELSE s[i - 1] + (Error(left[i]) + Error(right[i]))]
              sum == CHOOSE s : Rec(s)
  <1>3. \A i \in 0..n : sum[i] = IF i = 0 THEN 0 ELSE sum[i - 1] + t[i]
    <2>1. PICK s : s = [i \in 0..n |-> IF i = 0 THEN 0 ELSE s[i - 1] + t[i]]
      BY <1>1, SumsThere
    <2>2. Rec(s)
      <3>1. \A i \in 0..n : i # 0 => t[i] = Error(left[i]) + Error(right[i])
        BY <1>1, <1>2
      <3>2. \A i \in 0..n : s[i] = IF i = 0 THEN 0
              ELSE s[i - 1] + (Error(left[i]) + Error(right[i]))
        BY <2>1, <3>1
      <3>3. s = [i \in 0..n |-> s[i]]
        BY <2>1
      <3>. QED BY <1>1, <3>2, <3>3
    <2>3. Rec(sum)
      BY <2>2
    <2>4. \A i \in 0..n : sum[i] = IF i = 0 THEN 0
            ELSE sum[i - 1] + (Error(left[i]) + Error(right[i]))
      <3>. HIDE DEF sum
      <3>. QED BY <1>1, <2>3
    <2>. HIDE DEF sum
    <2>. QED BY <1>2, <2>4
  <1>4. ErrorSum(left, right) = sum[n]
    BY <1>1 DEF ErrorSum
  <1>. HIDE DEF sum
  <1>5. CASE n_grads > 0
    <2>1. PICK q \in Nat : q = Share(acc, n_grads) /\ n * (q + q) <= acc
      <3>1. PICK w \in Nat : w = acc \div 2 /\ 2 * w <= acc
        BY Shares
      <3>2. PICK q \in Nat : q = w \div n /\ n * q <= w
        BY <3>1, Shares
      <3>3. n * (q + q) <= acc
        <4>1. PICK m \in Int : m = n * q /\ n * (q + q) = m + m
          BY Doubled
        <4>2. m <= w
          BY <3>2, <4>1
        <4>. QED BY <3>1, <4>1, <4>2
      <3>4. q = Share(acc, n_grads)
        BY <1>1, <1>5, <3>1, <3>2 DEF Share
      <3>. QED BY <3>3, <3>4
    <2>2. \A i \in 1..n : t[i] \in Nat /\ t[i] <= q + q
      BY <1>1, <1>2, <2>1
    <2>3. q + q \in Nat
      BY <2>1
    <2>4. sum[n] \in Nat /\ sum[n] <= n * (q + q)
      BY <1>3, <2>2, <2>3, SumWithin
    <2>. QED BY <1>4, <2>1, <2>4
  <1>6. CASE n_grads = 0
    <2>1. PICK q \in Nat : q = Share(acc, n_grads) /\ n * q <= acc
      <3>1. PICK q \in Nat : q = acc \div n /\ n * q <= acc
        BY Shares
      <3>2. q = Share(acc, n_grads)
        BY <1>1, <1>6, <3>1 DEF Share
      <3>. QED BY <3>1, <3>2
    <2>2. \A i \in 1..n : t[i] \in Nat /\ t[i] <= q
      BY <1>1, <1>2, <1>6, <2>1
    <2>3. sum[n] \in Nat /\ sum[n] <= n * q
      BY <1>3, <2>1, <2>2, SumWithin
    <2>. QED BY <1>4, <2>1, <2>3
  <1>. QED BY <1>5, <1>6

-----------------------------------------------------------------------------
\* Each rbf has a block of this kind, with these points and an error within bound.
BlocksAre(rbfs, blocks, kernel, symmetric, sources, targets, bound) ==
  /\ DOMAIN blocks = DOMAIN rbfs
  /\ \A i \in DOMAIN rbfs : BlockIs(blocks[i], rbfs[i], kernel, symmetric, sources, targets, bound)

\* All blocks have the points that were set last, and their shares of the accuracy.
Places(symmetric, rbfs, sources, targets, va, ga, aa, ff, ftt, hh) ==
  /\ BlocksAre(rbfs, aa, "value", symmetric, sources.points, targets.points, va)
  /\ BlocksAre(rbfs, ff, "gradient", FALSE, sources.grads, targets.points, va)
  /\ BlocksAre(rbfs, ftt, "gradientTranspose", FALSE, sources.points, targets.grads, ga)
  /\ BlocksAre(rbfs, hh, "hessian", symmetric, sources.grads, targets.grads, ga)

\* All parts of all blocks have their slice of the weights w of n values and m derivatives.
WeightsIn(rbfs, sources, w, n, m, aa, ff, ftt, hh) ==
  \A i \in DOMAIN rbfs :
    /\ Weighted(aa[i], "value", sources.points, FirstOf(w, n))
    /\ Weighted(ff[i], "gradient", sources.grads, Segment(w, n, m))
    /\ Weighted(ftt[i], "gradientTranspose", sources.points, FirstOf(w, n))
    /\ Weighted(hh[i], "hessian", sources.grads, Segment(w, n, m))

GivenInv ==
  /\ kind \in {"Evaluator", "SymmetricEvaluator", "Operator"} /\ model \in Models
  /\ given = [src |-> given.src, trg |-> given.trg, w |-> given.w]
  /\ given.src \in Lists \cup {Nothing} /\ given.trg \in Lists \cup {Nothing}
  /\ mu = Len(given.src.points) /\ sigma = Len(given.src.grads)
  /\ kind # "Evaluator" => given.trg = given.src
  /\ kind = "Evaluator" => trg_mu = Len(given.trg.points) /\ trg_sigma = Len(given.trg.grads)

PlacesInv ==
  Places(kind # "Evaluator", model.rbfs, given.src, given.trg, Share(ValueAccuracy, sigma),
         Share(GradAccuracy, sigma), a, f, ft, h)

\* Whatever was set in whatever order, every part of every block and the polynomial have
\* the points and weights that were set last.
BlocksLatest ==
  /\ PlacesInv
  /\ given.w # Unset => WeightsIn(model.rbfs, given.src, given.w, mu, kDim * sigma, a, f, ft, h)
  /\ poly.rows = Functionals(given.trg.points, given.trg.grads)
  /\ given.w # Unset /\ kind # "Operator" => poly.weights = LastOf(given.w, model.l)

BlockInv == GivenInv /\ BlocksLatest /\ poly = [rows |-> poly.rows, weights |-> poly.weights]

\* What is known of the models and lists.
LEMMA ModelFacts ==
  ASSUME model \in Models
  PROVE  /\ Len(model.rbfs) \in Nat \ {0} /\ DOMAIN model.rbfs = 1..Len(model.rbfs)
              /\ model.l \in Nat
         /\ \A i \in DOMAIN model.rbfs : model.rbfs[i] \in Compact \cup Spheroidal \cup Unbounded
  <1>1. PICK rbfs : rbfs = model.rbfs /\ rbfs \in Seq(Compact \cup Spheroidal \cup Unbounded)
               /\ rbfs # <<>>
    BY ModelsAssumption
  <1>2. PICK S : S = Compact \cup Spheroidal \cup Unbounded
    OBVIOUS
  <1>3. rbfs \in Seq(S) /\ rbfs # <<>>
    BY <1>1, <1>2
  <1>4. Len(rbfs) \in Nat \ {0} /\ DOMAIN rbfs = 1..Len(rbfs)
          /\ \A i \in DOMAIN rbfs : rbfs[i] \in S
    BY <1>3
  <1>. QED BY <1>1, <1>2, <1>4, ModelsAssumption

\* Points that were set, or none before.
LEMMA ListFacts ==
  ASSUME NEW list \in Lists \cup {Nothing}
  PROVE  list.points \in Seq(Nat) /\ list.grads \in Seq(Nat) /\ Len(list.points) \in Nat
           /\ Len(list.grads) \in Nat
  <1>1. CASE list \in Lists
    BY <1>1, ListsAssumption
  <1>2. CASE list = Nothing
    <2>1. list.points = <<>> /\ list.grads = <<>>
      BY <1>2 DEF Nothing
    <2>. QED BY <2>1
  <1>. QED BY <1>1, <1>2

\* A share is a number.
LEMMA ShareType ==
  ASSUME model \in Models, NEW n \in Nat
  PROVE  Share(ValueAccuracy, n) \in Nat /\ Share(GradAccuracy, n) \in Nat
  <1>1. ASSUME NEW x \in Nat PROVE Share(x, n) \in Nat
    <2>1. x \div 2 \in Nat
      BY Shares
    <2>2. Len(model.rbfs) \in Nat \ {0}
      BY ModelFacts
    <2>3. PICK z \in Nat : z = IF n > 0 THEN x \div 2 ELSE x
      BY <2>1
    <2>4. z \div Len(model.rbfs) \in Nat
      BY <2>2, Shares
    <2>. QED BY <2>3, <2>4 DEF Share
  <1>. QED BY <1>1, SharesAssumption

\* The blocks of all rbfs, made and set.
LEMMA BlocksMade ==
  ASSUME NEW rbfs, NEW kernel, NEW symmetric, NEW bound \in Nat
  PROVE  BlocksAre(rbfs, [i \in DOMAIN rbfs |-> Make(rbfs[i], kernel, symmetric)], kernel,
           symmetric,
                   <<>>, <<>>, bound)
  <1>1. \A name : BlockIs(Make(name, kernel, symmetric), name, kernel, symmetric, <<>>, <<>>, bound)
    BY BlockMade
  <1>. QED BY <1>1 DEF BlocksAre

LEMMA BlocksSourced ==
  ASSUME NEW rbfs, NEW blocks, NEW kernel, NEW symmetric, NEW sources, NEW targets, NEW bound,
         BlocksAre(rbfs, blocks, kernel, symmetric, sources, targets, bound), NEW ps, NEW c \in Nat
  PROVE  BlocksAre(rbfs, [i \in DOMAIN rbfs |-> set_accuracy(set_source_points(blocks[i], ps), c)],
                   kernel, symmetric, ps, targets, c)
  <1>1. ASSUME NEW i \in DOMAIN rbfs
        PROVE  BlockIs(set_accuracy(set_source_points(blocks[i], ps), c), rbfs[i], kernel,
                 symmetric, ps, targets, c)
    <2>1. PICK b : b = set_source_points(blocks[i], ps)
      OBVIOUS
    <2>2. BlockIs(b, rbfs[i], kernel, symmetric, ps, targets, bound)
      BY <2>1, BlockSource DEF BlocksAre
    <2>. QED BY <2>1, <2>2, BlockAccuracy
  <1>. QED BY <1>1 DEF BlocksAre

LEMMA BlocksTargeted ==
  ASSUME NEW rbfs, NEW blocks, NEW kernel, NEW symmetric, NEW sources, NEW targets, NEW bound,
         BlocksAre(rbfs, blocks, kernel, symmetric, sources, targets, bound), NEW ps
  PROVE  /\ BlocksAre(rbfs, [i \in DOMAIN rbfs |-> set_target_points(blocks[i], ps)],
                      kernel, symmetric, sources, ps, bound)
         /\ \A i \in DOMAIN rbfs : \A w :
              Weighted(blocks[i], kernel, sources, w)
                => Weighted(set_target_points(blocks[i], ps), kernel, sources, w)
  <1>1. ASSUME NEW i \in DOMAIN rbfs
        PROVE  /\ BlockIs(set_target_points(blocks[i], ps), rbfs[i], kernel, symmetric, sources,
                    ps, bound)
               /\ \A w : Weighted(blocks[i], kernel, sources, w)
                           => Weighted(set_target_points(blocks[i], ps), kernel, sources, w)
    BY BlockTarget DEF BlocksAre
  <1>. QED BY <1>1 DEF BlocksAre

LEMMA BlocksCrossed ==
  ASSUME NEW rbfs, NEW blocks, NEW kernel, NEW symmetric, NEW sources, NEW targets, NEW bound,
         BlocksAre(rbfs, blocks, kernel, symmetric, sources, targets, bound), NEW p, NEW q, NEW c
           \in Nat
  PROVE  BlocksAre(rbfs, [i \in DOMAIN rbfs |->
                           set_accuracy(set_target_points(set_source_points(blocks[i], p), q), c)],
                   kernel, symmetric, p, q, c)
  <1>1. ASSUME NEW i \in DOMAIN rbfs
        PROVE  BlockIs(set_accuracy(set_target_points(set_source_points(blocks[i], p), q), c),
                       rbfs[i], kernel, symmetric, p, q, c)
    <2>1. PICK b : b = set_source_points(blocks[i], p)
      OBVIOUS
    <2>2. BlockIs(b, rbfs[i], kernel, symmetric, p, targets, bound)
      BY <2>1, BlockSource DEF BlocksAre
    <2>3. BlockIs(set_target_points(b, q), rbfs[i], kernel, symmetric, p, q, bound)
      BY <2>2, BlockTarget
    <2>. QED BY <2>1, <2>3, BlockAccuracy
  <1>. QED BY <1>1 DEF BlocksAre

LEMMA BlocksPointed ==
  ASSUME NEW rbfs, NEW blocks, NEW kernel, NEW symmetric, NEW sources, NEW targets, NEW bound,
         BlocksAre(rbfs, blocks, kernel, symmetric, sources, targets, bound), NEW ps, NEW c \in Nat
  PROVE  BlocksAre(rbfs, [i \in DOMAIN rbfs |-> set_accuracy(set_points(blocks[i], ps), c)],
                   kernel, symmetric, ps, ps, c)
  <1>1. ASSUME NEW i \in DOMAIN rbfs
        PROVE  BlockIs(set_accuracy(set_points(blocks[i], ps), c), rbfs[i], kernel, symmetric,
                 ps, ps, c)
    <2>1. PICK b : b = set_points(blocks[i], ps)
      OBVIOUS
    <2>2. BlockIs(b, rbfs[i], kernel, symmetric, ps, ps, bound)
      BY <2>1, BlockPoints DEF BlocksAre
    <2>. QED BY <2>1, <2>2, BlockAccuracy
  <1>. QED BY <1>1 DEF BlocksAre

LEMMA BlocksWeighted ==
  ASSUME NEW rbfs, NEW blocks, NEW kernel, NEW symmetric, NEW sources, NEW targets, NEW bound,
         BlocksAre(rbfs, blocks, kernel, symmetric, sources, targets, bound), NEW w
  PROVE  /\ BlocksAre(rbfs, [i \in DOMAIN rbfs |-> set_weights(blocks[i], w)], kernel, symmetric,
              sources, targets, bound)
         /\ \A i \in DOMAIN rbfs : Weighted(set_weights(blocks[i], w), kernel, sources, w)
  <1>1. ASSUME NEW i \in DOMAIN rbfs
        PROVE  /\ BlockIs(set_weights(blocks[i], w), rbfs[i], kernel, symmetric, sources,
                    targets, bound)
               /\ Weighted(set_weights(blocks[i], w), kernel, sources, w)
    BY BlockWeights DEF BlocksAre
  <1>. QED BY <1>1 DEF BlocksAre

\* Blocks are made without points and with no accuracy.
LEMMA BlocksInitRight == BlockInit => BlockInv
  <1>. SUFFICES ASSUME BlockInit PROVE BlockInv
    OBVIOUS
  <1>1. GivenInv
    BY DEF BlockInit, GivenInv, Nothing
  <1>2. PICK va, ga : va = Share(ValueAccuracy, sigma) /\ ga = Share(GradAccuracy, sigma)
    OBVIOUS
  <1>3. va \in Nat /\ ga \in Nat
    BY <1>2, ShareType DEF BlockInit
  <1>4. PICK rbfs, s : rbfs = model.rbfs /\ s = (kind # "Evaluator")
    OBVIOUS
  <1>5. /\ BlocksAre(rbfs, a, "value", s, <<>>, <<>>, va)
        /\ BlocksAre(rbfs, f, "gradient", FALSE, <<>>, <<>>, va)
        /\ BlocksAre(rbfs, ft, "gradientTranspose", FALSE, <<>>, <<>>, ga)
        /\ BlocksAre(rbfs, h, "hessian", s, <<>>, <<>>, ga)
    <2>1. /\ a = [i \in DOMAIN rbfs |-> Make(rbfs[i], "value", s)]
          /\ f = [i \in DOMAIN rbfs |-> Make(rbfs[i], "gradient", FALSE)]
          /\ ft = [i \in DOMAIN rbfs |-> Make(rbfs[i], "gradientTranspose", FALSE)]
          /\ h = [i \in DOMAIN rbfs |-> Make(rbfs[i], "hessian", s)]
      <3>1. (kind = "Evaluator" /\ s = FALSE) \/ (kind # "Evaluator" /\ s = TRUE)
        BY <1>4
      <3>. QED BY <1>4, <3>1
             DEF BlockInit, Rbfs, Symmetric, make_fmm_evaluator, make_fmm_symmetric_evaluator,
                  make_fmm_gradient_evaluator, make_fmm_gradient_transpose_evaluator,
                  make_fmm_hessian_evaluator, make_fmm_hessian_symmetric_evaluator
    <2>. QED BY <1>3, <2>1, BlocksMade
  <1>6. PlacesInv
    BY <1>2, <1>4, <1>5 DEF BlockInit, PlacesInv, Places, Nothing
  <1>7. poly.rows = Functionals(given.trg.points, given.trg.grads)
    BY DimAssumption DEF BlockInit, Functionals, Nothing
  <1>. QED BY <1>1, <1>6, <1>7 DEF BlockInit, BlockInv, BlocksLatest

\* The weights are set in all blocks.
LEMMA WeightsSet ==
  ASSUME NEW symmetric, NEW rbfs, NEW sources, NEW targets, NEW va, NEW ga,
         Places(symmetric, rbfs, sources, targets, va, ga, a, f, ft, h), NEW w, NEW n, NEW m,
         NEW aa, aa = [i \in DOMAIN rbfs |-> set_weights(a[i], FirstOf(w, n))],
         NEW ff, ff = [i \in DOMAIN rbfs |-> set_weights(f[i], Segment(w, n, m))],
         NEW ftt, ftt = [i \in DOMAIN rbfs |-> set_weights(ft[i], FirstOf(w, n))],
         NEW hh, hh = [i \in DOMAIN rbfs |-> set_weights(h[i], Segment(w, n, m))]
  PROVE  Places(symmetric, rbfs, sources, targets, va, ga, aa, ff, ftt, hh)
           /\ WeightsIn(rbfs, sources, w, n, m, aa, ff, ftt, hh)
  <1>1. /\ BlocksAre(rbfs, a, "value", symmetric, sources.points, targets.points, va)
        /\ BlocksAre(rbfs, f, "gradient", FALSE, sources.grads, targets.points, va)
        /\ BlocksAre(rbfs, ft, "gradientTranspose", FALSE, sources.points, targets.grads, ga)
        /\ BlocksAre(rbfs, h, "hessian", symmetric, sources.grads, targets.grads, ga)
    BY DEF Places
  <1>2. /\ BlocksAre(rbfs, aa, "value", symmetric, sources.points, targets.points, va)
        /\ \A i \in DOMAIN rbfs : Weighted(aa[i], "value", sources.points, FirstOf(w, n))
    BY <1>1, BlocksWeighted
  <1>3. /\ BlocksAre(rbfs, ff, "gradient", FALSE, sources.grads, targets.points, va)
        /\ \A i \in DOMAIN rbfs : Weighted(ff[i], "gradient", sources.grads, Segment(w, n, m))
    BY <1>1, BlocksWeighted
  <1>4. /\ BlocksAre(rbfs, ftt, "gradientTranspose", FALSE, sources.points, targets.grads, ga)
        /\ \A i \in DOMAIN rbfs : Weighted(ftt[i], "gradientTranspose", sources.points,
             FirstOf(w, n))
    BY <1>1, BlocksWeighted
  <1>5. /\ BlocksAre(rbfs, hh, "hessian", symmetric, sources.grads, targets.grads, ga)
        /\ \A i \in DOMAIN rbfs : Weighted(hh[i], "hessian", sources.grads, Segment(w, n, m))
    BY <1>1, BlocksWeighted
  <1>. QED BY <1>2, <1>3, <1>4, <1>5 DEF Places, WeightsIn

\* Shares depend on the model and the number of gradients.
LEMMA SharesStay ==
  ASSUME model' = model
  PROVE  /\ Share(ValueAccuracy, sigma)' = Share(ValueAccuracy, sigma')
         /\ Share(GradAccuracy, sigma)' = Share(GradAccuracy, sigma')
  BY DEF Share

\* The setters, one by one.
LEMMA StepSources == BlockInv /\ SetBlockSources => BlockInv'
  <1>. SUFFICES ASSUME BlockInv, SetBlockSources PROVE BlockInv'
    OBVIOUS
  <1>1. PICK list \in Lists :
          /\ kind = "Evaluator" /\ set_source_points_(list.points, list.grads)
          /\ given' = [given EXCEPT !.src = list, !.w = Unset] /\ y' = Unset /\ kind' = kind
               /\ model' = model
    BY DEF SetBlockSources
  <1>2. GivenInv'
    BY <1>1 DEF GivenInv, BlockInv, set_source_points_
  <1>3. sigma' \in Nat /\ sigma' = Len(list.grads)
    BY <1>1, ListFacts DEF set_source_points_
  <1>4. PICK va \in Nat, ga \in Nat : va = Share(ValueAccuracy, sigma')
               /\ ga = Share(GradAccuracy, sigma')
    BY <1>3, ShareType DEF BlockInv, GivenInv
  <1>5. given'.src = list /\ given'.trg = given.trg /\ given'.w = Unset
    BY <1>1 DEF BlockInv, GivenInv
  <1>6. /\ BlocksAre(model.rbfs, a', "value", FALSE, list.points, given.trg.points, va)
        /\ BlocksAre(model.rbfs, f', "gradient", FALSE, list.grads, given.trg.points, va)
        /\ BlocksAre(model.rbfs, ft', "gradientTranspose", FALSE, list.points, given.trg.grads, ga)
        /\ BlocksAre(model.rbfs, h', "hessian", FALSE, list.grads, given.trg.grads, ga)
    <2>1. \E c, d :
            /\ BlocksAre(model.rbfs, a, "value", FALSE, given.src.points, given.trg.points, c)
            /\ BlocksAre(model.rbfs, f, "gradient", FALSE, given.src.grads, given.trg.points, c)
            /\ BlocksAre(model.rbfs, ft, "gradientTranspose", FALSE, given.src.points,
                 given.trg.grads, d)
            /\ BlocksAre(model.rbfs, h, "hessian", FALSE, given.src.grads, given.trg.grads, d)
      BY <1>1 DEF BlockInv, BlocksLatest, PlacesInv, Places
    <2>2. /\ a' = [i \in DOMAIN model.rbfs |-> set_accuracy(set_source_points(a[i], list.points),
               va)]
          /\ f' = [i \in DOMAIN model.rbfs |-> set_accuracy(set_source_points(f[i], list.grads),
               va)]
          /\ ft' = [i
               \in DOMAIN model.rbfs |-> set_accuracy(set_source_points(ft[i], list.points), ga)]
          /\ h' = [i \in DOMAIN model.rbfs |-> set_accuracy(set_source_points(h[i], list.grads),
               ga)]
      BY <1>1, <1>4 DEF set_source_points_, Rbfs
    <2>. QED BY <2>1, <2>2, BlocksSourced
  <1>7. PlacesInv'
    BY <1>1, <1>4, <1>5, <1>6, SharesStay DEF PlacesInv, Places
  <1>8. poly' = poly
    BY <1>1 DEF set_source_points_
  <1>. QED BY <1>1, <1>2, <1>5, <1>7, <1>8 DEF BlockInv, BlocksLatest

LEMMA StepTargets == BlockInv /\ SetBlockTargets => BlockInv'
  <1>. SUFFICES ASSUME BlockInv, SetBlockTargets PROVE BlockInv'
    OBVIOUS
  <1>1. PICK list \in Lists :
          /\ kind = "Evaluator" /\ set_target_points_(list.points, list.grads)
          /\ given' = [given EXCEPT !.trg = list] /\ y' = Unset /\ kind' = kind /\ model' = model
    BY DEF SetBlockTargets
  <1>2. GivenInv'
    BY <1>1 DEF GivenInv, BlockInv, set_target_points_
  <1>3. /\ given'.src = given.src /\ given'.trg = list /\ given'.w = given.w
        /\ mu' = mu /\ sigma' = sigma
    BY <1>1 DEF BlockInv, GivenInv, set_target_points_
  <1>4. PICK va, ga, w, m : /\ va = Share(ValueAccuracy, sigma) /\ ga = Share(GradAccuracy, sigma)
                            /\ w = given.w /\ m = kDim * sigma
    OBVIOUS
  <1>5. /\ BlocksAre(model.rbfs, a, "value", FALSE, given.src.points, given.trg.points, va)
        /\ BlocksAre(model.rbfs, f, "gradient", FALSE, given.src.grads, given.trg.points, va)
        /\ BlocksAre(model.rbfs, ft, "gradientTranspose", FALSE, given.src.points,
             given.trg.grads, ga)
        /\ BlocksAre(model.rbfs, h, "hessian", FALSE, given.src.grads, given.trg.grads, ga)
    BY <1>1, <1>4 DEF BlockInv, BlocksLatest, PlacesInv, Places
  <1>6. /\ a' = [i \in DOMAIN model.rbfs |-> set_target_points(a[i], list.points)]
        /\ f' = [i \in DOMAIN model.rbfs |-> set_target_points(f[i], list.points)]
        /\ ft' = [i \in DOMAIN model.rbfs |-> set_target_points(ft[i], list.grads)]
        /\ h' = [i \in DOMAIN model.rbfs |-> set_target_points(h[i], list.grads)]
    BY <1>1 DEF set_target_points_, Rbfs
  <1>7. /\ BlocksAre(model.rbfs, a', "value", FALSE, given.src.points, list.points, va)
        /\ BlocksAre(model.rbfs, f', "gradient", FALSE, given.src.grads, list.points, va)
        /\ BlocksAre(model.rbfs, ft', "gradientTranspose", FALSE, given.src.points, list.grads, ga)
        /\ BlocksAre(model.rbfs, h', "hessian", FALSE, given.src.grads, list.grads, ga)
    <2>1. BlocksAre(model.rbfs, a', "value", FALSE, given.src.points, list.points, va)
      BY <1>5, <1>6, BlocksTargeted
    <2>2. BlocksAre(model.rbfs, f', "gradient", FALSE, given.src.grads, list.points, va)
      BY <1>5, <1>6, BlocksTargeted
    <2>3. BlocksAre(model.rbfs, ft', "gradientTranspose", FALSE, given.src.points, list.grads, ga)
      BY <1>5, <1>6, BlocksTargeted
    <2>4. BlocksAre(model.rbfs, h', "hessian", FALSE, given.src.grads, list.grads, ga)
      BY <1>5, <1>6, BlocksTargeted
    <2>. QED BY <2>1, <2>2, <2>3, <2>4
  <1>8. PlacesInv'
    BY <1>1, <1>3, <1>4, <1>7, SharesStay DEF PlacesInv, Places
  <1>9. WeightsIn(model.rbfs, given.src, w, mu, m, a, f, ft, h)
        => WeightsIn(model.rbfs, given.src, w, mu, m, a', f', ft', h')
    <2>1. ASSUME NEW i \in DOMAIN model.rbfs
          PROVE  /\ \A x : Weighted(a[i], "value", given.src.points, x)
                      => Weighted(a'[i], "value", given.src.points, x)
                 /\ \A x : Weighted(f[i], "gradient", given.src.grads, x)
                      => Weighted(f'[i], "gradient", given.src.grads, x)
                 /\ \A x : Weighted(ft[i], "gradientTranspose", given.src.points, x)
                             => Weighted(ft'[i], "gradientTranspose", given.src.points, x)
                 /\ \A x : Weighted(h[i], "hessian", given.src.grads, x)
                      => Weighted(h'[i], "hessian", given.src.grads, x)
      BY <1>5, <1>6, BlocksTargeted
    <2>. QED BY <2>1 DEF WeightsIn
  <1>10. /\ poly' = [poly EXCEPT !.rows = Functionals(list.points, list.grads)]
         /\ poly = [rows |-> poly.rows, weights |-> poly.weights]
    BY <1>1 DEF BlockInv, set_target_points_
  <1>11. /\ poly' = [rows |-> poly'.rows, weights |-> poly'.weights]
         /\ poly'.rows = Functionals(list.points, list.grads) /\ poly'.weights = poly.weights
    BY <1>10
  <1>12. Functionals(given.trg.points, given.trg.grads)' = Functionals(list.points, list.grads)
    BY <1>3 DEF Functionals
  <1>13. w # Unset => WeightsIn(model.rbfs, given.src, w, mu, m, a, f, ft, h)
    BY <1>4 DEF BlockInv, BlocksLatest
  <1>14. given'.w # Unset
           => WeightsIn(model'.rbfs, given'.src, given'.w, mu', kDim * sigma', a', f', ft', h')
    BY <1>1, <1>3, <1>4, <1>9, <1>13
  <1>15. given'.w # Unset /\ kind' # "Operator" => poly'.weights = LastOf(given'.w, model'.l)
    BY <1>1, <1>3, <1>11 DEF BlockInv, BlocksLatest
  <1>. QED BY <1>2, <1>8, <1>11, <1>12, <1>14, <1>15 DEF BlockInv, BlocksLatest

LEMMA StepPoints == BlockInv /\ SetBlockPoints => BlockInv'
  <1>. SUFFICES ASSUME BlockInv, SetBlockPoints PROVE BlockInv'
    OBVIOUS
  <1>1. PICK list \in Lists :
          /\ kind # "Evaluator" /\ set_points_(list.points, list.grads)
          /\ given' = [src |-> list, trg |-> list, w |-> Unset] /\ y' = Unset /\ kind' = kind
               /\ model' = model
    BY DEF SetBlockPoints, Symmetric
  <1>2. GivenInv'
    BY <1>1 DEF GivenInv, BlockInv, set_points_
  <1>3. sigma' \in Nat /\ sigma' = Len(list.grads)
    BY <1>1, ListFacts DEF set_points_
  <1>4. PICK va \in Nat, ga \in Nat : va = Share(ValueAccuracy, sigma')
               /\ ga = Share(GradAccuracy, sigma')
    BY <1>3, ShareType DEF BlockInv, GivenInv
  <1>5. given'.src = list /\ given'.trg = list /\ given'.w = Unset
    BY <1>1
  <1>6. \E c, d :
          /\ BlocksAre(model.rbfs, a, "value", TRUE, given.src.points, given.trg.points, c)
          /\ BlocksAre(model.rbfs, f, "gradient", FALSE, given.src.grads, given.trg.points, c)
          /\ BlocksAre(model.rbfs, ft, "gradientTranspose", FALSE, given.src.points,
               given.trg.grads, d)
          /\ BlocksAre(model.rbfs, h, "hessian", TRUE, given.src.grads, given.trg.grads, d)
    BY <1>1 DEF BlockInv, BlocksLatest, PlacesInv, Places
  <1>7. /\ a' = [i \in DOMAIN model.rbfs |-> set_accuracy(set_points(a[i], list.points), va)]
        /\ f' = [i \in DOMAIN model.rbfs |->
                  set_accuracy(set_target_points(set_source_points(f[i], list.grads),
                    list.points), va)]
        /\ ft' = [i \in DOMAIN model.rbfs |->
                   set_accuracy(set_target_points(set_source_points(ft[i], list.points),
                     list.grads), ga)]
        /\ h' = [i \in DOMAIN model.rbfs |-> set_accuracy(set_points(h[i], list.grads), ga)]
    BY <1>1, <1>4 DEF set_points_, Rbfs
  <1>8. /\ BlocksAre(model.rbfs, a', "value", TRUE, list.points, list.points, va)
        /\ BlocksAre(model.rbfs, h', "hessian", TRUE, list.grads, list.grads, ga)
    <2>1. BlocksAre(model.rbfs, a', "value", TRUE, list.points, list.points, va)
      BY <1>6, <1>7, BlocksPointed
    <2>2. BlocksAre(model.rbfs, h', "hessian", TRUE, list.grads, list.grads, ga)
      BY <1>6, <1>7, BlocksPointed
    <2>. QED BY <2>1, <2>2
  <1>9. /\ BlocksAre(model.rbfs, f', "gradient", FALSE, list.grads, list.points, va)
        /\ BlocksAre(model.rbfs, ft', "gradientTranspose", FALSE, list.points, list.grads, ga)
    <2>1. BlocksAre(model.rbfs, [i \in DOMAIN model.rbfs |->
                      set_accuracy(set_target_points(set_source_points(f[i], list.grads),
                        list.points), va)],
                    "gradient", FALSE, list.grads, list.points, va)
      BY <1>6, BlocksCrossed
    <2>2. BlocksAre(model.rbfs, [i \in DOMAIN model.rbfs |->
                      set_accuracy(set_target_points(set_source_points(ft[i], list.points),
                        list.grads), ga)],
                    "gradientTranspose", FALSE, list.points, list.grads, ga)
      BY <1>6, BlocksCrossed
    <2>. QED BY <1>7, <2>1, <2>2
  <1>10. PlacesInv'
    BY <1>1, <1>4, <1>5, <1>8, <1>9, SharesStay DEF PlacesInv, Places
  <1>11. /\ poly' = [poly EXCEPT !.rows = Functionals(list.points, list.grads)]
         /\ poly = [rows |-> poly.rows, weights |-> poly.weights]
    BY <1>1 DEF BlockInv, set_points_
  <1>12. /\ poly' = [rows |-> poly'.rows, weights |-> poly'.weights]
         /\ poly'.rows = Functionals(list.points, list.grads)
    BY <1>11
  <1>13. Functionals(given.trg.points, given.trg.grads)' = Functionals(list.points, list.grads)
    BY <1>5 DEF Functionals
  <1>. QED BY <1>2, <1>5, <1>10, <1>12, <1>13 DEF BlockInv, BlocksLatest

\* What stays when only weights are set.
LEMMA WeightsStep ==
  ASSUME BlockInv, NEW w, kind' = kind, model' = model, mu' = mu, sigma' = sigma,
         trg_mu' = trg_mu, trg_sigma' = trg_sigma, given' = [given EXCEPT !.w = w],
         a' = [i \in Rbfs |-> set_weights(a[i], FirstOf(w, mu))],
         f' = [i \in Rbfs |-> set_weights(f[i], Segment(w, mu, kDim * sigma))],
         ft' = [i \in Rbfs |-> set_weights(ft[i], FirstOf(w, mu))],
         h' = [i \in Rbfs |-> set_weights(h[i], Segment(w, mu, kDim * sigma))]
  PROVE  /\ GivenInv' /\ PlacesInv' /\ given'.w = w /\ given'.trg = given.trg
         /\ WeightsIn(model.rbfs, given.src, given.w, mu, kDim * sigma, a, f, ft, h)'
  <1>1. GivenInv'
    BY DEF GivenInv, BlockInv
  <1>2. given'.src = given.src /\ given'.trg = given.trg /\ given'.w = w
    BY DEF BlockInv, GivenInv
  <1>3. PICK va, ga, m, rbfs : /\ va = Share(ValueAccuracy, sigma)
                                    /\ ga = Share(GradAccuracy, sigma)
                               /\ m = kDim * sigma /\ rbfs = model.rbfs
    OBVIOUS
  <1>4. PICK s : s = (kind # "Evaluator")
    OBVIOUS
  <1>5. Places(s, rbfs, given.src, given.trg, va, ga, a, f, ft, h)
    BY <1>3, <1>4 DEF BlockInv, BlocksLatest, PlacesInv
  <1>6. /\ Places(s, rbfs, given.src, given.trg, va, ga, a', f', ft', h')
        /\ WeightsIn(rbfs, given.src, w, mu, m, a', f', ft', h')
    BY <1>3, <1>5, WeightsSet DEF Rbfs
  <1>7. PlacesInv'
    BY <1>2, <1>3, <1>4, <1>6, SharesStay DEF PlacesInv
  <1>8. WeightsIn(model'.rbfs, given'.src, given'.w, mu', kDim * sigma', a', f', ft', h')
    BY <1>2, <1>3, <1>6
  <1>. QED BY <1>1, <1>2, <1>7, <1>8

LEMMA StepWeights == BlockInv /\ SetBlockWeights => BlockInv'
  <1>. SUFFICES ASSUME BlockInv, SetBlockWeights PROVE BlockInv'
    OBVIOUS
  <1>1. PICK w : /\ kind # "Operator" /\ set_weights_(w) /\ given' = [given EXCEPT !.w = w]
                      /\ y' = Unset
                 /\ kind' = kind /\ model' = model
    BY DEF SetBlockWeights
  <1>2. /\ GivenInv' /\ PlacesInv' /\ given'.w = w /\ given'.trg = given.trg
        /\ WeightsIn(model.rbfs, given.src, given.w, mu, kDim * sigma, a, f, ft, h)'
    BY <1>1, WeightsStep DEF set_weights_
  <1>3. poly' = [poly EXCEPT !.weights = LastOf(w, model.l)]
          /\ poly = [rows |-> poly.rows, weights |-> poly.weights]
    BY <1>1 DEF BlockInv, set_weights_
  <1>4. /\ poly' = [rows |-> poly'.rows, weights |-> poly'.weights]
        /\ poly'.rows = poly.rows /\ poly'.weights = LastOf(w, model.l)
    BY <1>3
  <1>5. Functionals(given.trg.points, given.trg.grads)'
          = Functionals(given.trg.points, given.trg.grads)
    BY <1>2 DEF Functionals
  <1>6. poly'.rows = Functionals(given.trg.points, given.trg.grads)'
    BY <1>4, <1>5 DEF BlockInv, BlocksLatest
  <1>7. LastOf(given.w, model.l)' = LastOf(w, model.l)
    BY <1>1, <1>2 DEF LastOf
  <1>. QED BY <1>2, <1>4, <1>6, <1>7 DEF BlockInv, BlocksLatest

\* Operator::operator() sets the weights as well.
LEMMA StepApply == BlockInv /\ Apply => BlockInv'
  <1>. SUFFICES ASSUME BlockInv, Apply PROVE BlockInv'
    OBVIOUS
  <1>1. PICK w : /\ kind = "Operator" /\ given' = [given EXCEPT !.w = w]
                 /\ a' = [i \in Rbfs |-> set_weights(a[i], FirstOf(w, mu))]
                 /\ f' = [i \in Rbfs |-> set_weights(f[i], Segment(w, mu, kDim * sigma))]
                 /\ ft' = [i \in Rbfs |-> set_weights(ft[i], FirstOf(w, mu))]
                 /\ h' = [i \in Rbfs |-> set_weights(h[i], Segment(w, mu, kDim * sigma))]
                 /\ kind' = kind /\ model' = model /\ mu' = mu /\ sigma' = sigma
                 /\ trg_mu' = trg_mu /\ trg_sigma' = trg_sigma /\ poly' = poly
    BY DEF Apply
  <1>2. /\ GivenInv' /\ PlacesInv' /\ given'.w = w /\ given'.trg = given.trg
        /\ WeightsIn(model.rbfs, given.src, given.w, mu, kDim * sigma, a, f, ft, h)'
    BY <1>1, WeightsStep
  <1>3. Functionals(given.trg.points, given.trg.grads)'
          = Functionals(given.trg.points, given.trg.grads)
    BY <1>2 DEF Functionals
  <1>4. poly'.rows = Functionals(given.trg.points, given.trg.grads)'
    BY <1>1, <1>3 DEF BlockInv, BlocksLatest
  <1>. QED BY <1>1, <1>2, <1>4 DEF BlockInv, BlocksLatest

\* An evaluation leaves the blocks alone.
LEMMA BlocksStay == BlockInv
  /\ UNCHANGED <<kind, model, a, f, ft, h, mu, sigma, trg_mu, trg_sigma, poly, given>> => BlockInv'
  BY DEF BlockInv, GivenInv, BlocksLatest, PlacesInv, Places, Share, WeightsIn, Functionals,
    FirstOf, Segment, LastOf

\* BlockInv is inductive.
LEMMA BlockInvKept == BlockInv /\ [BlockNext]_blockVars => BlockInv'
  <1>. SUFFICES ASSUME BlockInv, [BlockNext]_blockVars PROVE BlockInv'
    OBVIOUS
  <1>1. CASE EvaluateBlocks
    BY <1>1, BlocksStay DEF EvaluateBlocks
  <1>2. CASE UNCHANGED blockVars
    BY <1>2, BlocksStay DEF blockVars
  <1>. QED BY <1>1, <1>2, StepSources, StepTargets, StepPoints, StepWeights, StepApply DEF BlockNext

\* Without gradients at the sources or at the targets no block asks for a second derivative.
LEMMA NoFailure ==
  ASSUME BlockInv, given.src.grads = <<>> \/ given.trg.grads = <<>>
  PROVE  ~EvaluationFails
  <1>1. SUFFICES ASSUME NEW i \in Rbfs, NEW block \in {a[i], f[i], ft[i], h[i]}, NEW k
                   \in DOMAIN block,
                        Terminates(block[k])
                 PROVE  FALSE
    BY DEF EvaluationFails, Fails
  <1>2. i \in DOMAIN model.rbfs
    BY DEF Rbfs
  <1>3. PICK s : s = (kind # "Evaluator")
    OBVIOUS
  <1>4. \E va, ga :
          /\ BlockIs(a[i], model.rbfs[i], "value", s, given.src.points, given.trg.points, va)
          /\ BlockIs(f[i], model.rbfs[i], "gradient", FALSE, given.src.grads, given.trg.points, va)
          /\ BlockIs(ft[i], model.rbfs[i], "gradientTranspose", FALSE, given.src.points,
               given.trg.grads, ga)
          /\ BlockIs(h[i], model.rbfs[i], "hessian", s, given.src.grads, given.trg.grads, ga)
    BY <1>2, <1>3 DEF BlockInv, BlocksLatest, PlacesInv, Places, BlocksAre
  <1>5. \A b, name, kernel, symmetric, sources, targets, bound :
          BlockIs(b, name, kernel, symmetric, sources, targets, bound) /\ k \in DOMAIN b
          => b[k].kernel = kernel /\ b[k].symmetric = symmetric /\ b[k].src = sources
            /\ b[k].trg = targets
    BY DEF BlockIs, PartIs
  <1>6. block[k].kernel = "hessian"
    BY <1>1 DEF Terminates
  <1>7. block = h[i]
    BY <1>4, <1>5, <1>6
  <1>8. PICK p : p = block[k]
    OBVIOUS
  <1>9. p.symmetric = s /\ p.src = given.src.grads /\ p.trg = given.trg.grads
    BY <1>4, <1>5, <1>7, <1>8
  <1>10. PICK t \in DOMAIN p.trg : p.symmetric \/ InReach(p, t) # {}
    BY <1>1, <1>8 DEF Terminates
  <1>11. p.trg # <<>>
    BY <1>10
  <1>12. p.src = <<>>
    BY <1>9, <1>11
  <1>13. InReach(p, t) = {}
    BY <1>12 DEF InReach
  <1>14. kind # "Evaluator"
    BY <1>3, <1>9, <1>10, <1>13
  <1>. QED BY <1>9, <1>11, <1>12, <1>14 DEF BlockInv, GivenInv

\* Shares of all blocks add up, and there is no failure.
LEMMA SuitableFromInv == BlockInv => BlocksSuitable
  <1>. SUFFICES ASSUME BlockInv PROVE BlocksSuitable
    OBVIOUS
  <1>1. sigma \in Nat /\ sigma = Len(given.src.grads) /\ (sigma = 0 => given.src.grads = <<>>)
    <2>1. given.src.grads \in Seq(Nat) /\ sigma = Len(given.src.grads)
      BY ListFacts DEF BlockInv, GivenInv
    <2>. QED BY <2>1
  <1>2. /\ Len(model.rbfs) \in Nat \ {0} /\ DOMAIN model.rbfs = 1..Len(model.rbfs)
        /\ \A i \in DOMAIN model.rbfs : model.rbfs[i] \in Compact \cup Spheroidal \cup Unbounded
    BY ModelFacts DEF BlockInv, GivenInv
  <1>3. PICK va \in Nat, ga \in Nat : va = Share(ValueAccuracy, sigma)
               /\ ga = Share(GradAccuracy, sigma)
    BY <1>1, ShareType DEF BlockInv, GivenInv
  <1>4. ASSUME NEW i \in 1..Len(model.rbfs)
        PROVE  /\ Error(a[i]) \in Nat /\ Error(a[i]) <= va
               /\ Error(f[i]) \in Nat /\ Error(f[i]) <= va /\ (sigma = 0 => Error(f[i]) = 0)
               /\ Error(ft[i]) \in Nat /\ Error(ft[i]) <= ga
               /\ Error(h[i]) \in Nat /\ Error(h[i]) <= ga /\ (sigma = 0 => Error(h[i]) = 0)
    <2>1. PICK s : s = (kind # "Evaluator")
      OBVIOUS
    <2>2. /\ BlockIs(a[i], model.rbfs[i], "value", s, given.src.points, given.trg.points, va)
          /\ BlockIs(f[i], model.rbfs[i], "gradient", FALSE, given.src.grads, given.trg.points, va)
          /\ BlockIs(ft[i], model.rbfs[i], "gradientTranspose", FALSE, given.src.points,
               given.trg.grads, ga)
          /\ BlockIs(h[i], model.rbfs[i], "hessian", s, given.src.grads, given.trg.grads, ga)
      BY <1>2, <1>3, <2>1 DEF BlockInv, BlocksLatest, PlacesInv, Places, BlocksAre
    <2>3. model.rbfs[i] \in Compact \cup Spheroidal \cup Unbounded
      BY <1>2
    <2>4. Error(a[i]) \in Nat /\ Error(a[i]) <= va
      BY <2>2, <2>3, ErrorWithin
    <2>5. Error(f[i]) \in Nat /\ Error(f[i]) <= va /\ (sigma = 0 => Error(f[i]) = 0)
      BY <1>1, <2>2, <2>3, ErrorWithin
    <2>6. Error(ft[i]) \in Nat /\ Error(ft[i]) <= ga
      BY <2>2, <2>3, ErrorWithin
    <2>7. Error(h[i]) \in Nat /\ Error(h[i]) <= ga /\ (sigma = 0 => Error(h[i]) = 0)
      BY <1>1, <2>2, <2>3, ErrorWithin
    <2>. QED BY <2>4, <2>5, <2>6, <2>7
  <1>5. ErrorSum(a, f) <= ValueAccuracy
    <2>1. \A i \in 1..Len(model.rbfs) :
            /\ Error(a[i]) \in Nat /\ Error(a[i]) <= Share(ValueAccuracy, sigma)
            /\ Error(f[i]) \in Nat /\ Error(f[i]) <= Share(ValueAccuracy, sigma)
            /\ sigma = 0 => Error(f[i]) = 0
      BY <1>3, <1>4
    <2>. QED BY <1>1, <1>2, <2>1, ErrorSumWithin, SharesAssumption
  <1>6. ErrorSum(ft, h) <= GradAccuracy
    <2>1. \A i \in 1..Len(model.rbfs) :
            /\ Error(ft[i]) \in Nat /\ Error(ft[i]) <= Share(GradAccuracy, sigma)
            /\ Error(h[i]) \in Nat /\ Error(h[i]) <= Share(GradAccuracy, sigma)
            /\ sigma = 0 => Error(h[i]) = 0
      BY <1>3, <1>4
    <2>. QED BY <1>1, <1>2, <2>1, ErrorSumWithin, SharesAssumption
  <1>. QED BY <1>5, <1>6, NoFailure DEF BlocksSuitable

\* set_source_points, set_target_points, set_points and set_weights of Evaluator and its two
\* siblings in any order: no block of any rbf is left with points, weights or polynomial rows
\* from before the last of these calls.
THEOREM LatestAlways == BlockSpec => []BlocksLatest
  <1>1. BlockInv => BlocksLatest
    BY DEF BlockInv
  <1>. QED BY <1>1, BlocksInitRight, BlockInvKept, PTL DEF BlockSpec

\* The shares of set_accuracy add up to no more than what was asked for, with any rbfs in a
\* model and with or without gradients, and evaluate asks no rbf for a second derivative when
\* the sources or the targets have no gradients.
THEOREM SuitableAlways == BlockSpec => []BlocksSuitable
  BY BlocksInitRight, BlockInvKept, SuitableFromInv, PTL DEF BlockSpec

-----------------------------------------------------------------------------
\* added[i] is y with the blocks of the first i rbfs.
InTurn(added, y0, head, tail, aa, ff, ftt, hh) ==
  /\ added[0] = y0
  /\ \A i \in 1..Len(model.rbfs) :
       added[i] = [r \in DOMAIN y0 |->
                    CASE r \in 1..head -> added[i - 1][r]
                      (+) Plus(evaluate(aa[i]), evaluate(ff[i]))[r]
                      [] r \in (head + 1)..(head + tail) ->
                           added[i - 1][r] (+) Plus(evaluate(ftt[i]), evaluate(hh[i]))[r - head]
                      [] OTHER -> added[i - 1][r]]

\* What AddBlocks computes, one rbf after another.
LEMMA AddedInTurn ==
  ASSUME Len(model.rbfs) \in Nat \ {0}, NEW y0, NEW head, NEW tail, NEW aa, NEW ff, NEW ftt, NEW hh
  PROVE  \E added : /\ AddBlocks(y0, head, tail, aa, ff, ftt, hh) = added[Len(model.rbfs)]
                    /\ InTurn(added, y0, head, tail, aa, ff, ftt, hh)
  <1>. DEFINE Turn(i, z) ==
                LET at == Plus(evaluate(aa[i]), evaluate(ff[i]))
                    grad == Plus(evaluate(ftt[i]), evaluate(hh[i]))
                IN [r \in DOMAIN y0 |->
                     CASE r \in 1..head -> z[r] (+) at[r]
                       [] r \in (head + 1)..(head + tail) -> z[r] (+) grad[r - head]
                       [] OTHER -> z[r]]
              Rec(s, j) == s = [i \in 0..j |-> IF i = 0 THEN y0 ELSE Turn(i, s[i - 1])]
  <1>1. ASSUME NEW j \in Nat PROVE \E s : Rec(s, j)
    <2>. DEFINE Bad == {k \in Nat : ~\E s : Rec(s, k)}
    <2>1. SUFFICES ASSUME Bad # {} PROVE FALSE
      OBVIOUS
    <2>2. PICK k \in Bad : \A i \in Bad : k <= i
      <3>. HIDE DEF Turn
      <3>. QED BY <2>1, LeastNumber
    <2>. HIDE DEF Turn
    <2>3. CASE k = 0
      <3>1. Rec([i \in 0..0 |-> y0], 0)
        OBVIOUS
      <3>. QED BY <2>2, <2>3, <3>1
    <2>4. CASE k # 0
      <3>1. k - 1 \in Nat /\ k - 1 \notin Bad
        <4>1. k \in Nat /\ \A i \in Bad : i \in Nat
          BY <2>2
        <4>. HIDE DEF Bad
        <4>. QED BY <2>2, <2>4, <4>1
      <3>2. PICK s : Rec(s, k - 1)
        BY <3>1
      <3>. DEFINE r == [i \in 0..k |-> IF i < k THEN s[i] ELSE Turn(k, s[k - 1])]
      <3>3. ASSUME NEW i \in 0..k PROVE r[i] = IF i = 0 THEN y0 ELSE Turn(i, r[i - 1])
        <4>1. CASE i = 0
          BY <3>2, <4>1, <2>4, <2>2
        <4>2. CASE i # 0 /\ i < k
          <5>1. i \in 0..(k - 1) /\ i - 1 \in 0..k /\ i - 1 < k
            BY <4>2, <3>1
          <5>. QED BY <3>2, <4>2, <5>1
        <4>3. CASE i = k
          <5>1. i - 1 \in 0..k /\ i - 1 < k /\ i # 0
            BY <4>3, <3>1, <2>4
          <5>. QED BY <4>3, <5>1
        <4>. QED BY <4>1, <4>2, <4>3
      <3>4. Rec(r, k)
        BY <3>3
      <3>. QED BY <2>2, <3>4
    <2>. QED BY <2>3, <2>4
  <1>2. PICK n \in Nat \ {0} : n = Len(model.rbfs)
    OBVIOUS
  <1>3. PICK added : added = (CHOOSE s : Rec(s, Len(model.rbfs)))
    OBVIOUS
  <1>4. Rec(added, n)
    <2>. HIDE DEF Rec
    <2>. QED BY <1>1, <1>2, <1>3
  <1>5. AddBlocks(y0, head, tail, aa, ff, ftt, hh) = added[n]
    BY <1>2, <1>3 DEF AddBlocks
  <1>6. added[0] = y0 /\ \A i \in 1..n : added[i] = Turn(i, added[i - 1])
    <2>. HIDE DEF Turn
    <2>1. \A i \in 0..n : added[i] = IF i = 0 THEN y0 ELSE Turn(i, added[i - 1])
      BY <1>4
    <2>2. 0 \in 0..n /\ \A i \in 1..n : i \in 0..n /\ i # 0
      BY <1>2
    <2>. QED BY <2>1, <2>2
  <1>7. InTurn(added, y0, head, tail, aa, ff, ftt, hh)
    BY <1>2, <1>6 DEF InTurn
  <1>. QED BY <1>2, <1>5, <1>7

\* Adding blocks leaves the size as it is.
LEMMA AddBlocksSize ==
  ASSUME Len(model.rbfs) \in Nat \ {0}, NEW y0, NEW head, NEW tail, NEW aa, NEW ff, NEW ftt, NEW hh
  PROVE  DOMAIN AddBlocks(y0, head, tail, aa, ff, ftt, hh) = DOMAIN y0
  <1>1. PICK n \in Nat \ {0} : n = Len(model.rbfs)
    OBVIOUS
  <1>2. PICK added : /\ AddBlocks(y0, head, tail, aa, ff, ftt, hh) = added[n]
                     /\ InTurn(added, y0, head, tail, aa, ff, ftt, hh)
    BY <1>1, AddedInTurn
  <1>3. n \in 1..n
    BY <1>1
  <1>4. DOMAIN added[n] = DOMAIN y0
    BY <1>1, <1>2, <1>3 DEF InTurn
  <1>. QED BY <1>2, <1>4

\* A result is a sequence.
LEMMA ResultSize ==
  ASSUME BlockInv, EvaluateBlocks \/ Apply
  PROVE  Len(y') \in Nat
  <1>1. /\ mu \in Nat /\ sigma \in Nat /\ Len(model.rbfs) \in Nat \ {0} /\ model.l \in Nat
        /\ kind = "Evaluator" => trg_mu \in Nat /\ trg_sigma \in Nat
    BY ListFacts, ModelFacts DEF BlockInv, GivenInv
  <1>2. ASSUME NEW x \in Nat, NEW z \in Nat PROVE x + (kDim * z) \in Nat
    <2>1. kDim * z \in Nat
      BY DimAssumption
    <2>. QED BY <2>1
  <1>3. CASE EvaluateBlocks /\ kind = "Evaluator"
    <2>1. PICK n \in Nat : n = trg_mu + (kDim * trg_sigma)
      BY <1>1, <1>2, <1>3
    <2>2. PICK z, p : z = AddBlocks(Zeros(n), trg_mu, kDim * trg_sigma, a, f, ft, h)
                 /\ p = polynomial_terms(poly.rows, poly.weights)
      OBVIOUS
    <2>3. DOMAIN z = 1..n
      <3>1. DOMAIN Zeros(n) = 1..n
        BY DEF Zeros
      <3>. QED BY <1>1, <2>2, <3>1, AddBlocksSize
    <2>4. y' = Plus(z, p)
      BY <1>3, <2>1, <2>2 DEF EvaluateBlocks, Symmetric, evaluate_
    <2>5. y' = [r \in 1..n |-> y'[r]]
      BY <2>3, <2>4 DEF Plus
    <2>. QED BY <2>5, AsSequence
  <1>4. CASE EvaluateBlocks /\ kind # "Evaluator"
    <2>1. PICK n \in Nat : n = mu + (kDim * sigma)
      BY <1>1, <1>2
    <2>2. PICK z, p : z = AddBlocks(Zeros(n), mu, kDim * sigma, a, f, ft, h)
                 /\ p = polynomial_terms(poly.rows, poly.weights)
      OBVIOUS
    <2>3. DOMAIN z = 1..n
      <3>1. DOMAIN Zeros(n) = 1..n
        BY DEF Zeros
      <3>. QED BY <1>1, <2>2, <3>1, AddBlocksSize
    <2>4. y' = Plus(z, p)
      BY <1>4, <2>1, <2>2 DEF EvaluateBlocks, Symmetric, evaluate_symmetric
    <2>5. y' = [r \in 1..n |-> y'[r]]
      BY <2>3, <2>4 DEF Plus
    <2>. QED BY <2>5, AsSequence
  <1>5. CASE Apply
    <2>1. PICK n \in Nat : n = mu + (kDim * sigma) + model.l
      <3>1. PICK x \in Nat : x = mu + (kDim * sigma)
        BY <1>1, <1>2
      <3>. QED BY <1>1, <3>1
    <2>2. PICK w : y' = apply(w, a', f', ft', h')
      BY <1>5 DEF Apply
    <2>3. y' = [r \in 1..n |-> y'[r]]
      BY <2>1, <2>2 DEF apply
    <2>. QED BY <2>3, AsSequence
  <1>. QED BY <1>3, <1>4, <1>5

\* Sizes, numbers of blocks and results fit what was set.
THEOREM BlockTypes == BlockSpec => []BlockTypeOK
  <1>1. BlockInit => (y = Unset \/ Len(y) \in Nat)
    BY DEF BlockInit
  <1>2. BlockInv /\ (y = Unset \/ Len(y) \in Nat) /\ [BlockNext]_blockVars
          => (y = Unset \/ Len(y) \in Nat)'
    <2>. SUFFICES ASSUME BlockInv, y = Unset \/ Len(y) \in Nat, [BlockNext]_blockVars
                  PROVE  y' = Unset \/ Len(y') \in Nat
      OBVIOUS
    <2>1. CASE SetBlockSources \/ SetBlockTargets \/ SetBlockPoints \/ SetBlockWeights
      BY <2>1 DEF SetBlockSources, SetBlockTargets, SetBlockPoints, SetBlockWeights
    <2>2. CASE UNCHANGED blockVars
      BY <2>2 DEF blockVars
    <2>. QED BY <2>1, <2>2, ResultSize DEF BlockNext
  <1>3. BlockInv /\ (y = Unset \/ Len(y) \in Nat) => BlockTypeOK
    BY DEF BlockInv, GivenInv, BlocksLatest, PlacesInv, Places, BlocksAre, BlockTypeOK,
      Symmetric, Rbfs
  <1>. QED BY <1>1, <1>2, <1>3, BlocksInitRight, BlockInvKept, PTL DEF BlockSpec

-----------------------------------------------------------------------------
(* What the products by blocks are                                          *)

\* The four kernels; the axes that the outputs and inputs of one are along, 0 being the value.
KernelNames == {"value", "gradient", "gradientTranspose", "hessian"}
RowAxis(kernel, o) == IF kernel \in {"gradientTranspose", "hessian"} THEN o ELSE 0
ColumnAxis(kernel, j) == IF kernel \in {"gradient", "hessian"} THEN j ELSE 0

\* What a kernel returns for a pair of points are the entries of the matrix.
LEMMA EntriesAre ==
  ASSUME NEW kernel \in KernelNames, NEW rbf, NEW p, NEW q, NEW o \in 1..Kn(kernel),
         NEW j \in 1..Km(kernel)
  PROVE  Entries(kernel, rbf, p, q)[(Km(kernel) * (o - 1)) + j]
           = EntryAt(rbf, [at |-> p, axis |-> RowAxis(kernel, o)],
                     [at |-> q, axis |-> ColumnAxis(kernel, j)])
  <1>1. kDim \in Nat \ {0}
    BY DimAssumption
  <1>2. CASE kernel = "value"
    <2>1. o = 1 /\ j = 1 /\ Km(kernel) = 1
      BY <1>2 DEF Kn, Km
    <2>2. (Km(kernel) * (o - 1)) + j = 1
      BY <2>1
    <2>3. Entries(kernel, rbf, p, q)[1] = Phi(1, rbf, <<>>, p, q)
      BY <1>2 DEF Entries, Kernel
    <2>. QED BY <1>2, <2>2, <2>3, EntryOfValue DEF RowAxis, ColumnAxis
  <1>3. CASE kernel = "gradient"
    <2>1. o = 1 /\ j \in 1..kDim /\ Km(kernel) = kDim
      BY <1>3 DEF Kn, Km
    <2>2. (Km(kernel) * (o - 1)) + j = j
      BY <1>1, <2>1
    <2>3. Entries(kernel, rbf, p, q)[j] = Phi(-1, rbf, <<j>>, p, q)
      BY <1>3, <2>1 DEF Entries, GradientKernel
    <2>. QED BY <1>3, <2>1, <2>2, <2>3, EntryOfValue DEF RowAxis, ColumnAxis
  <1>4. CASE kernel = "gradientTranspose"
    <2>1. o \in 1..kDim /\ j = 1 /\ Km(kernel) = 1
      BY <1>4 DEF Kn, Km
    <2>2. (Km(kernel) * (o - 1)) + j = o
      BY <1>1, <2>1
    <2>3. Entries(kernel, rbf, p, q)[o] = Phi(1, rbf, <<o>>, p, q)
      BY <1>4, <2>1 DEF Entries, GradientTransposeKernel
    <2>4. EntryAt(rbf, [at |-> p, axis |-> o], [at |-> q, axis |-> 0]) = Phi(1, rbf, <<o>>, p, q)
      BY <2>1, EntryOfAxis
    <2>5. RowAxis(kernel, o) = o /\ ColumnAxis(kernel, j) = 0
      BY <1>4 DEF RowAxis, ColumnAxis
    <2>. QED BY <2>2, <2>3, <2>4, <2>5
  <1>5. CASE kernel = "hessian"
    <2>1. o \in 1..kDim /\ j \in 1..kDim /\ Km(kernel) = kDim
      BY <1>5 DEF Kn, Km
    <2>2. PICK c \in 1..(kDim * kDim) : c = (kDim * (o - 1)) + j /\ (c - 1) \div kDim = o - 1
      BY <1>1, <2>1, AxisPlace
    <2>3. Entries(kernel, rbf, p, q)[c]
            = Phi(-1, rbf, Second((o - 1) + 1, c - (kDim * (o - 1))), p, q)
      BY <1>5, <2>2 DEF Entries, HessianKernel
    <2>4. (o - 1) + 1 = o /\ c - (kDim * (o - 1)) = j
      <3>1. PICK z \in Int : z = kDim * (o - 1)
        BY <1>1, <2>1
      <3>. QED BY <2>1, <2>2, <3>1
    <2>5. EntryAt(rbf, [at |-> p, axis |-> o], [at |-> q, axis |-> j])
            = Phi(-1, rbf, Second(o, j), p, q)
      <3>1. PICK x \in 1..kDim, z \in 1..kDim : x = o /\ z = j
        BY <2>1
      <3>2. EntryAt(rbf, [at |-> p, axis |-> x], [at |-> q, axis |-> z])
              = Phi(-1, rbf, Second(x, z), p, q)
        BY DimAssumption DEF EntryAt
      <3>. QED BY <3>1, <3>2
    <2>6. RowAxis(kernel, o) = o /\ ColumnAxis(kernel, j) = j
      BY <1>5 DEF RowAxis, ColumnAxis
    <2>. QED BY <2>1, <2>2, <2>3, <2>4, <2>5, <2>6
  <1>. QED BY <1>2, <1>3, <1>4, <1>5 DEF KernelNames

\* A point has the same entries with itself wherever it is.
LEMMA SelfEntries ==
  ASSUME NEW kernel \in KernelNames, NEW rbf, NEW p \in Nat
  PROVE  Entries(kernel, rbf, 0, 0) = Entries(kernel, rbf, p, p)
  <1>1. \A sign, axes : Phi(sign, rbf, axes, 0, 0) = Phi(sign, rbf, axes, p, p)
    BY DEF Phi
  <1>. QED BY <1>1
         DEF KernelNames, Entries, Kernel, GradientKernel, GradientTransposeKernel, HessianKernel

\* Where sources are targets, the other points and the point itself add what all points do.
LEMMA SelfTermsThere ==
  ASSUME NEW part, part.kernel \in KernelNames, part.src = part.trg, part.src \in Seq(Nat),
         NEW t \in DOMAIN part.trg, NEW o
  PROVE  symmetric_outputs(part, t, o) (+) handle_self_interaction(part, t, o)
           = general_outputs(part, t, o)
  <1>. DEFINE J == 1..Km(part.kernel)
              value(s, j) == <<Entries(part.kernel, part.rbf, part.trg[t],
                                       part.src[s])[(Km(part.kernel) * (o - 1)) + j],
                               part.inputs[s][j]>>
              A == Others(part, t) \X J
              B == {t} \X J
              g == [sj \in A \cup B |-> value(sj[1], sj[2])]
  <1>1. t \in InReach(part, t) /\ part.trg[t] \in Nat
    BY DEF InReach
  <1>2. IsFiniteSet(A) /\ IsFiniteSet(B)
    <2>1. \A e \in Nat : IsFiniteSet(1..e)
      BY FS_Interval
    <2>2. IsFiniteSet(J)
      BY <2>1, DimAssumption DEF Km
    <2>3. IsFiniteSet(InReach(part, t)) /\ IsFiniteSet({t})
      <3>1. IsFiniteSet(DOMAIN part.src)
        BY <2>1
      <3>. QED BY <3>1, FS_Subset, FS_Singleton DEF InReach
    <2>4. IsFiniteSet(Others(part, t))
      BY <2>3, FS_Subset DEF Others
    <2>. QED BY <2>2, <2>3, <2>4, FS_Product
  <1>3. A \cup B = InReach(part, t) \X J /\ A \cap B = {}
    BY <1>1 DEF Others
  <1>4. general_outputs(part, t, o) = SumOf(g)
    <2>1. general_outputs(part, t, o) = SumOf([sj \in InReach(part, t) \X J |-> value(sj[1], sj[2])])
      BY DEF general_outputs, Terms
    <2>. HIDE DEF value, A, B, J
    <2>. QED BY <1>3, <2>1
  <1>5. symmetric_outputs(part, t, o) = SumOf([sj \in A |-> g[sj]])
    <2>1. symmetric_outputs(part, t, o) = SumOf([sj \in A |-> value(sj[1], sj[2])])
      BY DEF symmetric_outputs, Terms
    <2>. HIDE DEF value, A, B
    <2>. QED BY <2>1
  <1>6. handle_self_interaction(part, t, o) = SumOf([sj \in B |-> g[sj]])
    <2>1. Entries(part.kernel, part.rbf, 0, 0)
            = Entries(part.kernel, part.rbf, part.trg[t], part.src[t])
      BY <1>1, SelfEntries
    <2>2. handle_self_interaction(part, t, o) = SumOf([sj \in B |-> value(sj[1], sj[2])])
      <3>1. handle_self_interaction(part, t, o) =
              SumOf([sj \in B |->
                <<Entries(part.kernel, part.rbf, 0, 0)[(Km(part.kernel) * (o - 1)) + sj[2]],
                                    part.inputs[sj[1]][sj[2]]>>])
        BY DEF handle_self_interaction, Terms
      <3>2. \A sj \in B : sj[1] = t
        OBVIOUS
      <3>. QED BY <2>1, <3>1, <3>2
    <2>. HIDE DEF value, A, B
    <2>. QED BY <2>2
  <1>. HIDE DEF A, B, value
  <1>7. SumOf(g) = SumOf([sj \in A |-> g[sj]]) (+) SumOf([sj \in B |-> g[sj]])
    BY <1>2, <1>3, SumUnion
  <1>. QED BY <1>4, <1>5, <1>6, <1>7

\* Whether the sources of a kernel are the points with gradients, and which these are.
OfGradients(kernel) == kernel \in {"gradient", "hessian"}
SourcesOf(kernel, places, grads) == IF OfGradients(kernel) THEN grads ELSE places
\* The column of input j of source s.
ColumnAt(kernel, n, s, j) == IF OfGradients(kernel) THEN ColumnOf(n, s, j) ELSE s

\* Inputs of sources have the columns of what they are weights of.
LEMMA PartColumn ==
  ASSUME NEW kernel \in KernelNames, NEW places \in Seq(Nat), NEW grads \in Seq(Nat),
         NEW s \in DOMAIN SourcesOf(kernel, places, grads), NEW j \in 1..Km(kernel)
  PROVE  /\ ColumnAt(kernel, Len(places), s, j) \in DOMAIN Functionals(places, grads)
         /\ Functionals(places, grads)[ColumnAt(kernel, Len(places), s, j)]
              = [at |-> SourcesOf(kernel, places, grads)[s], axis |-> ColumnAxis(kernel, j)]
         /\ ColumnAt(kernel, Len(places), s, j) > Len(places) <=> OfGradients(kernel)
  <1>1. CASE OfGradients(kernel)
    <2>1. s \in 1..Len(grads) /\ j \in 1..kDim
      BY <1>1 DEF OfGradients, SourcesOf, Km
    <2>2. /\ ColumnOf(Len(places), s, j) \in DOMAIN Functionals(places, grads)
          /\ ColumnOf(Len(places), s, j) > Len(places)
          /\ Functionals(places, grads)[ColumnOf(Len(places), s, j)] = [at |-> grads[s], axis |-> j]
      BY <2>1, AxisColumn
    <2>. QED BY <1>1, <2>2 DEF OfGradients, SourcesOf, ColumnAt, ColumnAxis
  <1>2. CASE ~OfGradients(kernel)
    <2>1. s \in 1..Len(places) /\ Len(places) \in Nat
      BY <1>2 DEF SourcesOf
    <2>2. s \in DOMAIN Functionals(places, grads)
            /\ Functionals(places, grads)[s] = [at |-> places[s], axis |-> 0]
      BY <2>1, PointColumn
    <2>. QED BY <1>2, <2>1, <2>2 DEF OfGradients, SourcesOf, ColumnAt, ColumnAxis
  <1>. QED BY <1>1, <1>2

\* Different inputs have different columns.
LEMMA PartColumnsApart ==
  ASSUME NEW kernel \in KernelNames, NEW places \in Seq(Nat), NEW grads \in Seq(Nat),
         NEW s \in DOMAIN SourcesOf(kernel, places, grads), NEW j \in 1..Km(kernel),
         NEW u \in DOMAIN SourcesOf(kernel, places, grads), NEW v \in 1..Km(kernel),
         ColumnAt(kernel, Len(places), s, j) = ColumnAt(kernel, Len(places), u, v)
  PROVE  s = u /\ j = v
  <1>1. CASE OfGradients(kernel)
    <2>1. s \in 1..Len(grads) /\ j \in 1..kDim /\ u \in 1..Len(grads) /\ v \in 1..kDim
      BY <1>1 DEF OfGradients, SourcesOf, Km
    <2>2. ColumnOf(Len(places), s, j) = ColumnOf(Len(places), u, v)
      BY <1>1 DEF ColumnAt
    <2>. QED BY <2>1, <2>2, ColumnsApart
  <1>2. CASE ~OfGradients(kernel)
    BY <1>2 DEF OfGradients, ColumnAt, Km
  <1>. QED BY <1>1, <1>2

\* Each column on the side of a kernel is that of an input.
LEMMA PartColumnThere ==
  ASSUME NEW kernel \in KernelNames, NEW places \in Seq(Nat), NEW grads \in Seq(Nat),
         NEW z \in DOMAIN Functionals(places, grads), z > Len(places) <=> OfGradients(kernel)
  PROVE  \E s \in DOMAIN SourcesOf(kernel, places, grads) : \E j \in 1..Km(kernel) :
           z = ColumnAt(kernel, Len(places), s, j)
  <1>1. Len(places) \in Nat /\ \A i \in 1..Len(places) : ~(i > Len(places))
    OBVIOUS
  <1>2. CASE OfGradients(kernel)
    <2>1. \E j \in 1..Len(grads) : \E k \in 1..kDim : z = ColumnOf(Len(places), j, k)
      BY <1>1, <1>2, EachColumn
    <2>2. DOMAIN SourcesOf(kernel, places, grads) = 1..Len(grads) /\ Km(kernel) = kDim
      BY <1>2 DEF SourcesOf, Km, OfGradients
    <2>. QED BY <1>2, <2>1, <2>2 DEF ColumnAt
  <1>3. CASE ~OfGradients(kernel)
    <2>1. z \in 1..Len(places)
      <3>1. PICK e \in Nat : DOMAIN Functionals(places, grads) = 1..e
        BY Columns
      <3>. QED BY <1>1, <1>3, <3>1
    <2>2. DOMAIN SourcesOf(kernel, places, grads) = 1..Len(places) /\ Km(kernel) = 1
      BY <1>3 DEF SourcesOf, Km, OfGradients
    <2>3. 1 \in 1..Km(kernel) /\ z = ColumnAt(kernel, Len(places), z, 1)
      BY <1>3, <2>2 DEF ColumnAt
    <2>. QED BY <2>1, <2>2, <2>3
  <1>. QED BY <1>2, <1>3

\* The entries of a part in a row, on the side of the kernel.
PartTerms(m, row, places, grads, ik, kernel) ==
  {x \in NonZero(m, row, Functionals(places, grads)) :
    x[1] = ik /\ (x[2] > Len(places) <=> OfGradients(kernel))}

\* Inputs are the weights of their columns.
InputsFit(part, n, w) ==
  \A s \in DOMAIN part.src : \A j \in 1..Km(part.kernel) :
    part.inputs[s][j] = w[ColumnAt(part.kernel, n, s, j)]

\* What a part computes for an output of a target are its entries in that row.
LEMMA OutputsOver ==
  ASSUME NEW m \in Models, NEW ik \in RbfsOf(m), NEW places \in Seq(Nat), NEW grads \in Seq(Nat),
         NEW w, NEW row, NEW part, part.kernel \in KernelNames, part.rbf = PartOf(m, ik),
         part.src = SourcesOf(part.kernel, places, grads),
         NEW t \in DOMAIN part.trg, NEW o \in 1..Kn(part.kernel),
         row = [at |-> part.trg[t], axis |-> RowAxis(part.kernel, o)],
         InputsFit(part, Len(places), w)
  PROVE  general_outputs(part, t, o)
           = Over(m, row, Functionals(places, grads), w,
                  PartTerms(m, row, places, grads, ik, part.kernel))
  <1>. DEFINE cols == Functionals(places, grads)
              n == Len(places)
              X == PartTerms(m, row, places, grads, ik, part.kernel)
              J == 1..Km(part.kernel)
              D == InReach(part, t) \X J
              at(x) == ColumnAt(part.kernel, n, x[1], x[2])
              g == [x \in D |-> <<Entries(part.kernel, part.rbf, part.trg[t], part.src[x[1]])
                                    [(Km(part.kernel) * (o - 1)) + x[2]], part.inputs[x[1]][x[2]]>>]
              b == [x \in D |-> <<ik, at(x)>>]
  <1>1. general_outputs(part, t, o) = SumOf(g)
    BY DEF general_outputs, Terms
  <1>2. IsFiniteSet(D)
    <2>1. \A e \in Nat : IsFiniteSet(1..e)
      BY FS_Interval
    <2>2. IsFiniteSet(J)
      BY <2>1, DimAssumption DEF Km
    <2>3. IsFiniteSet(InReach(part, t))
      <3>1. IsFiniteSet(DOMAIN part.src)
        BY <2>1 DEF SourcesOf
      <3>. QED BY <3>1, FS_Subset DEF InReach
    <2>. QED BY <2>2, <2>3, FS_Product
  <1>3. ASSUME NEW s \in DOMAIN part.src, NEW j \in J
        PROVE  /\ ColumnAt(part.kernel, n, s, j) \in DOMAIN cols
               /\ cols[ColumnAt(part.kernel, n, s, j)]
                    = [at |-> part.src[s], axis |-> ColumnAxis(part.kernel, j)]
               /\ ColumnAt(part.kernel, n, s, j) > n <=> OfGradients(part.kernel)
               /\ part.inputs[s][j] = w[ColumnAt(part.kernel, n, s, j)]
    BY PartColumn DEF InputsFit
  <1>4. ASSUME NEW s \in DOMAIN part.src
        PROVE  s \in InReach(part, t) <=> ~Vanishes(part.rbf, row.at, part.src[s])
    <2>1. {part.src[s], part.trg[t]} = {part.trg[t], part.src[s]} /\ row.at = part.trg[t]
      OBVIOUS
    <2>. QED BY <2>1 DEF InReach, Vanishes
  <1>5. ASSUME NEW s \in DOMAIN part.src, NEW j \in J
        PROVE  /\ s \in InReach(part, t) <=> <<ik, ColumnAt(part.kernel, n, s, j)>> \in X
    <2>1. cols[ColumnAt(part.kernel, n, s, j)].at = part.src[s]
      <3>1. cols[ColumnAt(part.kernel, n, s, j)]
              = [at |-> part.src[s], axis |-> ColumnAxis(part.kernel, j)]
        BY <1>3
      <3>. HIDE DEF cols, n
      <3>. QED BY <3>1
    <2>2. ColumnAt(part.kernel, n, s, j) \in DOMAIN cols
            /\ (ColumnAt(part.kernel, n, s, j) > n <=> OfGradients(part.kernel))
      BY <1>3
    <2>. QED BY <1>4, <2>1, <2>2 DEF PartTerms, NonZero
  <1>6. ASSUME NEW x \in D
        PROVE  /\ x[1] \in DOMAIN part.src /\ x[1] \in InReach(part, t) /\ x[2] \in J
               /\ x = <<x[1], x[2]>>
               /\ b[x] = <<ik, at(x)>>
    <2>1. b[x] = <<ik, at(x)>>
      OBVIOUS
    <2>2. InReach(part, t) \subseteq DOMAIN part.src
      BY DEF InReach
    <2>3. x[1] \in InReach(part, t) /\ x[2] \in J /\ x = <<x[1], x[2]>>
      OBVIOUS
    <2>. HIDE DEF b, D, J
    <2>. QED BY <2>1, <2>2, <2>3
  <1>7. ASSUME NEW x \in D PROVE b[x] \in X /\ g[x] = TermOf(m, row, cols, w, b[x])
    <2>1. x[1] \in DOMAIN part.src /\ x[1] \in InReach(part, t) /\ x[2] \in J /\ b[x] = <<ik, at(x)>>
      BY <1>6
    <2>2. b[x] \in X
      <3>. HIDE DEF X, D, b, cols, n, J
      <3>. QED BY <1>5, <2>1
    <2>3. Entries(part.kernel, part.rbf, part.trg[t],
                  part.src[x[1]])[(Km(part.kernel) * (o - 1)) + x[2]]
            = EntryAt(part.rbf, row, [at |-> part.src[x[1]], axis |-> ColumnAxis(part.kernel, x[2])])
      BY <2>1, EntriesAre
    <2>4. cols[at(x)] = [at |-> part.src[x[1]], axis |-> ColumnAxis(part.kernel, x[2])]
          /\ part.inputs[x[1]][x[2]] = w[at(x)]
      <3>. HIDE DEF D, b, cols, n, J
      <3>. QED BY <1>3, <2>1
    <2>5. g[x] = <<EntryAt(part.rbf, row, cols[at(x)]), w[at(x)]>>
      <3>. HIDE DEF cols, n, at
      <3>. QED BY <2>3, <2>4
    <2>6. TermOf(m, row, cols, w, b[x]) = <<EntryAt(PartOf(m, ik), row, cols[at(x)]), w[at(x)]>>
      <3>. HIDE DEF cols, n, at, b
      <3>. QED BY <2>1 DEF TermOf
    <2>. QED BY <2>2, <2>5, <2>6
  <1>8. ASSUME NEW x \in D, NEW u \in D, b[x] = b[u] PROVE x = u
    <2>1. at(x) = at(u)
      BY <1>6, <1>8
    <2>2. x[1] = u[1] /\ x[2] = u[2]
      <3>1. /\ x[1] \in DOMAIN SourcesOf(part.kernel, places, grads) /\ x[2] \in 1..Km(part.kernel)
            /\ u[1] \in DOMAIN SourcesOf(part.kernel, places, grads) /\ u[2] \in 1..Km(part.kernel)
        BY <1>6
      <3>. QED BY <2>1, <3>1, PartColumnsApart
    <2>. QED BY <1>6, <2>2
  <1>9. ASSUME NEW z \in X PROVE \E x \in D : b[x] = z
    <2>1. z[1] = ik /\ z[2] \in DOMAIN cols /\ z = <<ik, z[2]>>
            /\ (z[2] > n <=> OfGradients(part.kernel))
      BY DEF PartTerms, NonZero
    <2>2. PICK s \in DOMAIN part.src, e \in Nat : e \in J /\ z[2] = ColumnAt(part.kernel, n, s, e)
      <3>1. \E s \in DOMAIN part.src : \E e \in J : z[2] = ColumnAt(part.kernel, n, s, e)
        BY <2>1, PartColumnThere
      <3>. QED BY <3>1
    <2>3. s \in InReach(part, t)
      <3>. HIDE DEF X, cols, n, J
      <3>. QED BY <1>5, <2>1, <2>2
    <2>4. <<s, e>> \in D /\ at(<<s, e>>) = z[2]
      BY <2>2, <2>3
    <2>5. b[<<s, e>>] = z
      <3>. HIDE DEF X, D, cols, n, J, at
      <3>. QED BY <2>1, <2>4
    <2>. QED BY <2>4, <2>5
  <1>10. DOMAIN g = D /\ b = [x \in D |-> b[x]]
    OBVIOUS
  <1>. HIDE DEF g, b, X, D, cols
  <1>11. Matched(g, b, m, row, cols, w, X)
    BY <1>2, <1>7, <1>8, <1>9, <1>10 DEF Matched
  <1>12. SumOf(g) = Over(m, row, cols, w, X)
    BY <1>11, OverMatched
  <1>. QED BY <1>1, <1>12 DEF X, cols

\* Output o of target t, of n targets with kn outputs each.
RowIs(values, kn, n, t, o, sum) ==
  /\ DOMAIN values = 1..(kn * n) /\ (kn * (t - 1)) + o \in 1..(kn * n)
  /\ values[(kn * (t - 1)) + o] = sum

\* potentials of a part, symmetric or not.
LEMMA PotentialRight ==
  ASSUME NEW m \in Models, NEW ik \in RbfsOf(m), NEW places \in Seq(Nat), NEW grads \in Seq(Nat),
         NEW w, NEW row, NEW part, part.kernel \in KernelNames, part.rbf = PartOf(m, ik),
         part.src = SourcesOf(part.kernel, places, grads), part.trg \in Seq(Nat),
         part.symmetric => part.trg = part.src,
         NEW t \in 1..Len(part.trg), NEW o \in 1..Kn(part.kernel),
         row = [at |-> part.trg[t], axis |-> RowAxis(part.kernel, o)],
         InputsFit(part, Len(places), w)
  PROVE  RowIs(potentials(part), Kn(part.kernel), Len(part.trg), t, o,
               Over(m, row, Functionals(places, grads), w,
                    PartTerms(m, row, places, grads, ik, part.kernel)))
  <1>1. PICK kn \in Nat \ {0} : kn = Kn(part.kernel)
    BY DimAssumption DEF Kn
  <1>2. PICK l \in Nat : l = Len(part.trg)
    OBVIOUS
  <1>3. PICK r \in 1..(kn * l) : r = (kn * (t - 1)) + o /\ ((r - 1) \div kn) + 1 = t
               /\ r - (kn * (t - 1)) = o
    <2>1. t \in 1..l /\ o \in 1..kn
      BY <1>2, <1>1
    <2>2. Placed(kn, l, t, o)
      BY <2>1, PlaceThere
    <2>. QED BY <2>2 DEF Placed
  <1>4. DOMAIN potentials(part) = 1..(kn * Len(part.trg))
    BY <1>1 DEF potentials
  <1>5. potentials(part)[r] = IF part.symmetric
                              THEN symmetric_outputs(part, t, o)
                                (+) handle_self_interaction(part, t, o)
                              ELSE general_outputs(part, t, o)
    BY <1>2, <1>1, <1>3 DEF potentials
  <1>6. part.src \in Seq(Nat) /\ t \in DOMAIN part.trg
    BY DEF SourcesOf
  <1>7. potentials(part)[r] = general_outputs(part, t, o)
    <2>1. CASE part.symmetric
      <3>1. part.src = part.trg
        BY <2>1
      <3>. QED BY <1>5, <1>6, <2>1, <3>1, SelfTermsThere
    <2>. QED BY <1>5, <2>1
  <1>8. general_outputs(part, t, o)
          = Over(m, row, Functionals(places, grads), w,
                 PartTerms(m, row, places, grads, ik, part.kernel))
    BY <1>6, OutputsOver
  <1>. QED BY <1>2, <1>1, <1>3, <1>4, <1>7, <1>8 DEF RowIs

\* A slice of the weights has those of the sources, in the order of the inputs.
SliceFits(kernel, sources, n, slice, w) ==
  \A s \in DOMAIN sources : \A j \in 1..Km(kernel) :
    slice[(Km(kernel) * (s - 1)) + j] = w[ColumnAt(kernel, n, s, j)]

\* The entries of an rbf in a row, on the side of a kernel.
HalfTerms(m, row, places, grads, i, kernel) ==
  {x \in OfRbf(m, row, Functionals(places, grads), i) : x[2] > Len(places) <=> OfGradients(kernel)}

\* What the parts of an rbf add up to, and that these are its entries.
PartSums(m, row, places, grads, w, i, kernel) ==
  IF 2 \notin DOMAIN rbf_parts(m.rbfs[i])
  THEN Over(m, row, Functionals(places, grads), w, PartTerms(m, row, places, grads, <<i, 1>>, kernel))
  ELSE Over(m, row, Functionals(places, grads), w, PartTerms(m, row, places, grads, <<i, 1>>, kernel))
       (+) Over(m, row, Functionals(places, grads), w,
                PartTerms(m, row, places, grads, <<i, 2>>, kernel))

LEMMA PartsAdd ==
  ASSUME NEW m \in Models, NEW i \in 1..Len(m.rbfs), NEW places \in Seq(Nat), NEW grads \in Seq(Nat),
         NEW w, NEW row, NEW kernel
  PROVE  PartSums(m, row, places, grads, w, i, kernel)
           = Over(m, row, Functionals(places, grads), w, HalfTerms(m, row, places, grads, i, kernel))
  <1>. DEFINE cols == Functionals(places, grads)
              K == DOMAIN rbf_parts(m.rbfs[i])
              A == PartTerms(m, row, places, grads, <<i, 1>>, kernel)
              B == PartTerms(m, row, places, grads, <<i, 2>>, kernel)
              H == HalfTerms(m, row, places, grads, i, kernel)
  <1>1. IsFiniteSet(DOMAIN cols)
    BY Columns
  <1>2. H = {x \in NonZero(m, row, cols) : x[1][1] = i
          /\ (x[2] > Len(places) <=> OfGradients(kernel))}
    BY DEF HalfTerms, OfRbf
  <1>3. A = {x \in NonZero(m, row, cols) : x[1] = <<i, 1>>
          /\ (x[2] > Len(places) <=> OfGradients(kernel))}
        /\ B = {x \in NonZero(m, row, cols) : x[1] = <<i, 2>>
             /\ (x[2] > Len(places) <=> OfGradients(kernel))}
    BY DEF PartTerms
  <1>4. ASSUME NEW x \in NonZero(m, row, cols), x[1][1] = i PROVE \E k \in K : x[1] = <<i, k>>
    <2>1. x[1] \in RbfsOf(m)
      BY DEF NonZero
    <2>2. PICK u \in 1..Len(m.rbfs) : \E k \in DOMAIN rbf_parts(m.rbfs[u]) : x[1] = <<u, k>>
      BY <2>1, RbfNumbers
    <2>. QED BY <1>4, <2>2
  <1>. HIDE DEF A, B, H, cols
  <1>5. CASE K = 1..1
    <2>1. A = H
      <3>1. \A x \in NonZero(m, row, cols) : x[1][1] = i <=> x[1] = <<i, 1>>
        BY <1>4, <1>5
      <3>. QED BY <1>2, <1>3, <3>1
    <2>2. 2 \notin K
      BY <1>5
    <2>. QED BY <2>1, <2>2 DEF A, H, cols, PartSums
  <1>6. CASE K = 1..2
    <2>1. A \cup B = H /\ A \cap B = {}
      <3>1. \A x \in NonZero(m, row, cols) : x[1][1] = i <=> (x[1] = <<i, 1>> \/ x[1] = <<i, 2>>)
        <4>1. \A k \in K : k = 1 \/ k = 2
          BY <1>6
        <4>. QED BY <1>4, <4>1
      <3>2. <<i, 1>> # <<i, 2>>
        OBVIOUS
      <3>. QED BY <1>2, <1>3, <3>1, <3>2
    <2>2. Over(m, row, cols, w, A \cup B) = Over(m, row, cols, w, A) (+) Over(m, row, cols, w, B)
      <3>1. A \in SUBSET NonZero(m, row, cols) /\ B \in SUBSET NonZero(m, row, cols)
        BY <1>3
      <3>. QED BY <1>1, <2>1, <3>1, OverUnion
    <2>3. 2 \in K
      BY <1>6
    <2>. QED BY <2>1, <2>2, <2>3 DEF A, B, H, cols, PartSums
  <1>. QED BY <1>5, <1>6, PartNumbers

\* evaluate of a block, of one part or two.
LEMMA EvaluateRight ==
  ASSUME NEW m \in Models, NEW i \in 1..Len(m.rbfs), NEW places \in Seq(Nat), NEW grads \in Seq(Nat),
         NEW w, NEW row, NEW block, NEW kernel \in KernelNames,
         NEW symmetric, NEW targets \in Seq(Nat), NEW bound,
         NEW slice,
         BlockIs(block, m.rbfs[i], kernel, symmetric, SourcesOf(kernel, places, grads), targets,
                 bound),
         Weighted(block, kernel, SourcesOf(kernel, places, grads), slice),
         symmetric => targets = SourcesOf(kernel, places, grads),
         NEW t \in 1..Len(targets), NEW o \in 1..Kn(kernel),
         row = [at |-> targets[t], axis |-> RowAxis(kernel, o)],
         SliceFits(kernel, SourcesOf(kernel, places, grads), Len(places), slice, w)
  PROVE  RowIs(evaluate(block), Kn(kernel), Len(targets), t, o,
               Over(m, row, Functionals(places, grads), w,
                    HalfTerms(m, row, places, grads, i, kernel)))
  <1>. DEFINE cols == Functionals(places, grads)
              sources == SourcesOf(kernel, places, grads)
              r == (Kn(kernel) * (t - 1)) + o
              K == DOMAIN rbf_parts(m.rbfs[i])
  <1>1. ASSUME NEW k \in K
        PROVE  /\ DOMAIN potentials(block[k]) = 1..(Kn(kernel) * Len(targets))
               /\ r \in 1..(Kn(kernel) * Len(targets))
               /\ potentials(block[k])[r]
                    = Over(m, row, cols, w, PartTerms(m, row, places, grads, <<i, k>>, kernel))
    <2>1. PICK part : part = block[k]
      OBVIOUS
    <2>2. /\ part.rbf = rbf_parts(m.rbfs[i])[k] /\ part.kernel = kernel /\ part.symmetric = symmetric
          /\ part.src = sources /\ part.trg = targets
      <3>1. PartIs(part, rbf_parts(m.rbfs[i])[k], kernel, symmetric, sources, targets, bound)
        BY <2>1 DEF BlockIs
      <3>. QED BY <3>1 DEF PartIs
    <2>3. part.inputs = InputsOf(kernel, sources, slice)
      <3>1. DOMAIN block = K
        BY DEF BlockIs
      <3>. QED BY <2>1, <3>1 DEF Weighted
    <2>4. <<i, k>> \in RbfsOf(m) /\ PartOf(m, <<i, k>>) = rbf_parts(m.rbfs[i])[k]
      BY RbfNumbers DEF PartOf
    <2>5. InputsFit(part, Len(places), w)
      <3>. SUFFICES ASSUME NEW s \in DOMAIN part.src, NEW j \in 1..Km(part.kernel)
                    PROVE  part.inputs[s][j] = w[ColumnAt(part.kernel, Len(places), s, j)]
        BY DEF InputsFit
      <3>1. sources \in Seq(Nat)
        BY DEF SourcesOf
      <3>2. s \in 1..Len(sources) /\ j \in 1..Km(kernel)
        BY <2>2, <3>1
      <3>3. part.inputs[s][j] = slice[(Km(kernel) * (s - 1)) + j]
        BY <2>3, <3>2 DEF InputsOf
      <3>. QED BY <2>2, <3>2, <3>3 DEF SliceFits
    <2>. HIDE DEF sources
    <2>6. RowIs(potentials(part), Kn(part.kernel), Len(part.trg), t, o,
                Over(m, row, Functionals(places, grads), w,
                     PartTerms(m, row, places, grads, <<i, k>>, part.kernel)))
      BY <2>2, <2>4, <2>5, PotentialRight DEF sources
    <2>. QED BY <2>1, <2>2, <2>6 DEF RowIs
  <1>2. block = [k \in K |-> block[k]]
    BY DEF BlockIs
  <1>. HIDE DEF r, cols
  <1>3. ASSUME DOMAIN evaluate(block) = 1..(Kn(kernel) * Len(targets)),
               r \in 1..(Kn(kernel) * Len(targets)),
               evaluate(block)[r] = PartSums(m, row, places, grads, w, i, kernel)
        PROVE  RowIs(evaluate(block), Kn(kernel), Len(targets), t, o,
               Over(m, row, Functionals(places, grads), w,
                    HalfTerms(m, row, places, grads, i, kernel)))
    <2>1. PartSums(m, row, places, grads, w, i, kernel)
            = Over(m, row, Functionals(places, grads), w, HalfTerms(m, row, places, grads, i, kernel))
      BY PartsAdd
    <2>. QED BY <1>3, <2>1 DEF r, RowIs
  <1>4. CASE K = 1..1
    <2>1. Len(block) = 1 /\ 1 \in K
      <3>1. PICK n \in Nat : n = 1 /\ K = 1..n
        BY <1>4
      <3>2. block = [k \in 1..n |-> block[k]]
        BY <1>2, <3>1
      <3>. QED BY <1>4, <3>1, <3>2, AsSequence
    <2>2. evaluate(block) = potentials(block[1])
      BY <2>1 DEF evaluate
    <2>3. /\ DOMAIN evaluate(block) = 1..(Kn(kernel) * Len(targets))
          /\ r \in 1..(Kn(kernel) * Len(targets))
          /\ evaluate(block)[r]
               = Over(m, row, cols, w, PartTerms(m, row, places, grads, <<i, 1>>, kernel))
      BY <1>1, <2>1, <2>2
    <2>4. 2 \notin K
      BY <1>4
    <2>. QED BY <1>3, <2>3, <2>4 DEF cols, PartSums
  <1>5. CASE K = 1..2
    <2>1. Len(block) = 2 /\ 1 \in K /\ 2 \in K
      <3>1. PICK n \in Nat : n = 2 /\ K = 1..n
        BY <1>5
      <3>2. block = [k \in 1..n |-> block[k]]
        BY <1>2, <3>1
      <3>. QED BY <1>5, <3>1, <3>2, AsSequence
    <2>2. evaluate(block) = Plus(potentials(block[1]), potentials(block[2]))
      BY <2>1 DEF evaluate
    <2>3. /\ DOMAIN potentials(block[1]) = 1..(Kn(kernel) * Len(targets))
          /\ r \in 1..(Kn(kernel) * Len(targets))
          /\ evaluate(block)[r]
               = Over(m, row, cols, w, PartTerms(m, row, places, grads, <<i, 1>>, kernel))
                                 (+) Over(m, row, cols, w,
                                          PartTerms(m, row, places, grads, <<i, 2>>, kernel))
          /\ DOMAIN evaluate(block) = 1..(Kn(kernel) * Len(targets))
      BY <1>1, <2>1, <2>2 DEF Plus
    <2>4. 2 \in K
      BY <1>5
    <2>. QED BY <1>3, <2>3, <2>4 DEF cols, PartSums
  <1>. QED BY <1>4, <1>5, PartNumbers

\* What the blocks of rbf i add to row r.
Adds(aa, ff, ftt, hh, head, r, i) ==
  IF r <= head THEN Plus(evaluate(aa[i]), evaluate(ff[i]))[r]
    ELSE Plus(evaluate(ftt[i]), evaluate(hh[i]))[r - head]

\* AddBlocks adds to a row all of its entries when each rbf adds those of its own.
LEMMA RowsAdded ==
  ASSUME model \in Models, NEW cols, NEW row, NEW w, IsFiniteSet(DOMAIN cols),
         NEW head \in Nat, NEW tail \in Nat, NEW y0, NEW r \in DOMAIN y0, r \in 1..(head + tail),
         IsSum(y0[r]),
         NEW aa, NEW ff, NEW ftt, NEW hh,
         \A i \in 1..Len(model.rbfs) :
           Adds(aa, ff, ftt, hh, head, r, i) = Over(model, row, cols, w, OfRbf(model, row, cols, i))
  PROVE  AddBlocks(y0, head, tail, aa, ff, ftt, hh)[r]
           = y0[r] (+) Over(model, row, cols, w, NonZero(model, row, cols))
  <1>. DEFINE Upto(i) == {x \in NonZero(model, row, cols) : x[1][1] <= i}
              Sum(X) == Over(model, row, cols, w, X)
  <1>1. PICK n \in Nat \ {0} : n = Len(model.rbfs)
    BY RbfNumbers
  <1>2. PICK added : /\ AddBlocks(y0, head, tail, aa, ff, ftt, hh) = added[n]
                     /\ InTurn(added, y0, head, tail, aa, ff, ftt, hh)
    BY <1>1, AddedInTurn
  <1>3. ASSUME NEW x \in NonZero(model, row, cols) PROVE x[1][1] \in 1..n
    <2>1. x[1] \in RbfsOf(model)
      BY DEF NonZero
    <2>. QED BY <1>1, <2>1, RbfNumbers
  <1>4. ASSUME NEW i \in 1..n
        PROVE  added[i][r] = added[i - 1][r] (+) Sum(OfRbf(model, row, cols, i))
    <2>1. added[i] = [z \in DOMAIN y0 |->
                    CASE z \in 1..head -> added[i - 1][z]
                      (+) Plus(evaluate(aa[i]), evaluate(ff[i]))[z]
                      [] z \in (head + 1)..(head + tail) ->
                           added[i - 1][z] (+) Plus(evaluate(ftt[i]), evaluate(hh[i]))[z - head]
                      [] OTHER -> added[i - 1][z]]
      BY <1>1, <1>2 DEF InTurn
    <2>2. added[i][r] = added[i - 1][r] (+) Adds(aa, ff, ftt, hh, head, r, i)
      <3>1. CASE r <= head
        <4>1. r \in 1..head
          BY <3>1
        <4>. QED BY <2>1, <3>1, <4>1 DEF Adds
      <3>2. CASE ~(r <= head)
        <4>1. r \notin 1..head /\ r \in (head + 1)..(head + tail)
          BY <3>2
        <4>. QED BY <2>1, <3>2, <4>1 DEF Adds
      <3>. QED BY <3>1, <3>2
    <2>. QED BY <1>1, <2>2
  <1>5. \A X : X \subseteq NonZero(model, row, cols) => IsSum(Sum(X)) /\ (X = {} => Sum(X) = EmptyBag)
    BY OverType
  <1>6. ASSUME NEW i \in 1..n
        PROVE  Sum(Upto(i)) = Sum(Upto(i - 1)) (+) Sum(OfRbf(model, row, cols, i))
    <2>1. Upto(i) = Upto(i - 1) \cup OfRbf(model, row, cols, i)
      BY <1>3 DEF OfRbf
    <2>2. Upto(i - 1) \cap OfRbf(model, row, cols, i) = {}
      BY DEF OfRbf
    <2>3. Upto(i - 1) \in SUBSET NonZero(model, row, cols)
            /\ OfRbf(model, row, cols, i) \in SUBSET NonZero(model, row, cols)
      BY DEF OfRbf
    <2>. HIDE DEF Upto
    <2>. QED BY <2>1, <2>2, <2>3, OverUnion
  <1>. DEFINE Bad == {i \in 0..n : added[i][r] # y0[r] (+) Sum(Upto(i))}
  <1>7. Bad = {}
    <2>1. SUFFICES ASSUME Bad # {} PROVE FALSE
      OBVIOUS
    <2>2. PICK k \in Bad : \A i \in Bad : k <= i
      <3>1. Bad \subseteq Nat
        BY <1>1
      <3>. HIDE DEF Bad
      <3>. QED BY <2>1, <3>1, LeastNumber
    <2>3. k \in 0..n /\ added[k][r] # y0[r] (+) Sum(Upto(k))
      BY <2>2
    <2>4. CASE k = 0
      <3>1. Upto(0) = {}
        BY <1>3
      <3>2. {} \subseteq NonZero(model, row, cols)
        OBVIOUS
      <3>. HIDE DEF Upto, Sum
      <3>3. Sum(Upto(0)) = EmptyBag
        BY <1>5, <3>1, <3>2
      <3>4. added[0] = y0
        BY <1>2 DEF InTurn
      <3>. QED BY <2>3, <2>4, <3>3, <3>4, PlusNothing
    <2>5. CASE k # 0
      <3>1. k \in 1..n /\ k - 1 \in 0..n /\ k - 1 \notin Bad
        <4>1. k \in 1..n /\ k - 1 \in 0..n /\ ~(k <= k - 1)
          BY <1>1, <2>3, <2>5
        <4>. HIDE DEF Bad
        <4>. QED BY <2>2, <4>1
      <3>2. added[k - 1][r] = y0[r] (+) Sum(Upto(k - 1))
        <4>. HIDE DEF Upto, Sum
        <4>. QED BY <3>1
      <3>3. IsSum(Sum(Upto(k - 1))) /\ IsSum(Sum(OfRbf(model, row, cols, k)))
        <4>1. Upto(k - 1) \subseteq NonZero(model, row, cols)
                /\ OfRbf(model, row, cols, k) \subseteq NonZero(model, row, cols)
          BY DEF OfRbf
        <4>. HIDE DEF Upto, Sum
        <4>. QED BY <1>5, <4>1
      <3>4. added[k][r] = (y0[r] (+) Sum(Upto(k - 1))) (+) Sum(OfRbf(model, row, cols, k))
        BY <1>4, <3>1, <3>2
      <3>5. added[k][r] = y0[r] (+) (Sum(Upto(k - 1)) (+) Sum(OfRbf(model, row, cols, k)))
        <4>. HIDE DEF Upto, Sum
        <4>. QED BY <3>3, <3>4, PlusAssociates
      <3>. HIDE DEF Upto, Sum
      <3>. QED BY <1>6, <2>3, <3>1, <3>5
    <2>. QED BY <2>4, <2>5
  <1>8. Upto(n) = NonZero(model, row, cols)
    BY <1>3
  <1>9. added[n][r] = y0[r] (+) Sum(Upto(n))
    <2>1. n \notin Bad
      <3>. HIDE DEF Bad
      <3>. QED BY <1>7
    <2>2. n \in 0..n
      BY <1>1
    <2>. HIDE DEF Upto, Sum
    <2>. QED BY <2>1, <2>2
  <1>. HIDE DEF Upto
  <1>. QED BY <1>2, <1>8, <1>9

\* AddBlocks leaves rows below those of the blocks alone.
LEMMA RowsBelow ==
  ASSUME Len(model.rbfs) \in Nat \ {0}, NEW head \in Nat, NEW tail \in Nat,
         NEW y0, NEW r \in DOMAIN y0,
         r \notin 1..(head + tail), NEW aa, NEW ff, NEW ftt, NEW hh
  PROVE  AddBlocks(y0, head, tail, aa, ff, ftt, hh)[r] = y0[r]
  <1>1. PICK n \in Nat \ {0} : n = Len(model.rbfs)
    OBVIOUS
  <1>2. PICK added : /\ AddBlocks(y0, head, tail, aa, ff, ftt, hh) = added[n]
                     /\ InTurn(added, y0, head, tail, aa, ff, ftt, hh)
    BY <1>1, AddedInTurn
  <1>3. ASSUME NEW i \in 1..n PROVE added[i][r] = added[i - 1][r]
    <2>1. r \notin 1..head /\ r \notin (head + 1)..(head + tail)
      OBVIOUS
    <2>. QED BY <1>1, <1>2, <2>1 DEF InTurn
  <1>. DEFINE Bad == {i \in 0..n : added[i][r] # y0[r]}
  <1>4. Bad = {}
    <2>1. SUFFICES ASSUME Bad # {} PROVE FALSE
      OBVIOUS
    <2>2. PICK k \in Bad : \A i \in Bad : k <= i
      <3>1. Bad \subseteq Nat
        BY <1>1
      <3>. HIDE DEF Bad
      <3>. QED BY <2>1, <3>1, LeastNumber
    <2>3. k \in 0..n /\ added[k][r] # y0[r]
      BY <2>2
    <2>4. k # 0
      BY <1>2, <2>3 DEF InTurn
    <2>5. k \in 1..n /\ k - 1 \in 0..n /\ k - 1 \notin Bad
      <3>1. k \in 1..n /\ k - 1 \in 0..n /\ ~(k <= k - 1)
        BY <1>1, <2>3, <2>4
      <3>. HIDE DEF Bad
      <3>. QED BY <2>2, <3>1
    <2>. QED BY <1>3, <2>3, <2>5
  <1>. QED BY <1>1, <1>2, <1>4

\* w has that many components.
Vector(w, length) == w = [c \in 1..length |-> w[c]]

\* The slices of the weights that set_weights makes.
LEMMA SlicesFit ==
  ASSUME NEW n \in Nat, NEW e \in Nat, NEW l \in Nat, NEW w, Vector(w, n + (kDim * e) + l),
         NEW places \in Seq(Nat), NEW grads \in Seq(Nat), Len(places) = n, Len(grads) = e
  PROVE  /\ \A kernel \in {"value", "gradientTranspose"} :
              SliceFits(kernel, places, n, FirstOf(w, n), w)
         /\ \A kernel \in {"gradient", "hessian"} :
              SliceFits(kernel, grads, n, Segment(w, n, kDim * e), w)
  <1>1. PICK d \in Nat : d = kDim * e
    BY DimAssumption
  <1>2. PICK S : w \in Seq(S) /\ Len(w) = n + d + l
    <2>1. PICK z \in Nat : z = n + d + l
      BY <1>1
    <2>2. w = [c \in 1..z |-> w[c]]
      BY <1>1, <2>1 DEF Vector
    <2>3. w \in Seq({w[c] : c \in 1..z}) /\ Len(w) = z
      BY <2>2, AsSequence
    <2>. QED BY <2>1, <2>3
  <1>3. ASSUME NEW c \in 1..n PROVE FirstOf(w, n)[c] = w[c]
    BY <1>1, <1>2 DEF FirstOf
  <1>4. ASSUME NEW c \in 1..d PROVE Segment(w, n, d)[c] = w[n + c]
    BY <1>1, <1>2 DEF Segment
  <1>5. ASSUME NEW kernel \in {"value", "gradientTranspose"}
                 PROVE SliceFits(kernel, places, n, FirstOf(w, n), w)
    <2>1. Km(kernel) = 1 /\ \A s, j : ColumnAt(kernel, n, s, j) = s
      BY DEF Km, ColumnAt, OfGradients
    <2>2. ASSUME NEW s \in DOMAIN places, NEW j \in 1..Km(kernel)
          PROVE  FirstOf(w, n)[(Km(kernel) * (s - 1)) + j] = w[ColumnAt(kernel, n, s, j)]
      <3>1. s \in 1..n /\ j = 1
        BY <2>1
      <3>2. (Km(kernel) * (s - 1)) + j = s
        BY <2>1, <3>1
      <3>. QED BY <1>3, <2>1, <3>1, <3>2
    <2>. QED BY <2>2 DEF SliceFits
  <1>6. ASSUME NEW kernel \in {"gradient", "hessian"}
                 PROVE SliceFits(kernel, grads, n, Segment(w, n, kDim * e), w)
    <2>1. Km(kernel) = kDim /\ \A s, j : ColumnAt(kernel, n, s, j) = ColumnOf(n, s, j)
      BY DEF Km, ColumnAt, OfGradients
    <2>2. ASSUME NEW s \in DOMAIN grads, NEW j \in 1..Km(kernel)
          PROVE  Segment(w, n, kDim * e)[(Km(kernel) * (s - 1)) + j] = w[ColumnAt(kernel, n, s, j)]
      <3>1. s \in 1..e /\ j \in 1..kDim /\ kDim \in Nat \ {0}
        BY <2>1, DimAssumption
      <3>2. Placed(kDim, e, s, j)
        BY <3>1, PlaceThere
      <3>3. PICK c \in 1..d : c = (kDim * (s - 1)) + j
        BY <1>1, <3>2 DEF Placed
      <3>4. n + c = ColumnOf(n, s, j)
        <4>1. PICK z \in Int : z = kDim * (s - 1)
          BY <3>1
        <4>. QED BY <3>1, <3>3, <4>1 DEF ColumnOf
      <3>5. Segment(w, n, kDim * e)[c] = w[n + c]
        BY <1>1, <1>4
      <3>6. (Km(kernel) * (s - 1)) + j = c
        BY <2>1, <3>3
      <3>7. w[n + c] = w[ColumnAt(kernel, n, s, j)]
        BY <2>1, <3>4
      <3>. QED BY <3>5, <3>6, <3>7
    <2>. QED BY <2>2 DEF SliceFits
  <1>. QED BY <1>5, <1>6

\* Entries on both sides of a row are all of them.
LEMMA HalvesAdd ==
  ASSUME NEW m \in Models, NEW i \in 1..Len(m.rbfs), NEW places \in Seq(Nat), NEW grads \in Seq(Nat),
         NEW w, NEW row, NEW k1, NEW k2, ~OfGradients(k1), OfGradients(k2)
  PROVE  Over(m, row, Functionals(places, grads), w, HalfTerms(m, row, places, grads, i, k1))
         (+) Over(m, row, Functionals(places, grads), w, HalfTerms(m, row, places, grads, i, k2))
           = Over(m, row, Functionals(places, grads), w, OfRbf(m, row, Functionals(places, grads), i))
  <1>. DEFINE cols == Functionals(places, grads)
              A == HalfTerms(m, row, places, grads, i, k1)
              B == HalfTerms(m, row, places, grads, i, k2)
  <1>1. IsFiniteSet(DOMAIN cols)
    BY Columns
  <1>2. A \cup B = OfRbf(m, row, cols, i) /\ A \cap B = {}
    BY DEF HalfTerms
  <1>3. A \in SUBSET NonZero(m, row, cols) /\ B \in SUBSET NonZero(m, row, cols)
    BY DEF HalfTerms, OfRbf
  <1>. HIDE DEF A, B, cols
  <1>4. Over(m, row, cols, w, A \cup B) = Over(m, row, cols, w, A) (+) Over(m, row, cols, w, B)
    BY <1>1, <1>2, <1>3, OverUnion
  <1>. QED BY <1>2, <1>4 DEF A, B, cols

\* A row of one evaluator.
LEMMA BlocksRow ==
  ASSUME NEW m \in Models, NEW i \in 1..Len(m.rbfs), NEW places \in Seq(Nat), NEW grads \in Seq(Nat),
         NEW w, NEW blocks, NEW kernel \in KernelNames, NEW symmetric, NEW targets \in Seq(Nat),
         NEW bound, NEW slice,
         BlocksAre(m.rbfs, blocks, kernel, symmetric, SourcesOf(kernel, places, grads), targets,
                   bound),
         Weighted(blocks[i], kernel, SourcesOf(kernel, places, grads), slice),
         symmetric => targets = SourcesOf(kernel, places, grads),
         SliceFits(kernel, SourcesOf(kernel, places, grads), Len(places), slice, w),
         NEW t \in 1..Len(targets), NEW o \in 1..Kn(kernel),
         NEW row, row = [at |-> targets[t], axis |-> RowAxis(kernel, o)]
  PROVE  RowIs(evaluate(blocks[i]), Kn(kernel), Len(targets), t, o,
               Over(m, row, Functionals(places, grads), w,
                    HalfTerms(m, row, places, grads, i, kernel)))
  <1>1. BlockIs(blocks[i], m.rbfs[i], kernel, symmetric, SourcesOf(kernel, places, grads), targets,
                bound)
    <2>1. i \in DOMAIN m.rbfs
      BY RbfNumbers
    <2>. QED BY <2>1 DEF BlocksAre
  <1>. QED BY <1>1, EvaluateRight

\* A row of both evaluators of a side, added.
LEMMA TwoRows ==
  ASSUME NEW m \in Models, NEW i \in 1..Len(m.rbfs), NEW places \in Seq(Nat), NEW grads \in Seq(Nat),
         NEW w, NEW row, NEW y1, NEW y2, NEW kn, NEW n, NEW t, NEW o, NEW k1, NEW k2,
         ~OfGradients(k1), OfGradients(k2),
         RowIs(y1, kn, n, t, o,
               Over(m, row, Functionals(places, grads), w, HalfTerms(m, row, places, grads, i, k1))),
         RowIs(y2, kn, n, t, o,
               Over(m, row, Functionals(places, grads), w, HalfTerms(m, row, places, grads, i, k2)))
  PROVE  Plus(y1, y2)[(kn * (t - 1)) + o]
           = Over(m, row, Functionals(places, grads), w, OfRbf(m, row, Functionals(places, grads), i))
  <1>1. PICK s1, s2 : /\ s1
                           = Over(m, row, Functionals(places, grads), w,
                                  HalfTerms(m, row, places, grads, i, k1))
                      /\ s2 = Over(m, row, Functionals(places, grads), w,
                                   HalfTerms(m, row, places, grads, i, k2))
    OBVIOUS
  <1>2. PICK r : r = (kn * (t - 1)) + o
    OBVIOUS
  <1>3. y1[r] = s1 /\ y2[r] = s2 /\ r \in DOMAIN y1
    BY <1>1, <1>2 DEF RowIs
  <1>4. Plus(y1, y2)[r] = s1 (+) s2
    BY <1>3 DEF Plus
  <1>5. s1 (+) s2 = Over(m, row, Functionals(places, grads), w,
                         OfRbf(m, row, Functionals(places, grads), i))
    BY <1>1, HalvesAdd
  <1>. QED BY <1>2, <1>4, <1>5

\* What is needed of the evaluators a and f of an rbf, for row j of the values ...
HeadReady(m, i, sp, sg, tp, symmetric, va, aa, ff, w, head, tail, j, row) ==
  /\ m \in Models /\ i \in 1..Len(m.rbfs) /\ sp \in Seq(Nat) /\ sg \in Seq(Nat) /\ tp \in Seq(Nat)
  /\ j \in 1..Len(tp) /\ row = [at |-> tp[j], axis |-> 0]
  /\ symmetric => tp = sp
  /\ BlocksAre(m.rbfs, aa, "value", symmetric, sp, tp, va)
  /\ BlocksAre(m.rbfs, ff, "gradient", FALSE, sg, tp, va)
  /\ Weighted(aa[i], "value", sp, head) /\ Weighted(ff[i], "gradient", sg, tail)
  /\ SliceFits("value", sp, Len(sp), head, w) /\ SliceFits("gradient", sg, Len(sp), tail, w)

\* ... and of ft and h, for derivative k of target j.
TailReady(m, i, sp, sg, tg, symmetric, ga, ftt, hh, w, head, tail, j, k, row) ==
  /\ m \in Models /\ i \in 1..Len(m.rbfs) /\ sp \in Seq(Nat) /\ sg \in Seq(Nat) /\ tg \in Seq(Nat)
  /\ j \in 1..Len(tg) /\ k \in 1..kDim /\ row = [at |-> tg[j], axis |-> k]
  /\ symmetric => tg = sg
  /\ BlocksAre(m.rbfs, ftt, "gradientTranspose", FALSE, sp, tg, ga)
  /\ BlocksAre(m.rbfs, hh, "hessian", symmetric, sg, tg, ga)
  /\ Weighted(ftt[i], "gradientTranspose", sp, head) /\ Weighted(hh[i], "hessian", sg, tail)
  /\ SliceFits("gradientTranspose", sp, Len(sp), head, w)
  /\ SliceFits("hessian", sg, Len(sp), tail, w)

\* a and f add up to what the rbf has in the row of a value.
LEMMA HeadRow ==
  ASSUME NEW m, NEW i, NEW sp, NEW sg, NEW tp,
         NEW symmetric, NEW va, NEW aa, NEW ff, NEW w, NEW head, NEW tail, NEW t, NEW row,
         HeadReady(m, i, sp, sg, tp, symmetric, va, aa, ff, w, head, tail, t, row)
  PROVE  Plus(evaluate(aa[i]), evaluate(ff[i]))[t]
           = Over(m, row, Functionals(sp, sg), w, OfRbf(m, row, Functionals(sp, sg), i))
  <1>1. /\ m \in Models /\ i \in 1..Len(m.rbfs) /\ sp \in Seq(Nat) /\ sg \in Seq(Nat)
        /\ tp \in Seq(Nat)
    BY DEF HeadReady
  <1>2. /\ SourcesOf("value", sp, sg) = sp /\ SourcesOf("gradient", sp, sg) = sg
        /\ ~OfGradients("value") /\ OfGradients("gradient") /\ Kn("value") = 1 /\ Kn("gradient") = 1
        /\ "value" \in KernelNames /\ "gradient" \in KernelNames
    BY DEF SourcesOf, OfGradients, Kn, KernelNames
  <1>3. 1 \in 1..1 /\ RowAxis("value", 1) = 0 /\ RowAxis("gradient", 1) = 0
    BY DEF RowAxis
  <1>4. RowIs(evaluate(aa[i]), 1, Len(tp), t, 1,
              Over(m, row, Functionals(sp, sg), w, HalfTerms(m, row, sp, sg, i, "value")))
    <2>1. PICK kernel, o : kernel = "value" /\ o = 1
      OBVIOUS
    <2>2. RowIs(evaluate(aa[i]), Kn(kernel), Len(tp), t, o,
              Over(m, row, Functionals(sp, sg), w, HalfTerms(m, row, sp, sg, i, kernel)))
      <3>1. /\ kernel \in KernelNames
            /\ BlocksAre(m.rbfs, aa, kernel, symmetric, SourcesOf(kernel, sp, sg), tp, va)
            /\ Weighted(aa[i], kernel, SourcesOf(kernel, sp, sg), head)
            /\ (symmetric => tp = SourcesOf(kernel, sp, sg))
            /\ SliceFits(kernel, SourcesOf(kernel, sp, sg), Len(sp), head, w)
            /\ o \in 1..Kn(kernel) /\ row = [at |-> tp[t], axis |-> RowAxis(kernel, o)]
        BY <1>2, <1>3, <2>1 DEF HeadReady
      <3>2. t \in 1..Len(tp)
        BY DEF HeadReady
      <3>. QED BY <1>1, <3>1, <3>2, BlocksRow
    <2>. QED BY <1>2, <2>1, <2>2
  <1>5. RowIs(evaluate(ff[i]), 1, Len(tp), t, 1,
              Over(m, row, Functionals(sp, sg), w, HalfTerms(m, row, sp, sg, i, "gradient")))
    <2>1. PICK kernel, o, s : kernel = "gradient" /\ o = 1 /\ s = FALSE
      OBVIOUS
    <2>2. RowIs(evaluate(ff[i]), Kn(kernel), Len(tp), t, o,
              Over(m, row, Functionals(sp, sg), w, HalfTerms(m, row, sp, sg, i, kernel)))
      <3>1. /\ kernel \in KernelNames
            /\ BlocksAre(m.rbfs, ff, kernel, s, SourcesOf(kernel, sp, sg), tp, va)
            /\ Weighted(ff[i], kernel, SourcesOf(kernel, sp, sg), tail)
            /\ (s => tp = SourcesOf(kernel, sp, sg))
            /\ SliceFits(kernel, SourcesOf(kernel, sp, sg), Len(sp), tail, w)
            /\ o \in 1..Kn(kernel) /\ row = [at |-> tp[t], axis |-> RowAxis(kernel, o)]
        BY <1>2, <1>3, <2>1 DEF HeadReady
      <3>2. t \in 1..Len(tp)
        BY DEF HeadReady
      <3>. QED BY <1>1, <3>1, <3>2, BlocksRow
    <2>. QED BY <1>2, <2>1, <2>2
  <1>6. t \in 1..Len(tp)
    BY DEF HeadReady
  <1>7. Plus(evaluate(aa[i]), evaluate(ff[i]))[(1 * (t - 1)) + 1]
          = Over(m, row, Functionals(sp, sg), w, OfRbf(m, row, Functionals(sp, sg), i))
    BY <1>1, <1>2, <1>4, <1>5, TwoRows
  <1>8. (1 * (t - 1)) + 1 = t
    BY <1>6
  <1>. QED BY <1>7, <1>8

\* ft and h add up to what the rbf has in the row of a derivative.
LEMMA TailRow ==
  ASSUME NEW m, NEW i, NEW sp, NEW sg, NEW tg,
         NEW symmetric, NEW ga, NEW ftt, NEW hh, NEW w, NEW head, NEW tail, NEW t, NEW k, NEW row,
         TailReady(m, i, sp, sg, tg, symmetric, ga, ftt, hh, w, head, tail, t, k, row)
  PROVE  Plus(evaluate(ftt[i]), evaluate(hh[i]))[(kDim * (t - 1)) + k]
           = Over(m, row, Functionals(sp, sg), w, OfRbf(m, row, Functionals(sp, sg), i))
  <1>1. /\ m \in Models /\ i \in 1..Len(m.rbfs) /\ sp \in Seq(Nat) /\ sg \in Seq(Nat)
        /\ tg \in Seq(Nat)
    BY DEF TailReady
  <1>2. /\ SourcesOf("gradientTranspose", sp, sg) = sp /\ SourcesOf("hessian", sp, sg) = sg
        /\ ~OfGradients("gradientTranspose") /\ OfGradients("hessian")
        /\ Kn("gradientTranspose") = kDim /\ Kn("hessian") = kDim
        /\ "gradientTranspose" \in KernelNames /\ "hessian" \in KernelNames
    BY DEF SourcesOf, OfGradients, Kn, KernelNames
  <1>3. RowAxis("gradientTranspose", k) = k /\ RowAxis("hessian", k) = k
    BY DEF RowAxis
  <1>4. RowIs(evaluate(ftt[i]), kDim, Len(tg), t, k,
              Over(m, row, Functionals(sp, sg), w, HalfTerms(m, row, sp, sg, i, "gradientTranspose")))
    <2>1. PICK kernel, s : kernel = "gradientTranspose" /\ s = FALSE
      OBVIOUS
    <2>2. RowIs(evaluate(ftt[i]), Kn(kernel), Len(tg), t, k,
              Over(m, row, Functionals(sp, sg), w, HalfTerms(m, row, sp, sg, i, kernel)))
      <3>1. /\ kernel \in KernelNames
            /\ BlocksAre(m.rbfs, ftt, kernel, s, SourcesOf(kernel, sp, sg), tg, ga)
            /\ Weighted(ftt[i], kernel, SourcesOf(kernel, sp, sg), head)
            /\ (s => tg = SourcesOf(kernel, sp, sg))
            /\ SliceFits(kernel, SourcesOf(kernel, sp, sg), Len(sp), head, w)
            /\ k \in 1..Kn(kernel) /\ row = [at |-> tg[t], axis |-> RowAxis(kernel, k)]
        BY <1>2, <1>3, <2>1 DEF TailReady
      <3>2. t \in 1..Len(tg)
        BY DEF TailReady
      <3>. QED BY <1>1, <3>1, <3>2, BlocksRow
    <2>. QED BY <1>2, <2>1, <2>2
  <1>5. RowIs(evaluate(hh[i]), kDim, Len(tg), t, k,
              Over(m, row, Functionals(sp, sg), w, HalfTerms(m, row, sp, sg, i, "hessian")))
    <2>1. PICK kernel : kernel = "hessian"
      OBVIOUS
    <2>2. RowIs(evaluate(hh[i]), Kn(kernel), Len(tg), t, k,
              Over(m, row, Functionals(sp, sg), w, HalfTerms(m, row, sp, sg, i, kernel)))
      <3>1. /\ kernel \in KernelNames
            /\ BlocksAre(m.rbfs, hh, kernel, symmetric, SourcesOf(kernel, sp, sg), tg, ga)
            /\ Weighted(hh[i], kernel, SourcesOf(kernel, sp, sg), tail)
            /\ (symmetric => tg = SourcesOf(kernel, sp, sg))
            /\ SliceFits(kernel, SourcesOf(kernel, sp, sg), Len(sp), tail, w)
            /\ k \in 1..Kn(kernel) /\ row = [at |-> tg[t], axis |-> RowAxis(kernel, k)]
        BY <1>2, <1>3, <2>1 DEF TailReady
      <3>2. t \in 1..Len(tg)
        BY DEF TailReady
      <3>. QED BY <1>1, <3>1, <3>2, BlocksRow
    <2>. QED BY <1>2, <2>1, <2>2
  <1>. QED BY <1>1, <1>2, <1>4, <1>5, TwoRows

\* All that is known of the blocks and their weights when they are evaluated.
Ready(m, s, t, w, aa, ff, ftt, hh) ==
  /\ s.points \in Seq(Nat) /\ s.grads \in Seq(Nat) /\ t.points \in Seq(Nat) /\ t.grads \in Seq(Nat)
  /\ \E symmetric, va, ga : /\ symmetric => t = s
                            /\ Places(symmetric, m.rbfs, s, t, va, ga, aa, ff, ftt, hh)
  /\ WeightsIn(m.rbfs, s, w, Len(s.points), kDim * Len(s.grads), aa, ff, ftt, hh)
  /\ Vector(w, Len(s.points) + (kDim * Len(s.grads)) + m.l)

\* The blocks of an rbf add to each row what it has there.
LEMMA RowAdds ==
  ASSUME NEW m \in Models,
         NEW s, NEW t, NEW w, NEW aa, NEW ff, NEW ftt, NEW hh, Ready(m, s, t, w, aa, ff, ftt, hh),
         NEW i \in 1..Len(m.rbfs), NEW r \in DOMAIN Functionals(t.points, t.grads),
         NEW row, row = Functionals(t.points, t.grads)[r],
         NEW cols, cols = Functionals(s.points, s.grads)
  PROVE  Adds(aa, ff, ftt, hh, Len(t.points), r, i) = Over(m, row, cols, w, OfRbf(m, row, cols, i))
  <1>1. PICK sp \in Seq(Nat), sg \in Seq(Nat), tp \in Seq(Nat), tg \in Seq(Nat) :
          sp = s.points /\ sg = s.grads /\ tp = t.points /\ tg = t.grads
    BY DEF Ready
  <1>2. PICK symmetric, va, ga : /\ symmetric => tp = sp /\ tg = sg
                                 /\ BlocksAre(m.rbfs, aa, "value", symmetric, sp, tp, va)
                                 /\ BlocksAre(m.rbfs, ff, "gradient", FALSE, sg, tp, va)
                                 /\ BlocksAre(m.rbfs, ftt, "gradientTranspose", FALSE, sp, tg, ga)
                                 /\ BlocksAre(m.rbfs, hh, "hessian", symmetric, sg, tg, ga)
    BY <1>1 DEF Ready, Places
  <1>3. PICK n \in Nat, e \in Nat, l \in Nat, p \in Nat : n = Len(sp) /\ e = Len(sg) /\ l = m.l
               /\ p = Len(tp)
    <2>1. Len(sp) \in Nat /\ Len(sg) \in Nat /\ Len(tp) \in Nat /\ m.l \in Nat
      BY ModelsAssumption
    <2>. QED BY <2>1
  <1>4. PICK head, tail : head = FirstOf(w, n) /\ tail = Segment(w, n, kDim * e)
    OBVIOUS
  <1>5. /\ Weighted(aa[i], "value", sp, head) /\ Weighted(ff[i], "gradient", sg, tail)
        /\ Weighted(ftt[i], "gradientTranspose", sp, head) /\ Weighted(hh[i], "hessian", sg, tail)
    <2>1. i \in DOMAIN m.rbfs
      BY RbfNumbers
    <2>. QED BY <1>1, <1>3, <1>4, <2>1 DEF Ready, WeightsIn
  <1>6. /\ SliceFits("value", sp, n, head, w) /\ SliceFits("gradientTranspose", sp, n, head, w)
        /\ SliceFits("gradient", sg, n, tail, w) /\ SliceFits("hessian", sg, n, tail, w)
    <2>1. Vector(w, n + (kDim * e) + l)
      BY <1>1, <1>3 DEF Ready
    <2>2. /\ \A kernel \in {"value", "gradientTranspose"} : SliceFits(kernel, sp, n, FirstOf(w, n), w)
          /\ \A kernel \in {"gradient", "hessian"} :
               SliceFits(kernel, sg, n, Segment(w, n, kDim * e), w)
      BY <1>3, <2>1, SlicesFit
    <2>. QED BY <1>4, <2>2
  <1>7. CASE r \in 1..p
    <2>1. row = [at |-> tp[r], axis |-> 0]
      BY <1>1, <1>3, <1>7, PointColumn
    <2>2. Plus(evaluate(aa[i]), evaluate(ff[i]))[r] = Over(m, row, cols, w, OfRbf(m, row, cols, i))
      <3>1. SliceFits("value", sp, Len(sp), head, w) /\ SliceFits("gradient", sg, Len(sp), tail, w)
        BY <1>3, <1>6
      <3>2. r \in 1..Len(tp) /\ (symmetric => tp = sp) /\ cols = Functionals(sp, sg)
        BY <1>1, <1>2, <1>3, <1>7
      <3>3. HeadReady(m, i, sp, sg, tp, symmetric, va, aa, ff, w, head, tail, r, row)
        BY <2>1, <1>2, <1>5, <3>1, <3>2 DEF HeadReady
      <3>4. Plus(evaluate(aa[i]), evaluate(ff[i]))[r]
              = Over(m, row, Functionals(sp, sg), w, OfRbf(m, row, Functionals(sp, sg), i))
        BY <3>3, HeadRow
      <3>. QED BY <3>2, <3>4
    <2>. QED BY <1>1, <1>3, <1>7, <2>2 DEF Adds
  <1>8. CASE r \notin 1..p
    <2>1. PICK j \in 1..Len(tg) : \E k \in 1..kDim : r = ColumnOf(p, j, k)
      BY <1>1, <1>3, <1>8, EachColumn
    <2>2. PICK k \in 1..kDim : r = ColumnOf(p, j, k)
      BY <2>1
    <2>3. r > p /\ row = [at |-> tg[j], axis |-> k]
      BY <1>1, <1>3, <2>2, AxisColumn
    <2>4. Plus(evaluate(ftt[i]), evaluate(hh[i]))[(kDim * (j - 1)) + k]
            = Over(m, row, cols, w, OfRbf(m, row, cols, i))
      <3>1. SliceFits("gradientTranspose", sp, Len(sp), head, w)
              /\ SliceFits("hessian", sg, Len(sp), tail, w)
        BY <1>3, <1>6
      <3>2. (symmetric => tg = sg) /\ cols = Functionals(sp, sg)
        BY <1>1, <1>2
      <3>3. Plus(evaluate(ftt[i]), evaluate(hh[i]))[(kDim * (j - 1)) + k]
              = Over(m, row, Functionals(sp, sg), w, OfRbf(m, row, Functionals(sp, sg), i))
        <4>1. TailReady(m, i, sp, sg, tg, symmetric, ga, ftt, hh, w, head, tail, j, k, row)
          BY <2>3, <1>2, <1>5, <3>1, <3>2 DEF TailReady
        <4>. QED BY <4>1, TailRow
      <3>. QED BY <3>2, <3>3
    <2>5. r - p = (kDim * (j - 1)) + k /\ ~(r <= p)
      <3>1. PICK z \in Int : z = kDim * (j - 1)
        BY DimAssumption
      <3>2. r = (p + z) + k \/ r = p + (z + k)
        BY <2>2, <3>1 DEF ColumnOf
      <3>3. r \in Int /\ k \in Int
        BY <3>2, <3>1, DimAssumption
      <3>. QED BY <2>3, <3>1, <3>2, <3>3
    <2>. QED BY <1>1, <1>3, <2>4, <2>5 DEF Adds
  <1>. QED BY <1>7, <1>8

\* The blocks of all rbfs add to a row what it has by definition.
LEMMA SumsAdded ==
  ASSUME model \in Models,
         NEW s, NEW t, NEW w, NEW aa, NEW ff, NEW ftt, NEW hh, Ready(model, s, t, w, aa, ff, ftt, hh),
         NEW head, NEW tail, head = Len(t.points), tail = kDim * Len(t.grads),
         NEW r \in DOMAIN Functionals(t.points, t.grads),
         NEW row, row = Functionals(t.points, t.grads)[r],
         NEW y0, r \in DOMAIN y0, IsSum(y0[r])
  PROVE  /\ AddBlocks(y0, head, tail, aa, ff, ftt, hh)[r]
              = y0[r] (+) RbfTerms(model, row, s.points, s.grads, w)
         /\ IsSum(RbfTerms(model, row, s.points, s.grads, w))
  <1>1. PICK cols : cols = Functionals(s.points, s.grads)
    OBVIOUS
  <1>2. IsFiniteSet(DOMAIN cols)
    BY <1>1, Columns DEF Ready
  <1>3. head \in Nat /\ tail \in Nat /\ r \in 1..(head + tail)
    <2>1. Len(t.points) \in Nat /\ Len(t.grads) \in Nat
      BY DEF Ready
    <2>2. PICK e \in Nat : e = kDim * Len(t.grads)
      BY <2>1, DimAssumption
    <2>. QED BY <2>1, <2>2 DEF Functionals
  <1>4. ASSUME NEW i \in 1..Len(model.rbfs)
        PROVE  Adds(aa, ff, ftt, hh, head, r, i)
                 = Over(model, row, cols, w, OfRbf(model, row, cols, i))
    BY <1>1, RowAdds
  <1>5. AddBlocks(y0, head, tail, aa, ff, ftt, hh)[r]
          = y0[r] (+) Over(model, row, cols, w, NonZero(model, row, cols))
    BY <1>2, <1>3, <1>4, RowsAdded
  <1>6. RbfTerms(model, row, s.points, s.grads, w)
          = Over(model, row, cols, w, NonZero(model, row, cols))
    BY <1>1, RbfTermsOver
  <1>7. IsSum(Over(model, row, cols, w, NonZero(model, row, cols)))
    <2>1. NonZero(model, row, cols) \in SUBSET NonZero(model, row, cols)
      OBVIOUS
    <2>. QED BY <1>2, <2>1, OverType
  <1>. QED BY <1>5, <1>6, <1>7

\* The polynomial has the last weights.
LEMMA MonomialsAre ==
  ASSUME NEW m \in Models, NEW z \in Nat, NEW w, Vector(w, z + m.l), NEW rows, NEW r \in DOMAIN rows
  PROVE  polynomial_terms(rows, LastOf(w, m.l))[r] = MonomialTerms(m, rows[r], w)
  <1>1. PICK l \in Nat : l = m.l
    BY ModelsAssumption
  <1>2. PICK S : w \in Seq(S) /\ Len(w) = z + l
    <2>1. PICK e \in Nat : e = z + l
      BY <1>1
    <2>2. w = [c \in 1..e |-> w[c]]
      BY <1>1, <2>1 DEF Vector
    <2>. QED BY <2>1, <2>2, AsSequence
  <1>3. PICK last : last = LastOf(w, l)
    OBVIOUS
  <1>4. DOMAIN last = 1..l /\ \A k \in 1..l : last[k] = w[(Len(w) - l) + k]
    <2>1. Len(w) - l = z /\ Len(w) - l + 1 = z + 1
      BY <1>1, <1>2
    <2>2. last = SubSeq(w, z + 1, z + l)
      BY <1>2, <1>3, <2>1 DEF LastOf
    <2>3. DOMAIN last = 1..l
      BY <1>1, <1>2, <2>2
    <2>4. ASSUME NEW k \in 1..l PROVE last[k] = w[z + k]
      BY <1>1, <1>2, <2>2
    <2>. QED BY <2>1, <2>3, <2>4
  <1>5. polynomial_terms(rows, last)[r] = SetToBag({<<Monomial(k, rows[r]), last[k]>> : k \in 1..l})
    BY <1>4 DEF polynomial_terms
  <1>6. {<<Monomial(k, rows[r]), last[k]>> : k \in 1..l}
          = {<<Monomial(k, rows[r]), w[(Len(w) - l) + k]>> : k \in 1..l}
    BY <1>4
  <1>. QED BY <1>1, <1>3, <1>5, <1>6 DEF MonomialTerms

\* The same, for weights that fit the points.
LEMMA ReadyLast ==
  ASSUME NEW m \in Models,
         NEW s, NEW t, NEW w, NEW aa, NEW ff, NEW ftt, NEW hh, Ready(m, s, t, w, aa, ff, ftt, hh),
         NEW rows, NEW r \in DOMAIN rows
  PROVE  polynomial_terms(rows, LastOf(w, m.l))[r] = MonomialTerms(m, rows[r], w)
  <1>1. PICK e \in Nat : e = kDim * Len(s.grads)
    BY DimAssumption DEF Ready
  <1>2. PICK z \in Nat : z = Len(s.points) + e
    BY DEF Ready
  <1>3. Vector(w, z + m.l)
    BY <1>1, <1>2 DEF Ready
  <1>. QED BY <1>3, MonomialsAre

\* evaluate of Evaluator and SymmetricEvaluator.
LEMMA EvaluatedRight ==
  ASSUME model \in Models,
         NEW s, NEW t, NEW w, NEW aa, NEW ff, NEW ftt, NEW hh, Ready(model, s, t, w, aa, ff, ftt, hh),
         NEW head, NEW tail, head = Len(t.points), tail = kDim * Len(t.grads)
  PROVE  Plus(AddBlocks(Zeros(head + tail), head, tail, aa, ff, ftt, hh),
              polynomial_terms(Functionals(t.points, t.grads), LastOf(w, model.l)))
           = Product(model, s.points, s.grads, t.points, t.grads, w)
  <1>1. PICK rows : rows = Functionals(t.points, t.grads)
    OBVIOUS
  <1>2. PICK z, p, y0 : /\ y0 = Zeros(head + tail) /\ z = AddBlocks(y0, head, tail, aa, ff, ftt, hh)
                        /\ p = polynomial_terms(rows, LastOf(w, model.l))
    OBVIOUS
  <1>3. DOMAIN rows = DOMAIN y0 /\ \A r \in DOMAIN y0 : y0[r] = EmptyBag
    BY <1>1, <1>2 DEF Functionals, Zeros
  <1>4. DOMAIN z = DOMAIN y0
    <2>1. Len(model.rbfs) \in Nat \ {0}
      BY RbfNumbers
    <2>. QED BY <1>2, <2>1, AddBlocksSize
  <1>5. ASSUME NEW r \in DOMAIN rows
        PROVE  z[r] (+) p[r]
                 = RbfTerms(model, rows[r], s.points, s.grads, w) (+) MonomialTerms(model, rows[r], w)
    <2>1. IsSum(EmptyBag)
      BY SetBag DEF EmptyBag
    <2>2. z[r] = EmptyBag (+) RbfTerms(model, rows[r], s.points, s.grads, w)
            /\ IsSum(RbfTerms(model, rows[r], s.points, s.grads, w))
      <3>1. PICK row : row = rows[r]
        OBVIOUS
      <3>2. r \in DOMAIN y0 /\ IsSum(y0[r]) /\ y0[r] = EmptyBag
        BY <1>3, <2>1
      <3>. QED BY <1>1, <1>2, <3>1, <3>2, SumsAdded
    <2>3. p[r] = MonomialTerms(model, rows[r], w)
      BY <1>2, ReadyLast
    <2>. QED BY <2>2, <2>3, PlusNothing
  <1>6. Plus(z, p) = [r \in DOMAIN rows |-> RbfTerms(model, rows[r], s.points, s.grads, w)
          (+) MonomialTerms(model, rows[r], w)]
    BY <1>3, <1>4, <1>5 DEF Plus
  <1>. QED BY <1>1, <1>2, <1>6 DEF Product

\* operator() of Operator: with a nugget at the values, and the conditions on the weights below.
LEMMA ApplyRight ==
  ASSUME model \in Models,
         NEW s, NEW w, NEW aa, NEW ff, NEW ftt, NEW hh, Ready(model, s, s, w, aa, ff, ftt, hh),
         mu = Len(s.points), sigma = Len(s.grads), poly.rows = Functionals(s.points, s.grads)
  PROVE  apply(w, aa, ff, ftt, hh) = SquareProduct(model, s.points, s.grads, w)
  <1>1. PICK head \in Nat, tail \in Nat, l \in Nat : head = Len(s.points)
               /\ tail = kDim * Len(s.grads) /\ l = model.l
    <2>1. Len(s.points) \in Nat /\ Len(s.grads) \in Nat /\ kDim \in Nat /\ model.l \in Nat
      BY DimAssumption, ModelsAssumption DEF Ready
    <2>. QED BY <2>1
  <1>2. PICK rows, product : rows = Functionals(s.points, s.grads)
               /\ product = Product(model, s.points, s.grads, s.points, s.grads, w)
    OBVIOUS
  <1>3. PICK n \in Nat : n = head + tail
    OBVIOUS
  <1>4. DOMAIN rows = 1..n /\ DOMAIN product = 1..n
    BY <1>1, <1>2, <1>3 DEF Functionals, Product
  <1>. DEFINE nugget(r) == SetToBag({<<Nugget, w[r]>>})
              y0 == [r \in 1..(n + l) |-> IF r <= head THEN nugget(r) ELSE EmptyBag]
              z == AddBlocks(y0, head, tail, aa, ff, ftt, hh)
              p == polynomial_terms(rows, LastOf(w, l))
              conditions(k) == SetToBag({<<Monomial(k, rows[c]), w[c]>> : c \in 1..n})
              upper == [r \in 1..n |-> IF r <= head THEN product[r] (+) nugget(r) ELSE product[r]]
              lower == [k \in 1..l |-> conditions(k)]
  <1>5. apply(w, aa, ff, ftt, hh)
          = [r \in 1..(n + l) |-> IF r <= n THEN z[r] (+) p[r] ELSE z[r] (+) conditions(r - n)]
    BY <1>1, <1>2, <1>3 DEF apply
  <1>6. SquareProduct(model, s.points, s.grads, w) = upper \o lower
    BY <1>1, <1>2, <1>4 DEF SquareProduct
  <1>7. upper \o lower = [r \in 1..(n + l) |-> IF r <= n THEN upper[r] ELSE lower[r - n]]
    <2>1. upper = [r \in 1..n |-> upper[r]] /\ lower = [k \in 1..l |-> lower[k]]
      OBVIOUS
    <2>. HIDE DEF upper, lower
    <2>. QED BY <2>1, Concatenated
  <1>8. ASSUME NEW r \in 1..(n + l), r <= n PROVE z[r] (+) p[r] = upper[r]
    <2>1. r \in 1..n /\ r \in DOMAIN rows /\ r \in DOMAIN y0
      BY <1>4, <1>8
    <2>2. y0[r] = IF r <= head THEN nugget(r) ELSE EmptyBag
      BY <2>1
    <2>3. IsSum(nugget(r)) /\ IsSum(y0[r])
      BY <2>2, SetBag DEF EmptyBag
    <2>4. PICK t1 : t1 = RbfTerms(model, rows[r], s.points, s.grads, w)
      OBVIOUS
    <2>5. z[r] = y0[r] (+) t1 /\ IsSum(t1)
      <3>. HIDE DEF y0
      <3>. QED BY <1>1, <1>2, <2>1, <2>3, <2>4, SumsAdded
    <2>6. p[r] = MonomialTerms(model, rows[r], w) /\ IsSum(p[r])
      <3>1. p[r] = MonomialTerms(model, rows[r], w)
        BY <1>1, <2>1, ReadyLast
      <3>. QED BY <3>1, SetBag DEF MonomialTerms
    <2>7. product[r] = t1 (+) p[r]
      BY <1>2, <2>1, <2>4, <2>6 DEF Product
    <2>8. upper[r] = IF r <= head THEN product[r] (+) nugget(r) ELSE product[r]
      BY <2>1
    <2>. HIDE DEF y0, z, p, nugget, upper
    <2>9. z[r] (+) p[r] = y0[r] (+) product[r]
      BY <2>3, <2>5, <2>6, <2>7, PlusAssociates
    <2>10. IsSum(product[r])
      BY <2>5, <2>6, <2>7, PlusSum
    <2>11. CASE r <= head
      <3>1. nugget(r) (+) product[r] = product[r] (+) nugget(r)
        BY <2>3, <2>10, PlusCommutes
      <3>. QED BY <2>2, <2>8, <2>9, <2>11, <3>1
    <2>12. CASE ~(r <= head)
      BY <2>2, <2>8, <2>9, <2>10, <2>12, PlusNothing
    <2>. QED BY <2>11, <2>12
  <1>9. ASSUME NEW r \in 1..(n + l), ~(r <= n) PROVE z[r] (+) conditions(r - n) = lower[r - n]
    <2>1. r \in DOMAIN y0 /\ r \notin 1..(head + tail) /\ ~(r <= head) /\ r - n \in 1..l
      BY <1>3, <1>9
    <2>2. y0[r] = EmptyBag
      BY <2>1
    <2>3. z[r] = EmptyBag
      <3>1. Len(model.rbfs) \in Nat \ {0}
        BY RbfNumbers
      <3>. HIDE DEF y0
      <3>. QED BY <2>1, <2>2, <3>1, RowsBelow
    <2>4. lower[r - n] = conditions(r - n) /\ IsSum(conditions(r - n))
      BY <2>1, SetBag
    <2>. HIDE DEF conditions, lower, z
    <2>. QED BY <2>3, <2>4, PlusNothing
  <1>. HIDE DEF z, p, conditions, upper, lower
  <1>. QED BY <1>5, <1>6, <1>7, <1>8, <1>9

\* The weights that are set are a vector for the points that are set.
WeightsThere == given.w # Unset => Vector(given.w, NumWeights)

\* What holds of the blocks when they are evaluated.
LEMMA ReadyFromInv ==
  ASSUME BlockInv, WeightsThere, given.w # Unset
  PROVE  Ready(model, given.src, given.trg, given.w, a, f, ft, h)
  <1>1. /\ given.src.points \in Seq(Nat) /\ given.src.grads \in Seq(Nat)
        /\ given.trg.points \in Seq(Nat) /\ given.trg.grads \in Seq(Nat)
    BY ListFacts DEF BlockInv, GivenInv
  <1>2. kind # "Evaluator" => given.trg = given.src
    BY DEF BlockInv, GivenInv
  <1>3. Places(kind # "Evaluator", model.rbfs, given.src, given.trg, Share(ValueAccuracy, sigma),
               Share(GradAccuracy, sigma), a, f, ft, h)
    BY DEF BlockInv, BlocksLatest, PlacesInv
  <1>4. mu = Len(given.src.points) /\ sigma = Len(given.src.grads)
    BY DEF BlockInv, GivenInv
  <1>5. WeightsIn(model.rbfs, given.src, given.w, mu, kDim * sigma, a, f, ft, h)
    BY DEF BlockInv, BlocksLatest
  <1>. QED BY <1>1, <1>2, <1>3, <1>4, <1>5 DEF Ready, WeightsThere, NumWeights

\* Weights are made with as many components as there are columns.
LEMMA NamedVector == ASSUME NEW name, NEW n PROVE Vector(WeightsNamed(name, n), n)
  BY DEF Vector, WeightsNamed

\* Every step keeps WeightsThere.
LEMMA WeightsThereKept ==
  ASSUME BlockInv, WeightsThere, [BlockNext]_blockVars
  PROVE  WeightsThere'
  <1>1. given = [src |-> given.src, trg |-> given.trg, w |-> given.w]
    BY DEF BlockInv, GivenInv
  <1>2. CASE SetBlockSources \/ SetBlockPoints
    <2>1. given'.w = Unset
      <3>1. PICK list : given' = [given EXCEPT !.src = list, !.w = Unset] \/ given'
                   = [src |-> list, trg |-> list, w |-> Unset]
        BY <1>2 DEF SetBlockSources, SetBlockPoints
      <3>2. CASE given' = [given EXCEPT !.src = list, !.w = Unset]
        <4>1. "w" \in DOMAIN given
          BY <1>1
        <4>. QED BY <3>2, <4>1
      <3>. QED BY <3>1, <3>2
    <2>. QED BY <2>1 DEF WeightsThere
  <1>3. ASSUME UNCHANGED <<model, mu, sigma>>, given'.w = given.w PROVE WeightsThere'
    BY <1>3 DEF WeightsThere, NumWeights
  <1>4. CASE SetBlockTargets \/ EvaluateBlocks \/ UNCHANGED blockVars
    <2>1. UNCHANGED <<model, mu, sigma>> /\ given'.w = given.w
      BY <1>1, <1>4 DEF SetBlockTargets, set_target_points_, EvaluateBlocks, blockVars
    <2>. QED BY <1>3, <2>1
  <1>5. CASE SetBlockWeights \/ Apply
    <2>1. PICK name : /\ given' = [given EXCEPT !.w = WeightsNamed(name, NumWeights)]
                      /\ UNCHANGED <<model, mu, sigma>>
      BY <1>5 DEF SetBlockWeights, set_weights_, Apply
    <2>2. given'.w = WeightsNamed(name, NumWeights) /\ NumWeights' = NumWeights
      BY <1>1, <2>1 DEF NumWeights
    <2>. QED BY <2>2, NamedVector DEF WeightsThere
  <1>. QED BY <1>2, <1>4, <1>5 DEF BlockNext

\* An evaluation returns the product ...
LEMMA EvaluateComplete ==
  ASSUME BlockInv, WeightsThere, EvaluateBlocks
  PROVE  BlockProductsComplete'
  <1>1. /\ kind # "Operator" /\ given.w # Unset /\ UNCHANGED <<kind, model, given>>
        /\ y' = IF Symmetric THEN evaluate_symmetric ELSE evaluate_
    BY DEF EvaluateBlocks
  <1>2. Ready(model, given.src, given.trg, given.w, a, f, ft, h) /\ model \in Models
    BY <1>1, ReadyFromInv DEF BlockInv, GivenInv
  <1>3. poly.rows = Functionals(given.trg.points, given.trg.grads)
          /\ poly.weights = LastOf(given.w, model.l)
    BY <1>1 DEF BlockInv, BlocksLatest
  <1>4. ASSUME NEW head, NEW tail, head = Len(given.trg.points), tail = kDim * Len(given.trg.grads)
        PROVE  Plus(AddBlocks(Zeros(head + tail), head, tail, a, f, ft, h),
                    polynomial_terms(poly.rows, poly.weights))
                 = Product(model, given.src.points, given.src.grads, given.trg.points,
                           given.trg.grads, given.w)
    BY <1>2, <1>3, <1>4, EvaluatedRight
  <1>5. y' = Product(model, given.src.points, given.src.grads, given.trg.points, given.trg.grads,
                     given.w)
    <2>1. CASE Symmetric
      <3>1. mu = Len(given.trg.points) /\ kDim * sigma = kDim * Len(given.trg.grads)
        BY <2>1 DEF BlockInv, GivenInv, Symmetric
      <3>2. y' = Plus(AddBlocks(Zeros(mu + kDim * sigma), mu, kDim * sigma, a, f, ft, h),
                      polynomial_terms(poly.rows, poly.weights))
        BY <1>1, <2>1 DEF evaluate_symmetric
      <3>. QED BY <1>4, <3>1, <3>2
    <2>2. CASE ~Symmetric
      <3>1. trg_mu = Len(given.trg.points) /\ kDim * trg_sigma = kDim * Len(given.trg.grads)
        BY <2>2 DEF BlockInv, GivenInv, Symmetric
      <3>2. y' = Plus(AddBlocks(Zeros(trg_mu + kDim * trg_sigma), trg_mu, kDim * trg_sigma, a, f,
                                ft, h),
                      polynomial_terms(poly.rows, poly.weights))
        BY <1>1, <2>2 DEF evaluate_
      <3>. QED BY <1>4, <3>1, <3>2
    <2>. QED BY <2>1, <2>2
  <1>. QED BY <1>1, <1>5 DEF BlockProductsComplete

\* ... and so does an operator.
LEMMA ApplyComplete ==
  ASSUME BlockInv, WeightsThere, Apply
  PROVE  BlockProductsComplete'
  <1>1. PICK w : /\ kind = "Operator" /\ given' = [given EXCEPT !.w = w] /\ Vector(w, NumWeights)
                 /\ a' = [i \in Rbfs |-> set_weights(a[i], FirstOf(w, mu))]
                 /\ f' = [i \in Rbfs |-> set_weights(f[i], Segment(w, mu, kDim * sigma))]
                 /\ ft' = [i \in Rbfs |-> set_weights(ft[i], FirstOf(w, mu))]
                 /\ h' = [i \in Rbfs |-> set_weights(h[i], Segment(w, mu, kDim * sigma))]
                 /\ y' = apply(w, a', f', ft', h')
                 /\ UNCHANGED <<kind, model, mu, sigma, trg_mu, trg_sigma, poly>>
    BY NamedVector DEF Apply
  <1>2. /\ PlacesInv' /\ given'.w = w /\ given'.src = given.src /\ given'.trg = given.trg
        /\ WeightsIn(model.rbfs, given.src, given.w, mu, kDim * sigma, a, f, ft, h)'
    <2>1. /\ PlacesInv' /\ WeightsIn(model.rbfs, given.src, given.w, mu, kDim * sigma, a, f, ft, h)'
      BY <1>1, WeightsStep
    <2>2. given = [src |-> given.src, trg |-> given.trg, w |-> given.w]
      BY DEF BlockInv, GivenInv
    <2>. QED BY <1>1, <2>1, <2>2
  <1>3. /\ given.trg = given.src /\ mu = Len(given.src.points) /\ sigma = Len(given.src.grads)
        /\ model \in Models /\ given.src.points \in Seq(Nat) /\ given.src.grads \in Seq(Nat)
        /\ poly.rows = Functionals(given.src.points, given.src.grads)
    BY <1>1, ListFacts DEF BlockInv, GivenInv, BlocksLatest
  <1>4. PICK aa, ff, ftt, hh : aa = a' /\ ff = f' /\ ftt = ft' /\ hh = h'
    OBVIOUS
  <1>5. Ready(model, given.src, given.src, w, aa, ff, ftt, hh)
    <2>1. \E va, ga :
            Places(kind # "Evaluator", model.rbfs, given.src, given.src, va, ga, aa, ff, ftt, hh)
      BY <1>1, <1>2, <1>3, <1>4 DEF PlacesInv
    <2>2. WeightsIn(model.rbfs, given.src, w, Len(given.src.points), kDim * Len(given.src.grads),
                    aa, ff, ftt, hh)
      BY <1>1, <1>2, <1>3, <1>4
    <2>3. Vector(w, Len(given.src.points) + (kDim * Len(given.src.grads)) + model.l)
      BY <1>1, <1>3 DEF NumWeights
    <2>. QED BY <1>3, <2>1, <2>2, <2>3 DEF Ready
  <1>6. y' = SquareProduct(model, given.src.points, given.src.grads, w)
    <2>1. y' = apply(w, aa, ff, ftt, hh)
      BY <1>1, <1>4
    <2>2. apply(w, aa, ff, ftt, hh) = SquareProduct(model, given.src.points, given.src.grads, w)
      BY <1>3, <1>5, ApplyRight
    <2>. QED BY <2>1, <2>2
  <1>. QED BY <1>1, <1>2, <1>6 DEF BlockProductsComplete

\* Whatever is set in whatever order, a result of Evaluator, SymmetricEvaluator or Operator has each
\* term of the product with the latest points and weights once, with its sign, and none more.
THEOREM BlocksAlways == BlockSpec => []BlockProductsComplete
  <1>. DEFINE Inv == BlockInv /\ WeightsThere /\ BlockProductsComplete
  <1>1. BlockInit => Inv
    <2>. SUFFICES ASSUME BlockInit PROVE WeightsThere /\ BlockProductsComplete
      BY BlocksInitRight
    <2>1. given.w = Unset /\ y = Unset
      BY DEF BlockInit
    <2>. QED BY <2>1 DEF WeightsThere, BlockProductsComplete
  <1>2. Inv /\ [BlockNext]_blockVars => Inv'
    <2>. SUFFICES ASSUME Inv, [BlockNext]_blockVars PROVE BlockProductsComplete'
      BY BlockInvKept, WeightsThereKept
    <2>1. CASE SetBlockSources \/ SetBlockTargets \/ SetBlockPoints \/ SetBlockWeights
      <3>1. y' = Unset
        BY <2>1 DEF SetBlockSources, SetBlockTargets, SetBlockPoints, SetBlockWeights
      <3>. QED BY <3>1 DEF BlockProductsComplete
    <2>2. CASE UNCHANGED blockVars
      BY <2>2 DEF BlockProductsComplete, blockVars
    <2>. QED BY <2>1, <2>2, EvaluateComplete, ApplyComplete DEF BlockNext
  <1>3. Inv => BlockProductsComplete
    OBVIOUS
  <1>. QED BY <1>1, <1>2, <1>3, PTL DEF BlockSpec

\* The five classes, made of blocks or going through all pairs in threads, agree with the matrix,
\* and so with each other.
THEOREM ProductsAlways == BlockSpec /\ DirectSpec => []ProductsComplete
  <1>1. BlockProductsComplete /\ PairProductsComplete => ProductsComplete
    BY DEF ProductsComplete
  <1>. QED BY <1>1, BlocksAlways, PairsAlways, PTL
=============================================================================
