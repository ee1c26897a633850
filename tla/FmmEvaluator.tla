---------------------------- MODULE FmmEvaluator ----------------------------
(***************************************************************************)
(* src/fmm/fmm_evaluator.hpp and lru_cache.hpp: the evaluator of one block *)
(* of the interpolation matrix.  It is a chain of lazily rebuilt caches:   *)
(* particles -> order of the particles -> trees, accuracy -> best          *)
(* configuration -> interpolator -> far field -> operator.  Every setter   *)
(* drops some of them and evaluate rebuilds what is missing.  An exception *)
(* may leave evaluate after any of its steps and the object is used again, *)
(* so each step of evaluate is an action of its own.                       *)
(*                                                                         *)
(* Points and weights are opaque; what is followed is which of them each   *)
(* cache was made from.  Configurations, their search and the heights of   *)
(* trees are those of the symmetric evaluator too.                         *)
(***************************************************************************)
EXTENDS Integers, Sequences, SequencesExt

CONSTANTS
  Dim,        \* kDim
  Accuracy,   \* the accuracies that are asked for, two of them special:
  Infinity,   \*   std::numeric_limits<double>::infinity()
  Exact,      \*   0.0
  LastOrder,  \* 20: the last order the accuracy search tries
  PointSet,   \* the sets of points that are passed in
  Size,       \* their sizes
  Weights,    \* the weight vectors that are passed in
  Threshold,  \* 1024 * 1024: direct evaluation below so many interactions
  Capacity,   \* the capacity of interpolator_cache_
  MayThrow,   \* the sets of steps of evaluate that may throw
  None        \* an empty unique_ptr, an unset value

\* InterpolatorConfiguration
kClassic == -1
Config(h, o, d) == [tree_height |-> h, order |-> o, d |-> d]
Default == Config(0, 0, 0)
ConfigType == [tree_height : Nat, order : Nat, d : Int]

\* fmm_tree_height: max(2, round(log2(n) / Dim)), on integers.
TreeHeight(n) ==
  LET h == CHOOSE k \in 0..n : /\ 2^(2 * Dim * k) <= n * n * 2^Dim
                               /\ n * n < 2^(Dim * (2 * k + 1))
  IN  IF h < 2 THEN 2 ELSE h

\* FmmAccuracyEstimator::find_best_configuration: the configurations it may
\* return.  Which one meets a finite accuracy depends on the points and weights.
Searched == {8 + 2 * i : i \in 0..((LastOrder - 8) \div 2)}
Found(h, a) ==
  IF a = Infinity THEN {Config(h, 6, kClassic)}
  ELSE IF a = Exact THEN {Config(h, 12, 8)}
  ELSE {Config(h, o, kClassic) : o \in {o \in Searched : o < 12}}
         \cup {Config(h, o, d) : o \in {o \in Searched : o >= 12}, d \in 7..9}

\* src_tree_ and trg_tree_, see Tree.
TreeType == [height : Nat, order : Nat, points : PointSet, depth : Nat,
             weights : Weights \cup {None}, multipoles : Weights \cup {None}]

ASSUME AccuracyAssumption == {Infinity, Exact} \subseteq Accuracy /\ Infinity # Exact
ASSUME OrderAssumption == Dim \in 1..3 /\ LastOrder \in Nat
ASSUME SizeAssumption == Size \in [PointSet -> Nat]
ASSUME NumbersAssumption == Threshold \in Nat \ {0} /\ Capacity \in Nat \ {0}
ASSUME NoneAssumption == None \notin PointSet \cup Weights \cup ConfigType \cup TreeType
\* log2 of the size of a set of points rounds to a whole number.
ASSUME HeightAssumption == \A p \in PointSet : Size[p] > 0 => TreeHeight(Size[p]) \in Nat

VARIABLES
  throws,              \* the steps that may throw, the same throughout
  accuracy,            \* accuracy_
  src, trg,            \* the positions in src_particles_ and trg_particles_
  weights,             \* the inputs in src_particles_
  srcLevel, trgLevel,  \* src_sorted_level_, trg_sorted_level_
  best,                \* best_config_, each entry with the accuracy and points searched for
  config,              \* config_
  cache,               \* interpolator_cache_: the configurations, most recent first
  far, op,             \* far_field_, fmm_operator_: the interpolator they refer to
  srcTree, trgTree,    \* src_tree_, trg_tree_: what they were built from
  dirty,               \* multipole_dirty_
  m2lLists, p2pLists,  \* the lists in trg_tree_, which refer into a source tree: "none",
                       \* of the "present" one, or of one that is "gone"
  pc,                  \* the next step of evaluate
  chosen,              \* the local variable config of prepare
  asked,               \* history: the weights of the last set_weights
  srcDepth, trgDepth   \* history: the depth to which the particles are in order

vars == <<throws, accuracy, src, trg, weights, srcLevel, trgLevel, best, config, cache,
          far, op, srcTree, trgTree, dirty, m2lLists, p2pLists, pc, chosen, asked,
          srcDepth, trgDepth>>
userVars == <<accuracy, src, trg, weights, asked>>
srcOrder == <<srcLevel, srcDepth>>
trgOrder == <<trgLevel, trgDepth>>
orders == <<srcOrder, trgOrder>>
fmmVars == <<config, cache, far, op>>
lists == <<m2lLists, p2pLists>>
treeVars == <<srcTree, trgTree, dirty, lists>>

Height == TreeHeight(IF Size[src] > Size[trg] THEN Size[src] ELSE Size[trg])

\* LruCache::try_emplace pushes a new key to the front and drops the last one
\* when the cache is over its capacity; a key that is found stays in its place.
Emplaced(list, key) ==
  IF Contains(list, key) THEN list
  ELSE SubSeq(<<key>> \o list, 1,
              IF Len(list) + 1 > Capacity THEN Capacity ELSE Len(list) + 1)
\* LruCache::touch splices the element at position i to the front.
Touched(list, i) == <<list[i]>> \o RemoveAt(list, i)

\* Init with -1 for "not sorted".
InitUnsortedMinusOne ==
  /\ throws \in MayThrow
  /\ accuracy = Infinity
  /\ src \in {p \in PointSet : Size[p] = 0} /\ trg = src
  /\ weights = None /\ asked = None
  /\ srcLevel = -1 /\ trgLevel = -1 /\ srcDepth = 0 /\ trgDepth = 0
  /\ best = <<>>
  /\ config = Default
  /\ cache = <<>> /\ far = None /\ op = None
  /\ srcTree = None /\ trgTree = None /\ dirty = FALSE
  /\ m2lLists = "none" /\ p2pLists = "none"
  /\ pc = "idle" /\ chosen = Default

Init ==
  /\ throws \in MayThrow
  /\ accuracy = Infinity
  /\ src \in {p \in PointSet : Size[p] = 0} /\ trg = src
  /\ weights = None /\ asked = None
  /\ srcLevel = 0 /\ trgLevel = 0 /\ srcDepth = 0 /\ trgDepth = 0
  /\ best = <<>>
  /\ config = Default
  /\ cache = <<>> /\ far = None /\ op = None
  /\ srcTree = None /\ trgTree = None /\ dirty = FALSE
  /\ m2lLists = "none" /\ p2pLists = "none"
  /\ pc = "idle" /\ chosen = Default

-----------------------------------------------------------------------------
\* set_accuracy without best_config_.clear().
SetAccuracyOnly(a) ==
  /\ pc = "idle"
  /\ accuracy' = a
  /\ UNCHANGED <<src, trg, weights, best, orders, asked, pc, chosen, fmmVars, treeVars>>

SetAccuracy(a) ==
  /\ pc = "idle"
  /\ accuracy' = a
  /\ best' = <<>>
  /\ UNCHANGED <<src, trg, weights, orders, asked, pc, chosen, fmmVars, treeVars>>

\* The lists go with the target tree that holds them, and outlive the source tree
\* if that goes alone.
NoLists == m2lLists' = "none" /\ p2pLists' = "none"
Outlived(list) == IF list = "present" THEN "gone" ELSE list
ListsOutlive == m2lLists' = Outlived(m2lLists) /\ p2pLists' = Outlived(p2pLists)

\* set_source_points without src_sorted_level_ = 0.
SetSourcePointsStillSorted(p) ==
  /\ pc = "idle"
  /\ src' = p
  /\ weights' = None /\ asked' = None
  /\ srcLevel' = srcLevel /\ srcDepth' = 0
  /\ srcTree' = None /\ ListsOutlive
  /\ best' = <<>>
  /\ UNCHANGED <<accuracy, trg, trgOrder, trgTree, dirty, pc, chosen, fmmVars>>

\* The particles are overwritten in their original order; their inputs are not.
SetSourcePoints(p) ==
  /\ pc = "idle"
  /\ src' = p
  /\ weights' = None /\ asked' = None
  /\ srcLevel' = 0 /\ srcDepth' = 0
  /\ srcTree' = None /\ ListsOutlive
  /\ best' = <<>>
  /\ UNCHANGED <<accuracy, trg, trgOrder, trgTree, dirty, pc, chosen, fmmVars>>

SetTargetPoints(p) ==
  /\ pc = "idle"
  /\ trg' = p
  /\ trgLevel' = 0 /\ trgDepth' = 0
  /\ trgTree' = None /\ NoLists
  /\ UNCHANGED <<accuracy, src, weights, asked, srcOrder, srcTree, dirty, best, pc, chosen, fmmVars>>

\* Only a call of evaluate that threw leaves a tree behind; then the weights
\* go to the tree and not to the particles.
SetWeights(w) ==
  /\ pc = "idle"
  /\ asked' = w
  /\ IF srcTree = None
       THEN weights' = w /\ UNCHANGED <<srcTree, dirty>>
       ELSE srcTree' = [srcTree EXCEPT !.weights = w] /\ dirty' = TRUE /\ UNCHANGED weights
  /\ UNCHANGED <<accuracy, src, trg, orders, trgTree, lists, best, pc, chosen, fmmVars>>

\* evaluate may only be called with weights for the present source points.
Evaluate ==
  /\ pc = "idle"
  /\ asked # None
  /\ pc' = "prepare"
  /\ UNCHANGED <<userVars, orders, best, chosen, fmmVars, treeVars>>

-----------------------------------------------------------------------------
(* The steps of evaluate.                                                  *)

PrepareDirect ==
  /\ pc = "prepare"
  /\ Size[src] * Size[trg] < Threshold
  /\ far' = None /\ op' = None
  /\ srcTree' = None /\ trgTree' = None /\ NoLists
  /\ config' = Default
  /\ pc' = "compute"
  /\ UNCHANGED <<userVars, orders, best, cache, dirty, chosen>>

Deeper(level) == IF level < Height - 1 THEN Height - 1 ELSE level
\* sort_container runs only if the level says that it has to.
Sorted(level, depth) == IF level < Height - 1 THEN Height - 1 ELSE depth

Sort ==
  /\ pc = "prepare"
  /\ Size[src] * Size[trg] >= Threshold
  /\ srcLevel' = Deeper(srcLevel) /\ srcDepth' = Sorted(srcLevel, srcDepth)
  /\ trgLevel' = Deeper(trgLevel) /\ trgDepth' = Sorted(trgLevel, trgDepth)
  /\ pc' = "search"
  /\ UNCHANGED <<userVars, best, chosen, fmmVars, treeVars>>

\* An entry of best_config_, with what it was searched for.
Entry(c) == [config |-> c, accuracy |-> accuracy, src |-> src]
WithEntry(c) ==
  [h \in DOMAIN best \cup {Height} |-> IF h = Height THEN Entry(c) ELSE best[h]]

\* find_best_configuration: the entry is there, or it is searched for.
LookUp ==
  /\ pc = "search"
  /\ Height \in DOMAIN best
  /\ chosen' = best[Height].config
  /\ pc' = "configure"
  /\ UNCHANGED <<userVars, orders, best, fmmVars, treeVars>>

Search ==
  /\ pc = "search"
  /\ Height \notin DOMAIN best
  /\ \E c \in Found(Height, accuracy) : best' = WithEntry(c) /\ chosen' = c
  /\ pc' = "configure"
  /\ UNCHANGED <<userVars, orders, fmmVars, treeVars>>

\* The search throws if no configuration meets the accuracy, and leaves behind
\* the default configuration that try_emplace inserted before it.
SearchFails ==
  /\ pc = "search" /\ "search" \in throws
  /\ Height \notin DOMAIN best
  /\ accuracy \notin {Infinity, Exact}
  /\ best' = WithEntry(Default)
  /\ pc' = "idle"
  /\ UNCHANGED <<userVars, orders, chosen, fmmVars, treeVars>>

KeepInterpolator ==
  /\ pc = "configure"
  /\ chosen = config
  /\ pc' = "sourceTree"
  /\ UNCHANGED <<userVars, orders, best, chosen, fmmVars, treeVars>>

\* prepare without interpolator_cache_.touch.
ChangeInterpolatorUntouched ==
  /\ pc = "configure"
  /\ chosen # config
  /\ cache' = Emplaced(cache, chosen)
  /\ pc' = "farField"
  /\ UNCHANGED <<userVars, orders, best, config, far, op, chosen, treeVars>>

ChangeInterpolator ==
  /\ pc = "configure"
  /\ chosen # config
  /\ LET list == Emplaced(cache, chosen)
     IN  cache' = Touched(list, CHOOSE i \in DOMAIN list : list[i] = chosen)
  /\ pc' = "farField"
  /\ UNCHANGED <<userVars, orders, best, config, far, op, chosen, treeVars>>

MakeFarField ==
  /\ pc = "farField"
  /\ far' = chosen
  /\ pc' = "operator"
  /\ UNCHANGED <<userVars, orders, best, config, cache, op, chosen, treeVars>>

\* prepare without the resets of the trees for a new configuration.
MakeOperatorOldTrees ==
  /\ pc = "operator"
  /\ op' = far
  /\ UNCHANGED <<srcTree, trgTree, lists>>
  /\ config' = chosen
  /\ pc' = "sourceTree"
  /\ UNCHANGED <<userVars, orders, best, cache, far, dirty, chosen>>

MakeOperator ==
  /\ pc = "operator"
  /\ op' = far
  /\ srcTree' = None /\ trgTree' = None /\ NoLists
  /\ config' = chosen
  /\ pc' = "sourceTree"
  /\ UNCHANGED <<userVars, orders, best, cache, far, dirty, chosen>>

\* A tree remembers what it was built from: the height and order it was built
\* for, the points, the depth to which they were sorted, and the weights.
Tree(points, depth, w) ==
  [height |-> Height, order |-> chosen.order, points |-> points, depth |-> depth,
   weights |-> w, multipoles |-> None]

MakeSourceTree ==
  /\ pc = "sourceTree"
  /\ IF srcTree = None
       THEN srcTree' = Tree(src, srcDepth, weights) /\ dirty' = TRUE
       ELSE UNCHANGED <<srcTree, dirty>>
  /\ pc' = "targetTree"
  /\ UNCHANGED <<userVars, orders, best, trgTree, lists, chosen, fmmVars>>

MakeTargetTree ==
  /\ pc = "targetTree"
  /\ trgTree' = IF trgTree = None THEN Tree(trg, trgDepth, None) ELSE trgTree
  /\ pc' = "compute"
  /\ UNCHANGED <<userVars, orders, best, srcTree, dirty, lists, chosen, fmmVars>>

\* p2m and m2m, if the multipoles are out of date
Upward ==
  /\ pc = "compute"
  /\ config.tree_height > 0
  /\ srcTree' = IF dirty THEN [srcTree EXCEPT !.multipoles = srcTree.weights] ELSE srcTree
  /\ dirty' = FALSE
  /\ pc' = "m2l"
  /\ UNCHANGED <<userVars, orders, best, trgTree, lists, chosen, fmmVars>>

\* build_m2l_interaction_list and build_p2p_interaction_list into the source tree,
\* unless the flags of the target tree say that it has its lists.
Built(list) == IF list = "none" THEN "present" ELSE list
BuildM2LLists ==
  /\ pc = "m2l"
  /\ m2lLists' = Built(m2lLists)
  /\ pc' = "p2p"
  /\ UNCHANGED <<userVars, orders, best, srcTree, trgTree, dirty, p2pLists, chosen, fmmVars>>

BuildP2PLists ==
  /\ pc = "p2p"
  /\ p2pLists' = Built(p2pLists)
  /\ pc' = "downward"
  /\ UNCHANGED <<userVars, orders, best, srcTree, trgTree, dirty, m2lLists, chosen, fmmVars>>

\* m2l ... p2p along the lists; the outputs were reset before.
Downward ==
  /\ pc = "downward"
  /\ pc' = "potentials"
  /\ UNCHANGED <<userVars, orders, best, chosen, fmmVars, treeVars>>

\* full_direct on the particles themselves
Direct ==
  /\ pc = "compute"
  /\ config.tree_height = 0
  /\ pc' = "potentials"
  /\ UNCHANGED <<userVars, orders, best, chosen, fmmVars, treeVars>>

\* evaluate without the release of the target tree.
ReleaseSourceTree ==
  /\ pc = "potentials"
  /\ srcTree' = None /\ ListsOutlive
  /\ pc' = "idle" /\ chosen' = Default
  /\ UNCHANGED <<userVars, orders, best, trgTree, dirty, fmmVars>>

\* The potentials are read off the target tree or the particles, and the trees go.
Release ==
  /\ pc = "potentials"
  /\ srcTree' = None /\ trgTree' = None /\ NoLists
  /\ pc' = "idle" /\ chosen' = Default
  /\ UNCHANGED <<userVars, orders, best, dirty, fmmVars>>

\* A step that allocates may throw std::bad_alloc before it changes anything.
Throw ==
  /\ pc \in throws \ {"idle", "search"}
  /\ pc' = "idle" /\ chosen' = Default
  /\ UNCHANGED <<userVars, orders, best, fmmVars, treeVars>>

Setters ==
  \/ \E a \in Accuracy : SetAccuracy(a)
  \/ \E p \in PointSet : SetSourcePoints(p) \/ SetTargetPoints(p)
  \/ \E w \in Weights : SetWeights(w)

Next ==
  /\ \/ Setters
     \/ Evaluate
     \/ PrepareDirect \/ Sort
     \/ LookUp \/ Search \/ SearchFails
     \/ KeepInterpolator \/ ChangeInterpolator \/ MakeFarField \/ MakeOperator
     \/ MakeSourceTree \/ MakeTargetTree
     \/ Upward \/ BuildM2LLists \/ BuildP2PLists \/ Downward \/ Direct \/ Release
     \/ Throw
  /\ UNCHANGED throws

Spec == Init /\ [][Next]_vars

-----------------------------------------------------------------------------
Steps == {"idle", "prepare", "search", "configure", "farField", "operator",
          "sourceTree", "targetTree", "compute", "m2l", "p2p", "downward", "potentials"}
\* An exception before one of these leaves a source tree; before one of the latter,
\* lists into it.
WithSourceTree == {"targetTree", "compute", "m2l", "p2p", "downward", "potentials"}
WithLists == {"p2p", "downward", "potentials"}

\* The type of every variable.
TypeOK ==
  /\ throws \in MayThrow /\ accuracy \in Accuracy
  /\ src \in PointSet /\ trg \in PointSet
  /\ weights \in Weights \cup {None} /\ asked \in Weights \cup {None}
  /\ {srcLevel, trgLevel, srcDepth, trgDepth} \subseteq Nat
  /\ \A h \in DOMAIN best : best[h].config \in ConfigType
  /\ config \in ConfigType /\ chosen \in ConfigType
  /\ cache \in Seq(ConfigType)
  /\ far \in ConfigType \cup {None} /\ op \in ConfigType \cup {None}
  /\ srcTree \in TreeType \cup {None} /\ trgTree \in TreeType \cup {None}
  /\ dirty \in BOOLEAN
  /\ {m2lLists, p2pLists} \subseteq {"none", "present", "gone"}
  /\ pc \in Steps

\* The far field, and the operator through it, hold references into
\* interpolator_cache_: no eviction may take an interpolator they refer to,
\* not even between two steps of evaluate or after one that threw.
NoDanglingInterpolator ==
  \A c \in {far, op} \ {None} : Contains(cache, c)

\* When the passes run, operator, trees and configuration fit together: one
\* configuration, trees of its height and order over the present points, and
\* multipoles of the weights in the tree, though a call that threw may have left
\* any of them behind.  The lists that the target tree keeps are into the present
\* source tree, unless a call threw between building them and releasing the trees.
PassesCoherent ==
  pc = "downward" =>
    /\ far = config /\ op = config /\ config.tree_height = Height
    /\ \A t \in {srcTree, trgTree} : t.height = Height /\ t.order = config.order
    /\ srcTree.points = src /\ trgTree.points = trg
    /\ srcTree.multipoles = srcTree.weights
    /\ throws \cap WithLists = {} => m2lLists = "present" /\ p2pLists = "present"

\* group_tree_view is told that the particles are sorted: they are, down to
\* the leaf level of the tree at least.
TreesFromSortedParticles ==
  \A t \in {srcTree, trgTree} \ {None} : t.depth >= t.height - 1

\* A result is that of the latest weights, far field and near field alike,
\* whichever of particles and tree they are taken from, unless a call threw
\* between building the source tree and taking it down.
WeightsFresh ==
  throws \cap WithSourceTree = {} =>
    /\ pc = "downward" => srcTree.weights = asked /\ srcTree.multipoles = asked
    /\ pc = "compute" /\ config.tree_height = 0 => weights = asked

\* The passes run with a configuration that was searched for the accuracy now
\* asked for and the present source points.
AccuracyMet ==
  pc = "downward" => best[Height] = Entry(config)

\* interpolator_configuration.hpp:16: d is kClassic or less than the order.
ValidInterpolators ==
  \A i \in 1..Len(cache) : cache[i].d = kClassic \/ cache[i].d \in 0..(cache[i].order - 1)
==============================================================================
