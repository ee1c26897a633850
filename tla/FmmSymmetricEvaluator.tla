------------------------ MODULE FmmSymmetricEvaluator ------------------------
(***************************************************************************)
(* src/fmm/fmm_symmetric_evaluator.hpp: the evaluator of a block on the    *)
(* diagonal, where sources are targets.  There is one tree, which takes    *)
(* the weights and the potentials, and one interpolator that a new one     *)
(* replaces; all passes run in every call, and what a point adds to itself *)
(* is added at the end, from the tree or from the particles.               *)
(*                                                                         *)
(* The two evaluators are given the same points, weights and accuracies,   *)
(* and share no state; the module extends FmmEvaluator to say of both what *)
(* is to hold of both.                                                     *)
(***************************************************************************)
EXTENDS FmmEvaluator

\* tree_, see MakeTree.
SymTreeType == [height : Nat, order : Nat, points : PointSet, depth : Nat,
                weights : Weights \cup {None}, passed : Weights \cup {None}]

CONSTANTS
  PointsThreshold, \* 1024: direct evaluation of fewer points
  Dangling         \* a reference to an object that is gone

ASSUME SymNumbersAssumption == PointsThreshold \in Nat \ {0}
ASSUME DanglingAssumption == Dangling \notin ConfigType \cup {None}
ASSUME SymNoneAssumption == None \notin SymTreeType

VARIABLES
  symThrows,        \* the steps that may throw, the same throughout
  symAccuracy,      \* accuracy_
  points,           \* the positions in particles_
  symWeights,       \* the inputs in particles_
  level,            \* sorted_level_
  symBest,          \* best_config_, each entry with the accuracy and points searched for
  symConfig,        \* config_
  interpolator,     \* interpolator_
  symFar, symOp,    \* far_field_, fmm_operator_: the interpolator they refer to
  tree,             \* tree_: what it was built from
  symPc,            \* the next step of evaluate
  symChosen,        \* the local variable config of prepare
  symAsked,         \* history: the weights of the last set_weights
  depth             \* history: the depth to which the particles are in order

symVars == <<symThrows, symAccuracy, points, symWeights, level, symBest, symConfig,
             interpolator, symFar, symOp, tree, symPc, symChosen, symAsked, depth>>
symUserVars == <<symAccuracy, points, symWeights, symAsked>>
symOrder == <<level, depth>>
symFmmVars == <<symConfig, interpolator, symFar, symOp>>

SymHeight == TreeHeight(Size[points])

SymInit ==
  /\ symThrows \in MayThrow
  /\ symAccuracy = Infinity
  /\ points \in {p \in PointSet : Size[p] = 0}
  /\ symWeights = None /\ symAsked = None
  /\ level = 0 /\ depth = 0
  /\ symBest = <<>>
  /\ symConfig = Default /\ interpolator = None /\ symFar = None /\ symOp = None
  /\ tree = None
  /\ symPc = "idle" /\ symChosen = Default

-----------------------------------------------------------------------------
SymSetAccuracy(a) ==
  /\ symPc = "idle"
  /\ symAccuracy' = a
  /\ symBest' = <<>>
  /\ UNCHANGED <<points, symWeights, symAsked, symOrder, tree, symPc, symChosen, symFmmVars>>

\* The particles are overwritten in their original order; their inputs are not.
SetPoints(p) ==
  /\ symPc = "idle"
  /\ points' = p
  /\ symWeights' = None /\ symAsked' = None
  /\ level' = 0 /\ depth' = 0
  /\ tree' = None
  /\ symBest' = <<>>
  /\ UNCHANGED <<symAccuracy, symPc, symChosen, symFmmVars>>

\* Only a call of evaluate that threw leaves a tree behind; then the weights
\* go to the tree and not to the particles.
SymSetWeights(w) ==
  /\ symPc = "idle"
  /\ symAsked' = w
  /\ IF tree = None
       THEN symWeights' = w /\ UNCHANGED tree
       ELSE tree' = [tree EXCEPT !.weights = w] /\ UNCHANGED symWeights
  /\ UNCHANGED <<symAccuracy, points, symOrder, symBest, symPc, symChosen, symFmmVars>>

\* evaluate may only be called with weights for the present points.
SymEvaluate ==
  /\ symPc = "idle"
  /\ symAsked # None
  /\ symPc' = "prepare"
  /\ UNCHANGED <<symUserVars, symOrder, symBest, tree, symChosen, symFmmVars>>

-----------------------------------------------------------------------------
(* The steps of evaluate.                                                  *)

SymPrepareDirect ==
  /\ symPc = "prepare"
  /\ Size[points] < PointsThreshold
  /\ interpolator' = None /\ symFar' = None /\ symOp' = None /\ tree' = None
  /\ symConfig' = Default
  /\ symPc' = "passes"
  /\ UNCHANGED <<symUserVars, symOrder, symBest, symChosen>>

\* sort_container runs only if the level says that it has to.
SymSort ==
  /\ symPc = "prepare"
  /\ Size[points] >= PointsThreshold
  /\ IF level < SymHeight - 1
       THEN level' = SymHeight - 1 /\ depth' = SymHeight - 1
       ELSE UNCHANGED symOrder
  /\ symPc' = "search"
  /\ UNCHANGED <<symUserVars, symBest, tree, symChosen, symFmmVars>>

\* An entry of best_config_, with what it was searched for.
SymEntry(c) == [config |-> c, accuracy |-> symAccuracy, points |-> points]
SymWithEntry(c) ==
  [h \in DOMAIN symBest \cup {SymHeight} |-> IF h = SymHeight THEN SymEntry(c) ELSE symBest[h]]

\* find_best_configuration: the entry is there, or it is searched for.
SymLookUp ==
  /\ symPc = "search"
  /\ SymHeight \in DOMAIN symBest
  /\ symChosen' = symBest[SymHeight].config
  /\ symPc' = "configure"
  /\ UNCHANGED <<symUserVars, symOrder, symBest, tree, symFmmVars>>

SymSearch ==
  /\ symPc = "search"
  /\ SymHeight \notin DOMAIN symBest
  /\ \E c \in Found(SymHeight, symAccuracy) : symBest' = SymWithEntry(c) /\ symChosen' = c
  /\ symPc' = "configure"
  /\ UNCHANGED <<symUserVars, symOrder, tree, symFmmVars>>

\* The search throws if no configuration meets the accuracy, and leaves behind
\* the default configuration that try_emplace inserted before it.
SymSearchFails ==
  /\ symPc = "search" /\ "search" \in symThrows
  /\ SymHeight \notin DOMAIN symBest
  /\ symAccuracy \notin {Infinity, Exact}
  /\ symBest' = SymWithEntry(Default)
  /\ symPc' = "idle"
  /\ UNCHANGED <<symUserVars, symOrder, tree, symChosen, symFmmVars>>

SymKeepInterpolator ==
  /\ symPc = "configure"
  /\ symChosen = symConfig
  /\ symPc' = "tree"
  /\ UNCHANGED <<symUserVars, symOrder, symBest, tree, symChosen, symFmmVars>>

\* The old interpolator goes as soon as there is a new one, and with it what the
\* far field and the operator refer to.
SymChangeInterpolator ==
  /\ symPc = "configure"
  /\ symChosen # symConfig
  /\ interpolator' = symChosen
  /\ symFar' = (IF symFar = None THEN None ELSE Dangling)
  /\ symOp' = (IF symOp = None THEN None ELSE Dangling)
  /\ symPc' = "farField"
  /\ UNCHANGED <<symUserVars, symOrder, symBest, symConfig, tree, symChosen>>

SymMakeFarField ==
  /\ symPc = "farField"
  /\ symFar' = interpolator
  /\ symPc' = "operator"
  /\ UNCHANGED <<symUserVars, symOrder, symBest, symConfig, interpolator, symOp, tree, symChosen>>

SymMakeOperator ==
  /\ symPc = "operator"
  /\ symOp' = symFar
  /\ tree' = None
  /\ symConfig' = symChosen
  /\ symPc' = "tree"
  /\ UNCHANGED <<symUserVars, symOrder, symBest, interpolator, symFar, symChosen>>

\* A tree remembers the height and order it was built for, the points, the
\* depth to which they were sorted, the weights, and those of the last passes.
MakeTree ==
  /\ symPc = "tree"
  /\ tree' = IF tree # None THEN tree
             ELSE [height |-> SymHeight, order |-> symChosen.order, points |-> points,
                   depth |-> depth, weights |-> symWeights, passed |-> None]
  /\ symPc' = "passes"
  /\ UNCHANGED <<symUserVars, symOrder, symBest, symChosen, symFmmVars>>

\* p2m ... p2p, or full_direct on the particles themselves
Passes ==
  /\ symPc = "passes"
  /\ tree' = IF symConfig.tree_height > 0 THEN [tree EXCEPT !.passed = tree.weights] ELSE tree
  /\ symPc' = "potentials"
  /\ UNCHANGED <<symUserVars, symOrder, symBest, symChosen, symFmmVars>>

\* evaluate without the release of the tree.
FinishKeepsTree ==
  /\ symPc = "potentials"
  /\ UNCHANGED tree
  /\ symPc' = "idle" /\ symChosen' = Default
  /\ UNCHANGED <<symUserVars, symOrder, symBest, symFmmVars>>

\* handle_self_interaction and potentials; the tree goes.
Finish ==
  /\ symPc = "potentials"
  /\ tree' = None
  /\ symPc' = "idle" /\ symChosen' = Default
  /\ UNCHANGED <<symUserVars, symOrder, symBest, symFmmVars>>

\* A step that allocates may throw std::bad_alloc before it changes anything.
SymThrow ==
  /\ symPc \in symThrows \ {"idle", "search"}
  /\ symPc' = "idle" /\ symChosen' = Default
  /\ UNCHANGED <<symUserVars, symOrder, symBest, tree, symFmmVars>>

SymSetters ==
  \/ \E a \in Accuracy : SymSetAccuracy(a)
  \/ \E p \in PointSet : SetPoints(p)
  \/ \E w \in Weights : SymSetWeights(w)

SymNext ==
  /\ \/ SymSetters
     \/ SymEvaluate
     \/ SymPrepareDirect \/ SymSort
     \/ SymLookUp \/ SymSearch \/ SymSearchFails
     \/ SymKeepInterpolator \/ SymChangeInterpolator \/ SymMakeFarField \/ SymMakeOperator
     \/ MakeTree \/ Passes \/ Finish
     \/ SymThrow
  /\ UNCHANGED symThrows

SymSpec == SymInit /\ [][SymNext]_symVars

-----------------------------------------------------------------------------
\* The type of every variable.
SymTypeOK ==
  /\ symThrows \in MayThrow /\ symAccuracy \in Accuracy /\ points \in PointSet
  /\ symWeights \in Weights \cup {None} /\ symAsked \in Weights \cup {None}
  /\ level \in Nat /\ depth \in Nat
  /\ \A h \in DOMAIN symBest : symBest[h].config \in ConfigType
  /\ symConfig \in ConfigType /\ symChosen \in ConfigType
  /\ interpolator \in ConfigType \cup {None}
  /\ {symFar, symOp} \subseteq ConfigType \cup {None, Dangling}
  /\ tree \in SymTreeType \cup {None}
  /\ symPc \in {"idle", "prepare", "search", "configure", "farField", "operator", "tree",
                "passes", "potentials"}

\* When the passes run, operator, tree and configuration are of one interpolator
\* that is still there, searched for the present points and accuracy; the tree
\* was built over particles sorted deep enough, though a call that threw may
\* have left any of them behind.
SymPassesCoherent ==
  symPc = "passes" /\ symConfig.tree_height > 0 =>
    /\ interpolator = symConfig /\ symFar = symConfig /\ symOp = symConfig
    /\ symBest[SymHeight] = SymEntry(symConfig)
    /\ tree.height = SymHeight /\ tree.order = symConfig.order
    /\ tree.points = points /\ tree.depth >= tree.height - 1

\* The result, and what is added to it for the diagonal, are of the latest
\* weights, unless a call threw while there was a tree.
SymWeightsFresh ==
  symThrows \cap {"passes", "potentials"} = {} /\ symPc = "potentials" =>
    IF symConfig.tree_height > 0 THEN tree.weights = symAsked /\ tree.passed = symAsked
                                 ELSE symWeights = symAsked

\* The passes of either evaluator find caches that fit each other.
PassesOfBothCoherent == PassesCoherent /\ SymPassesCoherent

\* The result of either evaluator is of the latest weights.
WeightsOfBothFresh == WeightsFresh /\ SymWeightsFresh
=============================================================================
