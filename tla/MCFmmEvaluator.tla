--------------------------- MODULE MCFmmEvaluator ---------------------------
(***************************************************************************)
(* The two evaluators side by side, and the products by blocks that are    *)
(* made of them beside those by all pairs: part says which one is called,  *)
(* the others stay as they were made.                                      *)
(***************************************************************************)
EXTENDS FmmSymmetricEvaluator, Evaluators, TLC

CONSTANTS empty, medium, other, large, w1, w2, inf, zero, finite

VARIABLE part

\* With Dim = 1 the trees over four points have height 2 and those over eight
\* height 3; only a product with an empty set stays below the threshold of 8.
MCPointSet == {empty, medium, other, large}
MCSize == [p \in MCPointSet |->
             CASE p = empty -> 0 [] p = large -> 8 [] OTHER -> 4]
MCWeights == {w1, w2}
MCSymmetry == Permutations({w1, w2}) \cup Permutations({medium, other})
MCAccuracy == {inf, zero, finite}

\* A pair of parts and a fast rbf; one of bounded support, without gradients of
\* gradients; of three points, the first two are near each other.
MCModels ==
  {[rbfs |-> <<"CovSpheroidal3", "Biharmonic3D">>, l |-> 3], [rbfs |-> <<"CovGaussian">>, l |-> 1],
   [rbfs |-> <<"CovSpherical", "CovCubic">>, l |-> 0]}
MCLists ==
  {[points |-> <<1, 2>>, grads |-> <<>>], [points |-> <<2>>, grads |-> <<3, 1>>],
   [points |-> <<3, 2>>, grads |-> <<2>>], [points |-> <<>>, grads |-> <<1>>]}
MCNear == {{1, 2}}
Least == CHOOSE x \in MCModels : x.l = 1
MCInit ==
  /\ part \in {"general", "symmetric", "blocks", "pairs"}
  /\ Init /\ SymInit /\ BlockInit /\ DirectInit
  /\ symThrows = throws
  /\ part \notin {"general", "symmetric"} => throws = {"search", "configure"}
  /\ part # "blocks" => kind = "Evaluator" /\ model = Least
  /\ part # "pairs" => directKind = "DirectEvaluator" /\ directModel = Least
MCNext ==
  /\ \/ part = "general" /\ Next /\ UNCHANGED <<symVars, blockVars, directVars>>
     \/ part = "symmetric" /\ SymNext /\ UNCHANGED <<vars, blockVars, directVars>>
     \/ part = "blocks" /\ BlockNext /\ UNCHANGED <<vars, symVars, directVars>>
     \/ part = "pairs" /\ DirectNext /\ UNCHANGED <<vars, symVars, blockVars>>
  /\ UNCHANGED part
MCSpec == MCInit /\ [][MCNext]_<<part, vars, symVars, blockVars, directVars>>

\* The types of all variables.
MCTypeOK == TypeOK /\ SymTypeOK /\ BlockTypeOK /\ DirectTypeOK
==============================================================================
