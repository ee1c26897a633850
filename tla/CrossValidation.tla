---------------------------- MODULE CrossValidation ----------------------------
(***************************************************************************)
(* cross_validate: the points of each set in turn are predicted by an      *)
(* interpolant of its own, fitted to the points of the other sets.         *)
(***************************************************************************)
EXTENDS Description, SequencesExt

CONSTANTS
  SetIds,  \* sequences of ids, one for each point
  L        \* poly_basis_size of the model

ASSUME CrossAssumption ==
  L \in Nat \ {0} /\ NotYet \notin Seq(Nat) /\ \A s \in SetIds : s \in Seq(Int)

VARIABLES
  set_ids, ids, test_set, train_set,
  cvCenters,      \* of the interpolant, once it is fitted
  predictions,  \* for each point, the centers that its prediction was made from
  cvPc
cvVars == <<set_ids, ids, test_set, train_set, cvCenters, predictions, cvPc>>

CrossPoints == DOMAIN set_ids
\* The members of S, from 1 to n.
Ascending(S, n) ==
  LET upto[k \in 0..n] ==
        IF k = 0 THEN <<>> ELSE IF k \in S THEN Append(upto[k - 1], k) ELSE upto[k - 1]
  IN  upto[n]

\* With the universe cut where the result ends.
complementary_indicesShort(indices, n_points) ==
  LET ending == n_points - Len(indices) IN Ascending((1..ending) \ ToSet(indices), ending)
complementary_indices(indices, n_points) ==
  Ascending((1..n_points) \ ToSet(indices), n_points)

CrossInit ==
  /\ set_ids \in SetIds
  /\ ids = ToSet(set_ids)
  /\ test_set = <<>> /\ train_set = <<>> /\ cvCenters = NotYet
  /\ predictions = [i \in CrossPoints |-> NotYet]
  /\ cvPc = "next"

\* The ids are in a hash set, and come in any order.
TakeSet(id) ==
  /\ cvPc = "next" /\ id \in ids
  /\ ids' = ids \ {id}
  /\ test_set' = Ascending({i \in CrossPoints : set_ids[i] = id}, Len(set_ids))
  /\ train_set' = complementary_indices(test_set', Len(set_ids))
  /\ cvCenters' = NotYet
  /\ cvPc' = "fit"
  /\ UNCHANGED <<set_ids, predictions>>

FitSet ==
  /\ cvPc = "fit" /\ Len(train_set) >= L
  /\ cvCenters' = train_set
  /\ cvPc' = "predict"
  /\ UNCHANGED <<set_ids, ids, test_set, train_set, predictions>>

\* Too few points, or the solver throws: no predictions are returned.
FailSet ==
  /\ cvPc = "fit"
  /\ cvPc' = "thrown"
  /\ UNCHANGED <<set_ids, ids, test_set, train_set, cvCenters, predictions>>

Predict ==
  /\ cvPc = "predict"
  /\ predictions' = [i \in CrossPoints |-> IF i \in ToSet(test_set) THEN cvCenters ELSE predictions[i]]
  /\ cvPc' = "next"
  /\ UNCHANGED <<set_ids, ids, test_set, train_set, cvCenters>>

ReturnPredictions ==
  /\ cvPc = "next" /\ ids = {}
  /\ cvPc' = "done"
  /\ UNCHANGED <<set_ids, ids, test_set, train_set, cvCenters, predictions>>

CrossNext == (\E id \in ids : TakeSet(id)) \/ FitSet \/ FailSet \/ Predict \/ ReturnPredictions
CrossSpec == CrossInit /\ [][CrossNext]_cvVars

-----------------------------------------------------------------------------
\* The types of the variables.
CrossTypeOK ==
  /\ cvPc \in {"next", "fit", "predict", "done", "thrown"}
  /\ ids \subseteq ToSet(set_ids)
  /\ cvCenters = NotYet \/ ToSet(cvCenters) \subseteq CrossPoints

\* What is returned for a point was predicted from the points of all other sets, and
\* from none of its own.
HeldOut ==
  cvPc = "done" =>
    \A i \in CrossPoints :
      predictions[i] # NotYet /\ ToSet(predictions[i]) = {j \in CrossPoints : set_ids[j] # set_ids[i]}

\* A model is fitted with the residuals of the points asked for, the fitted one is the
\* one that they were accepted for, and the angles of its description turn the
\* coordinates to the axes of its anisotropy.  In a cross validation of it, the points
\* of a set that is held out are evaluated with an interpolant of the other sets.
FittedModelSame == FitsWhatItEvaluates /\ SameAxes /\ HeldOut

\* cross_validate ends, with predictions or an exception.
CrossTerminates == <>(cvPc \in {"done", "thrown"})
===============================================================================
