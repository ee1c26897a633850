------------------------------- MODULE Solver -------------------------------
(***************************************************************************)
(* interpolation/solver.hpp, residual_evaluator.hpp and krylov: one solver *)
(* object, set to points and asked to solve again and again, as the        *)
(* fitters do.  A solution is tested on a part of the rows with the direct *)
(* evaluator first, and then on all rows with the fast one.                *)
(*                                                                         *)
(* A vector of weights is what tells it apart: zero, a number, or NaN, and *)
(* the rows whose exact residual exceeds the tolerance.  What the fast     *)
(* evaluator makes of weights that are not zero is arbitrary.              *)
(***************************************************************************)
EXTENDS Integers, FiniteSets, FiniteSetsExt

CONSTANTS
  RowKinds,    \* the rows of values and of gradients
  SystemSizes, \* the numbers of rows of each kind that points may be set to
  TargetSize,  \* kDirectEvaluatorTargetSize
  MaxIter,     \* max_iter
  NoRows       \* direct_indices_ before the first set_values

ASSUME SystemSizesAssumption == SystemSizes \subseteq [RowKinds -> Nat]
ASSUME IterationsAssumption == TargetSize \in Nat \ {0} /\ MaxIter \in Nat

VARIABLES
  size,     \* mu_, sigma_
  value,    \* the right hand side: zero, within the tolerance, or large
  x,        \* what solution_vector returns
  missed,   \* the rows it misses
  iter,     \* iter_
  vs, zs,   \* the number of vectors in vs_, zs_
  broken,   \* the last of vs_ was divided by its norm of zero
  direct,   \* direct_indices_, direct_grad_indices_
  solverPc

solverVars == <<size, value, x, missed, iter, vs, zs, broken, direct, solverPc>>
krylov == <<iter, vs, zs, broken>>

AllRows == {<<p, i>> : p \in RowKinds, i \in 0..(Max({s[p] : s \in SystemSizes, p \in RowKinds}) - 1)}
Rows == {r \in AllRows : r[2] < size[r[1]]}
RowValues == {"zero", "small", "large"}

SolverInit ==
  /\ size \in SystemSizes
  /\ value = <<>> /\ x = "zero" /\ missed = {}
  /\ iter = 0 /\ vs = 0 /\ zs = 0 /\ broken = FALSE
  /\ direct = NoRows
  /\ solverPc = "idle"

SetPoints ==
  /\ solverPc = "idle"
  /\ size' \in SystemSizes
  /\ UNCHANGED <<value, x, missed, krylov, direct, solverPc>>

\* The initial weights are zero, or those given.
Start ==
  /\ solverPc = "idle"
  /\ value' \in [Rows -> RowValues]
  /\ x' \in {"zero", "number"}
  /\ IF x' = "zero" THEN missed' = {r \in Rows : value'[r] = "large"} ELSE missed' \in SUBSET Rows
  /\ iter' = 0 /\ vs' = 1 /\ zs' = 0 /\ broken' = FALSE
  /\ solverPc' = "setup"
  /\ UNCHANGED <<size, direct>>

\* The initial weights may solve the equations exactly.  When they and the values
\* are all zero, the relative residual is not a number, and not 0.
ExactAlready ==
  /\ solverPc = "setup" /\ missed = {} /\ \E r \in Rows : value[r] # "zero"
  /\ x = "number"
  /\ solverPc' = "returned"
  /\ UNCHANGED <<size, value, x, missed, krylov, direct>>

Few(p) == IF size[p] < TargetSize THEN size[p] ELSE TargetSize
Part(S, p) == {r \in S : r[1] = p}
Nontrivial(p) == {r \in Part(Rows, p) : value[r] # "zero"}

\* The rows of the direct evaluator, chosen once.
SetValuesOnce ==
  /\ solverPc = "setup"
  /\ IF direct = NoRows
       THEN direct' \in {D \in SUBSET Rows : \A p \in RowKinds :
                           /\ Cardinality(Part(D, p)) = Few(p)
                           /\ \/ Part(D, p) \subseteq Nontrivial(p)
                              \/ Nontrivial(p) \subseteq D}
       ELSE UNCHANGED direct
  /\ solverPc' = "direct"
  /\ UNCHANGED <<size, value, x, missed, krylov>>

\* ResidualEvaluator::set_values: some rows of each part, by a shuffle that puts
\* those with a value other than zero first.
SetValues ==
  /\ solverPc = "setup"
  /\ direct' \in {D \in SUBSET Rows : \A p \in RowKinds :
                    /\ Cardinality(Part(D, p)) = Few(p)
                    /\ \/ Part(D, p) \subseteq Nontrivial(p)
                       \/ Nontrivial(p) \subseteq D}
  /\ solverPc' = "direct"
  /\ UNCHANGED <<size, value, x, missed, krylov>>

\* A residual that is not a number exceeds no tolerance.
Exceeding(S) == IF x = "nan" THEN {} ELSE S

\* converged() that trusts the direct evaluator for all rows.
ConvergedPartly ==
  /\ solverPc = "direct"
  /\ solverPc' = IF Exceeding(missed \cap direct) # {} THEN "unconverged" ELSE "returned"
  /\ UNCHANGED <<size, value, x, missed, krylov, direct>>

\* ResidualEvaluator::converged: the direct evaluator, which may decide, ...
ConvergedDirect ==
  /\ solverPc = "direct"
  /\ solverPc' = IF Exceeding(missed \cap direct) # {} THEN "unconverged"
           ELSE IF direct = Rows THEN "returned"
           ELSE "fast"
  /\ UNCHANGED <<size, value, x, missed, krylov, direct>>

\* ... and else the fast one.
ConvergedFast ==
  /\ solverPc = "fast"
  /\ \E reported \in IF x = "number" THEN SUBSET Rows ELSE {missed} :
       solverPc' = IF Exceeding(reported) # {} THEN "unconverged" ELSE "returned"
  /\ UNCHANGED <<size, value, x, missed, krylov, direct>>

\* iterate_process returns at once, and the same solution is tested again.
KeepIterating ==
  /\ solverPc = "unconverged" /\ iter = MaxIter
  /\ solverPc' = "direct"
  /\ UNCHANGED <<size, value, x, missed, krylov, direct>>

ReachedMaxIter ==
  /\ solverPc = "unconverged" /\ iter = MaxIter
  /\ solverPc' = "thrown"
  /\ UNCHANGED <<size, value, x, missed, krylov, direct>>

\* Gmres::iterate_process and solution_vector: the next basis vector is divided
\* by its norm, which is zero once the basis is complete.
Iterate ==
  /\ solverPc = "unconverged" /\ iter < MaxIter
  /\ iter' = iter + 1 /\ zs' = zs + 1 /\ vs' = vs + 1
  /\ x' = IF broken THEN "nan" ELSE "number"
  /\ missed' \in SUBSET Rows
  /\ broken' \in {b \in BOOLEAN : broken => b}
  /\ solverPc' = "direct"
  /\ UNCHANGED <<size, value, direct>>

\* The caller takes the weights or the exception.
Return ==
  /\ solverPc \in {"returned", "thrown"}
  /\ solverPc' = "idle" /\ value' = <<>> /\ x' = "zero" /\ missed' = {}
  /\ iter' = 0 /\ vs' = 0 /\ zs' = 0 /\ broken' = FALSE
  /\ UNCHANGED <<size, direct>>

SolverNext ==
  \/ SetPoints \/ Start \/ ExactAlready \/ SetValues \/ ConvergedDirect \/ ConvergedFast
  \/ ReachedMaxIter \/ Iterate \/ Return

SolverSpec == SolverInit /\ [][SolverNext]_solverVars
\* A call of solve that nothing interrupts.
SolverFairSpec == SolverSpec /\ WF_solverVars(solverPc # "idle" /\ SolverNext)

-----------------------------------------------------------------------------
\* The type of every variable; the vectors that solution_vector and the next
\* iteration read are there, and r_, c_, s_ and g_ have room for them.
SolverTypeOK ==
  /\ size \in SystemSizes
  /\ solverPc = "idle" \/ value \in [Rows -> RowValues]
  /\ x \in {"zero", "number", "nan"}
  /\ missed \subseteq Rows
  /\ iter \in 0..MaxIter /\ zs = iter
  /\ vs = IF solverPc = "idle" THEN 0 ELSE iter + 1
  /\ broken \in BOOLEAN
  /\ direct = NoRows \/ direct \subseteq AllRows
  /\ solverPc \in {"idle", "setup", "direct", "fast", "unconverged", "returned", "thrown"}

\* However often the solver was set to other points and values before, the rows
\* tested exactly are rows of the present ones, and as many as there may be.
DirectRowsCurrent ==
  solverPc \in {"direct", "fast", "unconverged"} =>
    /\ direct \subseteq Rows
    /\ \A p \in RowKinds : Cardinality(Part(direct, p)) = Few(p)

\* Weights of zero that miss some value are never taken for the solution.
ZeroNeverReturned == solverPc = "returned" /\ x = "zero" => missed = {}

\* The rows that are tested exactly are rows of the present problem, and weights of zero
\* that miss some value are never taken for the solution.
SolutionTested == DirectRowsCurrent /\ ZeroNeverReturned

\* solve ends, with weights or with an exception.
SolveEnds == (solverPc = "setup") ~> (solverPc = "idle")

=============================================================================
