-------------------------- MODULE MultilevelCycle --------------------------
(***************************************************************************)
(* What one application of the preconditioner promises: a sequence of      *)
(* corrections, each solved on one level and taken off the residuals of    *)
(* the levels that are solved afterwards.  The solve of a level is a       *)
(* single step here, whatever the number of domains and threads.           *)
(***************************************************************************)
EXTENDS Integers, Sequences

CONSTANTS
  Point,       \* the points of the finest level
  LevelPoints, \* point_idcs_: the points of each level, 0 the coarsest
  Orthogonal   \* l_ > 0: the weights are made orthogonal to the polynomials

Top == Len(LevelPoints) - 1
At(level) == LevelPoints[level + 1]
None == -1

LevelsAssumption ==
  /\ LevelPoints \in Seq(SUBSET Point) /\ Len(LevelPoints) >= 1
  /\ At(Top) = Point
  /\ \A k, l \in 0..Top : k <= l => At(k) \subseteq At(l)
OrthogonalAssumption == Orthogonal \in BOOLEAN
Assumptions == LevelsAssumption /\ OrthogonalAssumption

VARIABLES
  step,      \* the step of the plan that is being done
  cyclePc,        \* "solve", "update", "add", "orthogonalize" or "done"
  weights,   \* the points that the solution of this step has a weight for
  added,     \* the corrections in weights_total
  taken      \* for each point, the corrections taken off its residual

cycleVars == <<step, cyclePc, weights, added, taken>>

\* A step: solve a level, update the residuals of the levels up to target, add
\* the weights, orthogonalize them.
Step(level, target, orth) == [level |-> level, target |-> target, orth |-> orth]
CoarseStep(target) == Step(0, target, FALSE)

\* The plan is a climb over the levels 1..Top-1 and a descent from Top to 1; the
\* k-th level visited is followed by the coarsest, which also comes first (k = 0).
Visited(k) == IF k < Top THEN k ELSE 2 * Top - k
\* The climb keeps all residuals up to date, the descent those of the coarser
\* levels, which are all that is still to be solved; the last step needs none.
Target(k) == IF k < Top THEN Top ELSE Visited(k) - 1
LastTarget(k) == IF k < Top \/ Visited(k) > 1 THEN Target(k) ELSE None
Plan ==
  IF Top = 0 THEN <<CoarseStep(None)>>
  ELSE [i \in 1..(4 * Top - 1) |->
          IF i % 2 = 0 THEN Step(Visited(i \div 2), Target(i \div 2), TRUE)
                       ELSE CoarseStep(LastTarget(i \div 2))]

Now == Plan[step]
\* The corrections of a step: its solution, and what orthogonalize adds.
Solution(i) == <<i, "solution">>
Projection(i) == <<i, "projection">>

CycleInit ==
  /\ step = 1 /\ cyclePc = "solve"
  /\ weights = {} /\ added = {} /\ taken = [p \in Point |-> {}]

Solve ==
  /\ cyclePc = "solve"
  /\ weights' = At(Now.level)
  /\ cyclePc' = "update"
  /\ UNCHANGED <<step, added, taken>>

\* update_residuals: the weights of the points of the level are seen, the
\* residuals of the points of the target are changed.
Update ==
  /\ cyclePc = "update"
  /\ taken' = [p \in Point |->
       IF Now.target # None /\ p \in At(Now.target) THEN taken[p] \cup {Solution(step)} ELSE taken[p]]
  /\ cyclePc' = "add"
  /\ UNCHANGED <<step, weights, added>>

Advance ==
  /\ step' = IF step < Len(Plan) THEN step + 1 ELSE step
  /\ cyclePc' = IF step < Len(Plan) THEN "solve" ELSE "done"
  /\ weights' = {}

Add ==
  /\ cyclePc = "add"
  /\ added' = added \cup {Solution(step)}
  /\ IF Now.orth /\ Orthogonal
       THEN cyclePc' = "orthogonalize" /\ UNCHANGED <<step, weights>>
       ELSE Advance
  /\ UNCHANGED taken

\* orthogonalize without `residuals += ap_ * dot'.
OrthogonalizeWeightsOnly ==
  /\ cyclePc = "orthogonalize"
  /\ added' = added \cup {Projection(step)}
  /\ taken' = taken
  /\ Advance

\* orthogonalize: a polynomial part is taken off the weights, and what it did to
\* the residuals of all points is put back.
Orthogonalize ==
  /\ cyclePc = "orthogonalize"
  /\ added' = added \cup {Projection(step)}
  /\ taken' = [p \in Point |-> taken[p] \cup {Projection(step)}]
  /\ Advance

CycleNext == Solve \/ Update \/ Add \/ Orthogonalize

CycleSpec == CycleInit /\ [][CycleNext]_cycleVars

\* Whenever a level is solved, the residuals of all its points account for all
\* corrections so far, though each correction is taken off only the residuals
\* that operator() expects to be needed.
ResidualsExact ==
  cyclePc = "solve" => \A p \in At(Now.level) : taken[p] = added
=============================================================================
