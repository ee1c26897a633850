---------------------- MODULE RasPreconditionerProofs ----------------------
(***************************************************************************)
(* Proofs about MultilevelCycle for any number of levels and any points,   *)
(* and about RasPreconditioner for any number of levels, grids and threads *)
(* and any schedule of the parallel loops.                                 *)
(*                                                                         *)
(* The argument for the cycle: before a step the residuals are exact up to *)
(* the target of the step before, and that is never below the level solved *)
(* next.  The argument for the grids: the threads that are not idle are at *)
(* different grids, whose inner points are apart; every id leads to the    *)
(* factor of its own grid; the grids handed out cover the points written.  *)
(*                                                                         *)
(* Last come the proofs about FineGrid, for grids of any size.  While rows *)
(* are packed or unpacked, the rows before a certain one are where packing *)
(* puts them and the others are where the factorization put them; neither  *)
(* of the two places of a row touches the place of another row on the      *)
(* other side of that border.                                              *)
(***************************************************************************)
EXTENDS RasPreconditioner, FineGrid, SequenceTheorems, TLAPS

LEMMA TopType == ASSUME LevelsAssumption PROVE Top \in Nat
BY DEF LevelsAssumption, Top

\* The plan, without the case distinction on the number of levels.
LEMMA PlanForm ==
  ASSUME Top \in Nat
  PROVE  /\ Len(Plan) = IF Top = 0 THEN 1 ELSE 4 * Top - 1
         /\ \A i \in 1..Len(Plan) : Plan[i] =
              IF Top = 0 THEN CoarseStep(None)
              ELSE IF i % 2 = 0 THEN Step(Visited(i \div 2), Target(i \div 2), TRUE)
              ELSE CoarseStep(LastTarget(i \div 2))
<1>1. CASE Top = 0
  BY <1>1 DEF Plan
<1>2. CASE Top # 0
  <2>1. Plan = [i \in 1..(4 * Top - 1) |->
                  IF i % 2 = 0 THEN Step(Visited(i \div 2), Target(i \div 2), TRUE)
                  ELSE CoarseStep(LastTarget(i \div 2))]
    BY <1>2 DEF Plan
  <2>2. 4 * Top - 1 \in Nat
    BY <1>2
  <2> QED BY <1>2, <2>1, <2>2
<1> QED BY <1>1, <1>2

\* Up to which level the residuals are exact before step i.
Bound(i) == IF i = 1 THEN Top ELSE Plan[i - 1].target

\* Level and target of an odd and of an even step.
LEMMA OddStep ==
  ASSUME Top \in Nat \ {0}, NEW k \in 0..(2 * Top - 1)
  PROVE  /\ 2 * k + 1 \in 1..Len(Plan)
         /\ Plan[2 * k + 1].level = 0 /\ Plan[2 * k + 1].target = LastTarget(k)
<1>1. 2 * k + 1 \in 1..(4 * Top - 1)
  OBVIOUS
<1>2. (2 * k + 1) % 2 # 0 /\ (2 * k + 1) \div 2 = k
  OBVIOUS
<1>3. Len(Plan) = 4 * Top - 1
  BY PlanForm
<1>4. Plan[2 * k + 1] = IF (2 * k + 1) % 2 = 0
                          THEN Step(Visited((2 * k + 1) \div 2), Target((2 * k + 1) \div 2), TRUE)
                          ELSE CoarseStep(LastTarget((2 * k + 1) \div 2))
  BY <1>1, <1>3, PlanForm
<1>5. Plan[2 * k + 1] = CoarseStep(LastTarget(k))
  BY <1>2, <1>4, Zenon
<1> QED BY <1>1, <1>3, <1>5 DEF CoarseStep, Step

LEMMA EvenStep ==
  ASSUME Top \in Nat \ {0}, NEW k \in 1..(2 * Top - 1)
  PROVE  /\ 2 * k \in 1..Len(Plan)
         /\ Plan[2 * k].level = Visited(k) /\ Plan[2 * k].target = Target(k)
<1>1. 2 * k \in 1..(4 * Top - 1)
  OBVIOUS
<1>2. (2 * k) % 2 = 0 /\ (2 * k) \div 2 = k
  OBVIOUS
<1>3. Len(Plan) = 4 * Top - 1 /\ Plan[2 * k] = Step(Visited(k), Target(k), TRUE)
  BY <1>1, <1>2, PlanForm
<1> QED BY <1>1, <1>3 DEF Step

\* The plan solves and updates nothing above the bound.
LEMMA WithinBound ==
  ASSUME Top \in Nat, NEW i \in 1..Len(Plan)
  PROVE  /\ Bound(i) \in 0..Top
         /\ Plan[i].level \in 0..Bound(i)
         /\ Plan[i].target # None => Plan[i].target \in 0..Bound(i)
         /\ i < Len(Plan) => Plan[i].target # None
<1>1. CASE Top = 0
  <2>1. i = 1 /\ Len(Plan) = 1 /\ Plan[i] = CoarseStep(None)
    <3>1. Len(Plan) = 1
      BY <1>1, PlanForm
    <3>2. Plan[i] = CoarseStep(None)
      BY <1>1, PlanForm
    <3>. QED BY <3>1, <3>2
  <2> QED BY <1>1, <2>1 DEF Bound, CoarseStep, Step
<1>2. CASE Top # 0
  <2>1. Len(Plan) = 4 * Top - 1
    BY <1>2, PlanForm
  <2>2. CASE i = 1
    <3>1. Plan[1].level = 0 /\ Plan[1].target = LastTarget(0)
      BY <1>2, OddStep, 0 \in 0..(2 * Top - 1), 2 * 0 + 1 = 1
    <3> QED BY <1>2, <2>2, <3>1 DEF Bound, LastTarget, Target, None
  <2>3. ASSUME NEW k \in 1..(2 * Top - 1), i = 2 * k
        PROVE  /\ Bound(i) \in 0..Top
               /\ Plan[i].level \in 0..Bound(i)
               /\ Plan[i].target # None => Plan[i].target \in 0..Bound(i)
               /\ i < Len(Plan) => Plan[i].target # None
    <3>1. k - 1 \in 0..(2 * Top - 1) /\ 2 * (k - 1) + 1 = i - 1 /\ i # 1
      BY <2>3
    <3>2. Bound(i) = LastTarget(k - 1)
      BY <1>2, <3>1, OddStep DEF Bound
    <3>3. Plan[i].level = Visited(k) /\ Plan[i].target = Target(k)
      BY <1>2, <2>3, EvenStep
    <3> QED BY <1>2, <3>2, <3>3 DEF LastTarget, Target, Visited, None
  <2>4. ASSUME NEW k \in 1..(2 * Top - 1), i = 2 * k + 1
        PROVE  /\ Bound(i) \in 0..Top
               /\ Plan[i].level \in 0..Bound(i)
               /\ Plan[i].target # None => Plan[i].target \in 0..Bound(i)
               /\ i < Len(Plan) => Plan[i].target # None
    <3>1. i - 1 = 2 * k /\ i # 1
      BY <2>4
    <3>2. Bound(i) = Target(k)
      BY <1>2, <3>1, EvenStep DEF Bound
    <3>3. Plan[i].level = 0 /\ Plan[i].target = LastTarget(k)
      BY <1>2, <2>4, OddStep
    <3> QED BY <1>2, <2>1, <2>4, <3>2, <3>3 DEF LastTarget, Target, Visited, None
  <2>5. i = 1 \/ \E k \in 1..(2 * Top - 1) : i = 2 * k \/ i = 2 * k + 1
    <3>1. i \div 2 \in Nat /\ (i = 2 * (i \div 2) \/ i = 2 * (i \div 2) + 1)
      OBVIOUS
    <3>2. i = 1 \/ i \div 2 \in 1..(2 * Top - 1)
      BY <1>2, <2>1, <3>1
    <3> QED BY <3>1, <3>2
  <2> QED BY <2>2, <2>3, <2>4, <2>5
<1> QED BY <1>1, <1>2

-----------------------------------------------------------------------------
\* The residuals that are exact, as a correction passes through the step.
CycleInv ==
  /\ step \in 1..Len(Plan)
  /\ cyclePc \in {"solve", "update"} => \A p \in At(Bound(step)) : taken[p] = added
  /\ cyclePc = "add" /\ Now.target # None =>
       \A p \in At(Now.target) : taken[p] = added \cup {Solution(step)}
  /\ cyclePc = "orthogonalize" /\ Now.target # None => \A p \in At(Now.target) : taken[p] = added

\* Nested sets of points of the finest level.
LEMMA LevelsNested ==
  ASSUME LevelsAssumption
  PROVE  /\ \A lv \in 0..Top : At(lv) \subseteq Point
         /\ \A k, lv \in 0..Top : k <= lv => At(k) \subseteq At(lv)
BY DEF LevelsAssumption, Top, At

LEMMA InitCycle == ASSUME LevelsAssumption, CycleInit PROVE CycleInv
<1>1. Top \in Nat
  BY TopType
<1>2. 1 \in 1..Len(Plan)
  BY <1>1, PlanForm
<1>3. Bound(1) = Top /\ Top \in 0..Top
  BY <1>1 DEF Bound
<1>4. \A p \in At(Bound(1)) : taken[p] = added
  BY <1>3, LevelsNested DEF CycleInit
<1> QED BY <1>2, <1>4 DEF CycleInit, CycleInv

\* After the last change of a step the next one finds the residuals it needs.
LEMMA AdvanceCycle ==
  ASSUME LevelsAssumption, step \in 1..Len(Plan), Advance,
         Now.target # None => \A p \in At(Now.target) : taken'[p] = added'
  PROVE  CycleInv'
<1>1. Top \in Nat /\ Len(Plan) \in Nat
  BY TopType, PlanForm
<1>2. CASE step < Len(Plan)
  <2>1. step' = step + 1 /\ cyclePc' = "solve"
    BY <1>2 DEF Advance
  <2>2. Now.target # None
    BY <1>1, <1>2, WithinBound DEF Now
  <2>3. step + 1 \in 1..Len(Plan) /\ step + 1 # 1 /\ (step + 1) - 1 = step
    BY <1>1, <1>2
  <2>4. Bound(step + 1) = Now.target
    BY <2>3 DEF Bound, Now
  <2>5. \A p \in At(Bound(step + 1)) : taken'[p] = added'
    BY <2>2, <2>4
  <2>6. \A p \in At(Bound(step')) : taken'[p] = added'
    BY <2>1, <2>5
  <2> QED BY <2>1, <2>3, <2>6
        DEF CycleInv, Bound, At, Plan, Top, Target, LastTarget, Visited, CoarseStep, Step
<1>3. CASE ~(step < Len(Plan))
  BY <1>3 DEF Advance, CycleInv
<1> QED BY <1>2, <1>3

\* Every step of a correction preserves the invariant.
LEMMA NextCycle ==
  ASSUME LevelsAssumption, CycleInv, [CycleNext]_cycleVars
  PROVE  CycleInv'
<1>1. Top \in Nat /\ step \in 1..Len(Plan)
  BY TopType DEF CycleInv
<1>2. CASE Solve
  BY <1>2 DEF Solve, CycleInv, Bound, At, Now, Solution
<1>3. CASE Update
  <2>1. cyclePc = "update" /\ cyclePc' = "add" /\ step' = step /\ added' = added
    BY <1>3 DEF Update
  <2>2. Bound(step) \in 0..Top /\ (Now.target # None => Now.target \in 0..Bound(step))
    BY <1>1, WithinBound DEF Now
  <2>3. ASSUME Now.target # None, NEW p \in At(Now.target)
        PROVE  taken'[p] = added \cup {Solution(step)}
    <3>1. p \in Point /\ p \in At(Bound(step))
      BY <1>1, <2>2, <2>3, LevelsNested
    <3>2. taken'[p] = taken[p] \cup {Solution(step)}
      BY <1>3, <2>3, <3>1 DEF Update
    <3> QED BY <2>1, <3>1, <3>2 DEF CycleInv
  <2> QED BY <1>1, <2>1, <2>3 DEF CycleInv, Now, At, Solution
<1>4. CASE Add
  <2>1. ASSUME Now.target # None, NEW p \in At(Now.target)
        PROVE  taken'[p] = added'
    BY <1>4, <2>1 DEF Add, CycleInv
  <2>2. CASE Now.orth /\ Orthogonal
    BY <1>1, <1>4, <2>1, <2>2 DEF Add, CycleInv, Now, At
  <2>3. CASE ~(Now.orth /\ Orthogonal)
    <3>1. Advance
      BY <1>4, <2>3 DEF Add
    <3> QED BY <1>1, <2>1, <3>1, AdvanceCycle
  <2> QED BY <2>2, <2>3
<1>5. CASE Orthogonalize
  <2>1. ASSUME Now.target # None, NEW p \in At(Now.target)
        PROVE  taken'[p] = added'
    <3>1. p \in Point
      BY <1>1, <2>1, WithinBound, LevelsNested DEF Now
    <3>2. taken[p] = added
      BY <1>5, <2>1 DEF Orthogonalize, CycleInv
    <3> QED BY <1>5, <3>1, <3>2 DEF Orthogonalize
  <2>2. Advance
    BY <1>5 DEF Orthogonalize
  <2> QED BY <1>1, <2>1, <2>2, AdvanceCycle
<1>6. CASE UNCHANGED cycleVars
  BY <1>6 DEF cycleVars, CycleInv, Bound, Now, At, Solution
<1> QED BY <1>2, <1>3, <1>4, <1>5, <1>6 DEF CycleNext

LEMMA CycleExact == ASSUME LevelsAssumption, CycleInv PROVE ResidualsExact
<1>1. Top \in Nat /\ step \in 1..Len(Plan)
  BY TopType DEF CycleInv
<1>2. Now.level \in 0..Bound(step) /\ Bound(step) \in 0..Top
  BY <1>1, WithinBound DEF Now
<1>3. Now.level \in 0..Top /\ Now.level <= Bound(step)
  BY <1>1, <1>2
<1>4. At(Now.level) \subseteq At(Bound(step))
  BY <1>2, <1>3, LevelsNested
<1> QED BY <1>4 DEF CycleInv, ResidualsExact

LEMMA CycleAlways == ASSUME LevelsAssumption PROVE CycleSpec => []CycleInv
<1>1. CycleInv /\ [CycleNext]_cycleVars => CycleInv'
  BY NextCycle
<1> QED BY <1>1, InitCycle, PTL DEF CycleSpec

\* Whatever the number of levels and their points, a level is solved with residuals
\* that account for every correction added before.
THEOREM Exact == ASSUME LevelsAssumption PROVE CycleSpec => []ResidualsExact
<1>1. CycleInv => ResidualsExact
  BY CycleExact
<1> QED BY <1>1, CycleAlways, PTL

-----------------------------------------------------------------------------
(* The parallel loops.                                                     *)

GridIndex(lv) == 1..Len(GridsAt(lv))
Busy(t) == at[t] # "idle"

\* The loops: the threads that are not idle are at different grids of the level,
\* which were handed out before next.
LoopInv ==
  /\ phase \in {"setup", "apply"}
  /\ level \in {None} \cup 1..Top
  /\ next \in Nat \ {0}
  /\ task \in [Thread -> Nat]
  /\ at \in [Thread -> {"idle", "put", "get", "write"}]
  /\ left \in [Thread -> SUBSET Point]
  /\ \A t \in Thread : Busy(t) => /\ level # None
                                  /\ task[t] \in GridIndex(level) /\ task[t] < next
                                  /\ at[t] = "put" <=> phase = "setup"
  /\ \A t, u \in Thread : t # u /\ Busy(t) /\ Busy(u) => task[t] # task[u]
  /\ \A t \in Thread : at[t] = "write" => left[t] \subseteq GridOf(t).inner

\* The place of the loops in the plan.
PlaceInv ==
  /\ step \in 1..Len(Plan)
  /\ phase = "setup" => level # None /\ step = 1 /\ cyclePc = "solve"
  /\ phase = "apply" /\ level # None => cyclePc = "solve" /\ level = Now.level

LEMMA GridFacts ==
  ASSUME RasAssumptions
  PROVE  /\ Top \in Nat /\ Len(Plan) \in Nat \ {0}
         /\ \A lv \in 1..Top : Len(GridsAt(lv)) \in Nat
         /\ \A lv \in 1..Top : \A i \in GridIndex(lv) :
              GridsAt(lv)[i].inner \subseteq At(lv) /\ GridsAt(lv)[i].inner \subseteq Point
         /\ \A lv \in 1..Top : \A i, j \in GridIndex(lv) :
              i # j => GridsAt(lv)[i].inner \cap GridsAt(lv)[j].inner = {}
         /\ \A lv \in 1..Top : At(lv) = UNION {GridsAt(lv)[i].inner : i \in GridIndex(lv)}
         /\ None \notin 1..Top
<1>1. LevelsAssumption /\ GridsAssumption /\ InnerAssumption
  BY DEF RasAssumptions, Assumptions
<1>2. Top \in Nat /\ Len(Plan) \in Nat \ {0}
  <2>1. Top \in Nat
    BY <1>1, TopType
  <2>2. Len(Plan) = IF Top = 0 THEN 1 ELSE 4 * Top - 1
    BY <2>1, PlanForm
  <2> QED BY <2>1, <2>2
<1>3. \A lv \in 1..Top : Len(GridsAt(lv)) \in Nat
  BY <1>1 DEF GridsAssumption, GridsAt
<1>4. \A lv \in 1..Top : \A i \in GridIndex(lv) :
        GridsAt(lv)[i].inner \subseteq At(lv) /\ GridsAt(lv)[i].inner \subseteq Point
  BY <1>1, <1>2, LevelsNested DEF GridsAssumption, GridIndex
<1>5. \A lv \in 1..Top : \A i, j \in GridIndex(lv) :
        i # j => GridsAt(lv)[i].inner \cap GridsAt(lv)[j].inner = {}
  BY <1>1, <1>4 DEF InnerAssumption, GridIndex
<1>6. \A lv \in 1..Top : At(lv) = UNION {GridsAt(lv)[i].inner : i \in GridIndex(lv)}
  BY <1>1, <1>4 DEF InnerAssumption, GridIndex
<1> QED BY <1>2, <1>3, <1>4, <1>5, <1>6 DEF None

\* The plan of the constructor's first level and of operator().
LEMMA PlanStart ==
  ASSUME RasAssumptions
  PROVE  1 \in 1..Len(Plan) /\ \A i \in 1..Len(Plan) : Plan[i].level \in 0..Top
<1>1. Top \in Nat /\ 1 \in 1..Len(Plan)
  BY GridFacts
<1>2. ASSUME NEW i \in 1..Len(Plan) PROVE Plan[i].level \in 0..Top
  <2>1. Bound(i) \in 0..Top /\ Plan[i].level \in 0..Bound(i)
    BY <1>1, WithinBound
  <2> QED BY <1>1, <2>1
<1> QED BY <1>1, <1>2

LEMMA InitLoops == ASSUME RasAssumptions, RasInit PROVE LoopInv /\ PlaceInv
<1>1. Top \in Nat /\ 1 \in 1..Len(Plan)
  BY GridFacts, PlanStart
<1>2. LoopInv
  BY <1>1 DEF RasInit, LoopInv, Busy
<1>3. PlaceInv
  BY <1>1 DEF RasInit, CycleInit, PlaceInv, None
<1> QED BY <1>2, <1>3

\* The steps of the threads.
LEMMA ThreadLoop ==
  ASSUME RasAssumptions, LoopInv, NEW t \in Thread, GridStep(t)
  PROVE  LoopInv'
<1>1. level \in {None} \cup 1..Top /\ \A lv \in 1..Top : Len(GridsAt(lv)) \in Nat
  BY GridFacts DEF LoopInv
<1> USE DEF LoopInv, Busy, GridIndex, GridOf
<1>2. CASE TakeGrid(t)
  <2>1. level # None /\ next \in GridIndex(level) /\ level' = level /\ phase' = phase
    BY <1>1, <1>2 DEF TakeGrid
  <2>2. next' = next + 1 /\ task' = [task EXCEPT ![t] = next] /\ left' = left
    BY <1>2 DEF TakeGrid
  <2>3. at' = [at EXCEPT ![t] = IF phase = "setup" THEN "put" ELSE "get"] /\ at[t] = "idle"
    BY <1>2 DEF TakeGrid, Idle
  <2> QED BY <1>1, <2>1, <2>2, <2>3
<1>3. CASE Setup(t)
  BY <1>1, <1>3 DEF Setup
<1>4. CASE SolveGrid(t)
  <2>1. level # None /\ task[t] \in GridIndex(level) /\ level \in 1..Top
    BY <1>1, <1>4 DEF SolveGrid
  <2>2. GridOf(t).inner \subseteq Point
    BY <2>1, GridFacts
  <2>3. left' = [left EXCEPT ![t] = GridOf(t).inner] /\ at' = [at EXCEPT ![t] = "write"]
        /\ at[t] = "get" /\ UNCHANGED <<phase, level, next, task>>
    BY <1>4 DEF SolveGrid
  <2> QED BY <1>1, <2>1, <2>2, <2>3
<1>5. CASE WritePoint(t)
  BY <1>1, <1>5 DEF WritePoint
<1>6. CASE EndGrid(t)
  BY <1>1, <1>6 DEF EndGrid
<1> QED BY <1>2, <1>3, <1>4, <1>5, <1>6 DEF GridStep

\* The steps of the main thread, which are taken only when all threads are idle or
\* leave the loops alone.
LEMMA MainLoop ==
  ASSUME RasAssumptions, LoopInv, PlaceInv, Main
  PROVE  LoopInv'
<1>1. level \in {None} \cup 1..Top /\ Top \in Nat /\ None \notin 1..Top
  BY GridFacts DEF LoopInv
<1> USE DEF LoopInv, Busy, GridIndex, GridOf
<1>2. CASE EndSetupLevel
  BY <1>1, <1>2 DEF EndSetupLevel, LoopDone, Idle, None
<1>3. CASE BeginSolve
  <2>1. level' \in 1..Top
    BY <1>1, <1>3, PlanStart DEF BeginSolve, PlaceInv, Now
  <2>2. \A t \in Thread : at[t] = "idle"
    BY <1>3 DEF BeginSolve
  <2> QED BY <1>1, <1>3, <2>1, <2>2 DEF BeginSolve
<1>4. CASE EndSolve
  BY <1>1, <1>4 DEF EndSolve, LoopDone, Idle
<1>5. CASE SolveCoarse \/ UpdateResiduals \/ AddWeights \/ OrthogonalizeWeights
  BY <1>5 DEF SolveCoarse, UpdateResiduals, AddWeights, OrthogonalizeWeights, loopVars
<1> QED BY <1>2, <1>3, <1>4, <1>5 DEF Main

LEMMA NextPlace ==
  ASSUME RasAssumptions, LoopInv, PlaceInv, RasNext
  PROVE  PlaceInv'
<1>1. /\ level \in {None} \cup 1..Top /\ Top \in Nat /\ None \notin 1..Top
      /\ Len(Plan) \in Nat /\ step \in 1..Len(Plan) /\ phase \in {"setup", "apply"}
  BY GridFacts DEF LoopInv, PlaceInv
<1>2. ASSUME NEW t \in Thread, GridStep(t) PROVE PlaceInv'
  BY <1>2 DEF GridStep, TakeGrid, Setup, SolveGrid, WritePoint, EndGrid, cycleVars, PlaceInv, Now
<1>3. CASE EndSetupLevel
  BY <1>1, <1>3 DEF EndSetupLevel, cycleVars, PlaceInv
<1>4. CASE BeginSolve
  BY <1>1, <1>4 DEF BeginSolve, cycleVars, PlaceInv, Now
<1>5. CASE EndSolve
  BY <1>1, <1>5 DEF EndSolve, PlaceInv
<1>6. CASE SolveCoarse
  <2>1. level = None
    BY <1>1, <1>6 DEF SolveCoarse, PlaceInv
  <2> QED BY <1>1, <1>6, <2>1 DEF SolveCoarse, Solve, loopVars, PlaceInv
<1>7. CASE UpdateResiduals \/ AddWeights \/ OrthogonalizeWeights
  <2>1. level = None /\ phase = "apply" /\ level' = level /\ phase' = phase
    BY <1>7 DEF UpdateResiduals, Update, AddWeights, Add, OrthogonalizeWeights, Orthogonalize,
                loopVars, PlaceInv
  <2>2. step' = step \/ Advance
    BY <1>7 DEF UpdateResiduals, Update, AddWeights, Add, OrthogonalizeWeights, Orthogonalize
  <2>3. step' \in 1..Len(Plan)
    BY <1>1, <2>2 DEF Advance
  <2> QED BY <2>1, <2>3 DEF PlaceInv
<1> QED BY <1>2, <1>3, <1>4, <1>5, <1>6, <1>7 DEF RasNext, Main

LEMMA LoopsStutter == LoopInv /\ PlaceInv /\ UNCHANGED rasVars => LoopInv' /\ PlaceInv'
BY DEF rasVars, cycleVars, loopVars, LoopInv, PlaceInv, Busy, GridIndex, GridOf, Now

LEMMA NextLoops ==
  ASSUME RasAssumptions, LoopInv, PlaceInv, [RasNext]_rasVars
  PROVE  LoopInv' /\ PlaceInv'
<1>1. CASE Main
  BY <1>1, MainLoop, NextPlace DEF RasNext
<1>2. CASE \E t \in Thread : GridStep(t)
  BY <1>2, ThreadLoop, NextPlace DEF RasNext
<1>3. CASE UNCHANGED rasVars
  BY <1>3, LoopsStutter
<1> QED BY <1>1, <1>2, <1>3 DEF RasNext

LEMMA LoopsAlways == ASSUME RasAssumptions PROVE RasSpec => [](LoopInv /\ PlaceInv)
<1>1. LoopInv /\ PlaceInv /\ [RasNext]_rasVars => LoopInv' /\ PlaceInv'
  BY NextLoops
<1> QED BY <1>1, InitLoops, PTL DEF RasSpec

LEMMA LoopsApart == ASSUME RasAssumptions, LoopInv PROVE NoWriteRace
<1> SUFFICES ASSUME NEW t \in Thread, NEW u \in Thread, t # u, at[t] = "write", at[u] = "write"
             PROVE  left[t] \cap left[u] = {}
  BY DEF NoWriteRace
<1>1. /\ level \in 1..Top /\ task[t] # task[u]
      /\ task[t] \in GridIndex(level) /\ task[u] \in GridIndex(level)
  BY DEF LoopInv, Busy
<1>2. GridOf(t).inner \cap GridOf(u).inner = {}
  BY <1>1, GridFacts DEF GridOf
<1> QED BY <1>2 DEF LoopInv

-----------------------------------------------------------------------------
\* The grids that have been set up: those of the levels done, and of this level those
\* that were handed out and are not being set up any more.
Made(lv, i) ==
  \/ phase = "apply" \/ lv > level
  \/ lv = level /\ i < next /\ \A t \in Thread : at[t] = "put" => task[t] # i

\* Every id leads to the factor of its own grid, and every grid with a factor has
\* an id once it has been set up.
IdInv ==
  /\ cache \in Seq(Nat \X Nat)
  /\ DOMAIN cacheId = 1..Top
  /\ \A lv \in 1..Top : cacheId[lv] \in [GridIndex(lv) -> 0..Len(cache)]
  /\ \A lv \in 1..Top : \A i \in GridIndex(lv) :
       /\ cacheId[lv][i] # 0 => cache[cacheId[lv][i]] = <<lv, i>>
       /\ ~GridsAt(lv)[i].small /\ Made(lv, i) => cacheId[lv][i] # 0
CacheInv == IdInv /\ DOMAIN factor = Thread /\ OwnFactor

LEMMA InitCache == ASSUME RasAssumptions, RasInit PROVE CacheInv
<1>1. Top \in Nat /\ \A lv \in 1..Top : Len(GridsAt(lv)) \in Nat
  BY GridFacts
<1>2. /\ cache = <<>> /\ next = 1 /\ (Top > 0 => level = Top /\ phase = "setup")
      /\ cacheId = [lv \in 1..Top |-> [i \in 1..Len(GridsAt(lv)) |-> 0]]
  BY <1>1 DEF RasInit
<1>3. IdInv
  BY <1>1, <1>2 DEF IdInv, Made, GridIndex
<1>4. DOMAIN factor = Thread /\ OwnFactor
  BY DEF RasInit, OwnFactor
<1> QED BY <1>3, <1>4 DEF CacheInv

\* A step that touches neither the ids nor the blobs, and sets up no grid.
LEMMA QuietIds ==
  ASSUME RasAssumptions, IdInv, UNCHANGED <<cacheId, cache>>,
         \A lv \in 1..Top : \A i \in GridIndex(lv) : Made(lv, i)' => Made(lv, i)
  PROVE  IdInv'
BY DEF IdInv, GridIndex, GridsAt, Top

\* FineGrid::setup puts one factor, and the id of its grid is that of the new blob.
LEMMA SetupIds ==
  ASSUME RasAssumptions, LoopInv, IdInv, NEW t \in Thread, Setup(t)
  PROVE  IdInv'
<1>1. /\ level \in 1..Top /\ task[t] \in GridIndex(level) /\ phase = "setup"
      /\ Top \in Nat /\ Len(GridsAt(level)) \in Nat
  BY GridFacts DEF Setup, LoopInv, Busy
<1>2. ASSUME NEW lv \in 1..Top, NEW i \in GridIndex(lv), Made(lv, i)', ~Made(lv, i)
      PROVE  lv = level /\ i = task[t]
  BY <1>1, <1>2 DEF Made, Setup, LoopInv, Busy
<1>3. CASE GridOf(t).small
  <2>1. UNCHANGED <<cacheId, cache>>
    BY <1>3 DEF Setup
  <2>2. GridsAt(level)[task[t]].small
    BY <1>3 DEF GridOf
  <2>3. \A lv \in 1..Top : \A i \in GridIndex(lv) : ~GridsAt(lv)[i].small /\ Made(lv, i)'
          => Made(lv, i)
    BY <1>2, <2>2
  <2> QED BY <2>1, <2>3 DEF IdInv, GridIndex, GridsAt, Top
<1>4. CASE ~GridOf(t).small
  <2>1. /\ cache' = Append(cache, <<level, task[t]>>)
        /\ cacheId' = [cacheId EXCEPT ![level][task[t]] = Len(cache) + 1]
    BY <1>4 DEF Setup
  <2>2. <<level, task[t]>> \in Nat \X Nat
    BY <1>1 DEF GridIndex
  <2>3. /\ cache' \in Seq(Nat \X Nat) /\ Len(cache') = Len(cache) + 1
        /\ cache'[Len(cache) + 1] = <<level, task[t]>>
        /\ \A k \in 1..Len(cache) : cache'[k] = cache[k]
        /\ Len(cache) \in Nat
    BY <2>1, <2>2 DEF IdInv
  <2>4. DOMAIN cacheId' = 1..Top
    BY <2>1 DEF IdInv
  <2>5. ASSUME NEW lv \in 1..Top
        PROVE  /\ cacheId'[lv] \in [GridIndex(lv) -> 0..Len(cache')]
               /\ \A i \in GridIndex(lv) :
                    cacheId'[lv][i] = IF lv = level /\ i = task[t] THEN Len(cache) + 1
                      ELSE cacheId[lv][i]
    BY <1>1, <2>1, <2>3 DEF IdInv
  <2>6. ASSUME NEW lv \in 1..Top, NEW i \in GridIndex(lv)
        PROVE  /\ cacheId'[lv][i] # 0 => cache'[cacheId'[lv][i]] = <<lv, i>>
               /\ ~GridsAt(lv)[i].small /\ Made(lv, i)' => cacheId'[lv][i] # 0
    <3>1. CASE lv = level /\ i = task[t]
      <4>1. cacheId'[lv][i] = Len(cache) + 1
        BY <2>5, <3>1
      <4>2. cache'[Len(cache) + 1] = <<lv, i>> /\ Len(cache) + 1 # 0
        BY <2>3, <3>1
      <4> QED BY <4>1, <4>2, Zenon
    <3>2. CASE ~(lv = level /\ i = task[t])
      <4>1. cacheId'[lv][i] = cacheId[lv][i] /\ cacheId[lv][i] \in 0..Len(cache)
        BY <2>5, <3>2 DEF IdInv
      <4>2. Made(lv, i)' => Made(lv, i)
        BY <1>2, <3>2
      <4>3. cacheId[lv][i] # 0 => cache[cacheId[lv][i]] = <<lv, i>>
              /\ cacheId[lv][i] \in 1..Len(cache)
        BY <2>3, <4>1 DEF IdInv
      <4>4. ~GridsAt(lv)[i].small /\ Made(lv, i) => cacheId[lv][i] # 0
        BY DEF IdInv
      <4> QED BY <2>3, <4>1, <4>2, <4>3, <4>4, Zenon
    <3> QED BY <3>1, <3>2
  <2> QED BY <2>3, <2>4, <2>5, <2>6 DEF IdInv, GridIndex, GridsAt, Top
<1> QED BY <1>3, <1>4

\* No other step of a thread or of the main thread sets up a grid.
LEMMA OtherIds ==
  ASSUME RasAssumptions, LoopInv, PlaceInv, IdInv, RasNext, \A t \in Thread : ~Setup(t)
  PROVE  IdInv'
<1>1. UNCHANGED <<cacheId, cache>>
  BY DEF RasNext, Main, GridStep, TakeGrid, SolveGrid, WritePoint, EndGrid, EndSetupLevel,
    SolveCoarse,
         BeginSolve, EndSolve, UpdateResiduals, AddWeights, OrthogonalizeWeights, loopVars
<1>2. ASSUME NEW lv \in 1..Top, NEW i \in GridIndex(lv), Made(lv, i)' PROVE Made(lv, i)
  <2>1. /\ phase \in {"setup", "apply"} /\ Top \in Nat /\ next \in Nat /\ Len(GridsAt(lv)) \in Nat
        /\ phase = "setup" => level \in 1..Top
        /\ i \in 1..Len(GridsAt(lv))
    BY GridFacts DEF LoopInv, PlaceInv, GridIndex
  <2>2. CASE phase = "apply"
    BY <2>2 DEF Made
  <2>3. ASSUME phase = "setup", NEW t \in Thread, TakeGrid(t) PROVE Made(lv, i)
    <3>1. UNCHANGED <<phase, level>> /\ next' = next + 1 /\ at[t] = "idle"
      BY <2>3 DEF TakeGrid, Idle
    <3>2. at' = [at EXCEPT ![t] = "put"] /\ task' = [task EXCEPT ![t] = next]
      BY <2>3 DEF TakeGrid
    <3>3. at'[t] = "put" /\ task'[t] = next
      BY <3>2 DEF LoopInv
    <3>4. \A u \in Thread : at[u] = "put" => at'[u] = "put" /\ task'[u] = task[u]
      BY <3>1, <3>2 DEF LoopInv
    <3> QED BY <1>2, <2>1, <2>3, <3>1, <3>3, <3>4 DEF Made
  <2>4. ASSUME phase = "setup", EndSetupLevel PROVE Made(lv, i)
    <3>1. next > Len(GridsAt(level)) /\ \A t \in Thread : at[t] = "idle"
      BY <2>4 DEF EndSetupLevel, LoopDone, Idle
    <3>2. lv >= level
      BY <1>2, <2>1, <2>4 DEF Made, EndSetupLevel
    <3> QED BY <2>1, <2>4, <3>1, <3>2 DEF Made
  <2>5. ASSUME phase = "setup", NEW t \in Thread, SolveGrid(t) \/ WritePoint(t) \/ EndGrid(t)
        PROVE  Made(lv, i)
    BY <2>5 DEF LoopInv, Busy, SolveGrid, WritePoint, EndGrid
  <2>6. phase = "setup" => ~(Main /\ ~EndSetupLevel)
    BY DEF Main, SolveCoarse, BeginSolve, EndSolve, UpdateResiduals, AddWeights,
      OrthogonalizeWeights
  <2> QED BY <2>1, <2>2, <2>3, <2>4, <2>5, <2>6 DEF RasNext, GridStep
<1> QED BY <1>1, <1>2, QuietIds

\* A thread that has got a factor has got that of its grid.
LEMMA NextFactor ==
  ASSUME RasAssumptions, LoopInv, PlaceInv, CacheInv, RasNext
  PROVE  DOMAIN factor' = Thread /\ OwnFactor'
<1> USE DEF LoopInv, Busy
<1>1. ASSUME NEW t \in Thread, SolveGrid(t) PROVE DOMAIN factor' = Thread /\ OwnFactor'
  <2>1. /\ phase = "apply" /\ level \in 1..Top /\ task[t] \in GridIndex(level)
        /\ UNCHANGED <<level, task>> /\ at' = [at EXCEPT ![t] = "write"]
    BY <1>1 DEF SolveGrid
  <2>2. ~GridOf(t).small => /\ cacheId[level][task[t]] # 0
                            /\ cache[cacheId[level][task[t]]] = <<level, task[t]>>
    BY <2>1 DEF CacheInv, IdInv, Made, GridOf
  <2>3. factor' = [factor EXCEPT ![t] = factor'[t]] /\ DOMAIN factor' = Thread
    BY <1>1 DEF SolveGrid, CacheInv
  <2>4. ~GridOf(t).small => factor'[t] = <<level, task[t]>>
    BY <1>1, <2>2 DEF SolveGrid, CacheInv
  <2>5. ASSUME NEW u \in Thread, at'[u] = "write", ~GridOf(u)'.small
        PROVE  factor'[u] = <<level', task'[u]>>
    <3>1. level' = level /\ task' = task /\ ~GridOf(u).small
      BY <2>1, <2>5 DEF GridOf, GridsAt
    <3>2. CASE u = t
      BY <2>4, <3>1, <3>2
    <3>3. CASE u # t
      BY <2>1, <2>3, <2>5, <3>1, <3>3 DEF CacheInv, OwnFactor
    <3> QED BY <3>2, <3>3
  <2> QED BY <2>3, <2>5 DEF OwnFactor
<1>2. ASSUME NEW t \in Thread, TakeGrid(t) \/ Setup(t) \/ WritePoint(t) \/ EndGrid(t)
      PROVE  DOMAIN factor' = Thread /\ OwnFactor'
  <2>1. /\ level' = level /\ DOMAIN factor' = Thread
        /\ \A u \in Thread : at'[u] = "write" =>
             at[u] = "write" /\ task'[u] = task[u] /\ factor'[u] = factor[u]
    BY <1>2 DEF TakeGrid, Setup, WritePoint, EndGrid, Idle, CacheInv
  <2> QED BY <2>1 DEF CacheInv, OwnFactor, GridOf, GridsAt
<1>3. CASE Main
  <2>1. factor' = factor /\ at' = at /\ task' = task
    BY <1>3 DEF Main, EndSetupLevel, SolveCoarse, BeginSolve, EndSolve, UpdateResiduals, AddWeights,
                OrthogonalizeWeights, loopVars
  <2>2. level' = level \/ \A t \in Thread : at[t] = "idle"
    BY <1>3 DEF Main, EndSetupLevel, SolveCoarse, BeginSolve, EndSolve, UpdateResiduals, AddWeights,
                OrthogonalizeWeights, loopVars, LoopDone, Idle
  <2> QED BY <2>1, <2>2 DEF CacheInv, OwnFactor, GridOf, GridsAt
<1> QED BY <1>1, <1>2, <1>3 DEF RasNext, GridStep

LEMMA CacheStutter == RasAssumptions /\ CacheInv /\ UNCHANGED rasVars => CacheInv'
BY DEF rasVars, loopVars, CacheInv, IdInv, Made, OwnFactor, GridOf, GridIndex, GridsAt, Top

LEMMA NextCache ==
  ASSUME RasAssumptions, LoopInv, PlaceInv, CacheInv, [RasNext]_rasVars
  PROVE  CacheInv'
<1>1. RasNext => IdInv'
  BY SetupIds, OtherIds DEF CacheInv
<1> QED BY <1>1, NextFactor, CacheStutter DEF CacheInv

\* For any number of threads, in any schedule: while one thread writes its inner points
\* into the vector that all share, no other has any of them still to write; and a grid
\* solves with the factor of its own matrix, whatever the others put into the cache.
THEOREM GridsNeverMeet == ASSUME RasAssumptions PROVE RasSpec => []GridsApart
<1>1. LoopInv /\ PlaceInv /\ CacheInv /\ [RasNext]_rasVars => CacheInv'
  BY NextCache
<1>2. LoopInv /\ CacheInv => GridsApart
  BY LoopsApart DEF CacheInv, GridsApart
<1> QED BY <1>1, <1>2, InitCache, LoopsAlways, PTL DEF RasSpec

-----------------------------------------------------------------------------
\* A point of grid i of the level has been written, or is still to be.
Covered(i, p) ==
  \/ written[p] > 0
  \/ \E t \in Thread : /\ task[t] = i
                       /\ at[t] = "get" \/ (at[t] = "write" /\ p \in left[t])
WrittenInv ==
  phase = "apply" /\ level # None =>
    /\ written \in [Point -> Nat]
    /\ \A p \in Point : written[p] > 0 => p \in At(level)
    /\ \A i \in GridIndex(level) : i < next => \A p \in GridsAt(level)[i].inner : Covered(i, p)

LEMMA InitWritten == ASSUME RasAssumptions, RasInit PROVE WrittenInv
BY GridFacts DEF RasInit, WrittenInv

LEMMA ThreadWritten ==
  ASSUME RasAssumptions, LoopInv, PlaceInv, WrittenInv, NEW t \in Thread, GridStep(t)
  PROVE  WrittenInv'
<1> USE DEF LoopInv, Busy
<1>1. phase' = phase /\ level' = level
  BY DEF GridStep, TakeGrid, Setup, SolveGrid, WritePoint, EndGrid
<1> SUFFICES ASSUME phase = "apply", level # None
             PROVE  /\ written' \in [Point -> Nat]
                    /\ \A p \in Point : written'[p] > 0 => p \in At(level)
                    /\ \A i \in GridIndex(level) : i < next' =>
                         \A p \in GridsAt(level)[i].inner : Covered(i, p)'
  BY <1>1 DEF WrittenInv, GridIndex, GridsAt, At
<1>2. /\ written \in [Point -> Nat]
      /\ \A p \in Point : written[p] > 0 => p \in At(level)
      /\ \A i \in GridIndex(level) : i < next => \A p \in GridsAt(level)[i].inner : Covered(i, p)
  BY DEF WrittenInv
<1>3. level \in 1..Top
        /\ \A i \in GridIndex(level) : GridsAt(level)[i].inner \subseteq At(level) \cap Point
  BY GridFacts
<1>4. CASE TakeGrid(t)
  <2>1. /\ written' = written /\ left' = left /\ next' = next + 1 /\ at[t] = "idle"
        /\ at' = [at EXCEPT ![t] = "get"] /\ task' = [task EXCEPT ![t] = next]
    BY <1>4 DEF TakeGrid, Idle
  <2>2. at'[t] = "get" /\ task'[t] = next
    BY <2>1
  <2>3. \A u \in Thread : u # t => at'[u] = at[u] /\ task'[u] = task[u] /\ left'[u] = left[u]
    BY <2>1
  <2>4. ASSUME NEW i \in GridIndex(level), i < next', NEW p \in GridsAt(level)[i].inner
        PROVE  Covered(i, p)'
    <3>1. CASE i = next
      BY <2>2, <3>1 DEF Covered
    <3>2. CASE i < next
      <4>1. Covered(i, p)
        BY <1>2, <3>2
      <4> QED BY <2>1, <2>3, <4>1 DEF Covered
    <3> QED BY <2>1, <2>4, <3>1, <3>2 DEF GridIndex
  <2> QED BY <1>2, <2>1, <2>4
<1>5. CASE Setup(t)
  BY <1>5 DEF Setup
<1>6. CASE SolveGrid(t)
  <2>1. /\ written' = written /\ next' = next /\ task' = task /\ at[t] = "get"
        /\ at' = [at EXCEPT ![t] = "write"] /\ left' = [left EXCEPT ![t] = GridOf(t).inner]
    BY <1>6 DEF SolveGrid
  <2>2. at'[t] = "write" /\ left'[t] = GridsAt(level)[task[t]].inner
    BY <2>1 DEF GridOf
  <2>3. \A u \in Thread : u # t => at'[u] = at[u] /\ left'[u] = left[u]
    BY <2>1
  <2>4. ASSUME NEW i \in GridIndex(level), i < next', NEW p \in GridsAt(level)[i].inner
        PROVE  Covered(i, p)'
    <3>1. Covered(i, p)
      BY <1>2, <2>1, <2>4
    <3>2. CASE task[t] = i
      BY <2>1, <2>2, <2>4, <3>2 DEF Covered
    <3>3. CASE task[t] # i
      BY <2>1, <2>3, <3>1, <3>3 DEF Covered
    <3> QED BY <3>2, <3>3
  <2> QED BY <1>2, <2>1, <2>4
<1>7. CASE WritePoint(t)
  <2>1. PICK q \in left[t] : /\ left' = [left EXCEPT ![t] = left[t] \ {q}]
                             /\ written' = [written EXCEPT ![q] = written[q] + 1]
    BY <1>7 DEF WritePoint
  <2>2. /\ at[t] = "write" /\ next' = next /\ task' = task /\ at' = at
        /\ q \in At(level) \cap Point
    BY <1>3, <1>7 DEF WritePoint, GridOf
  <2>3. /\ written' \in [Point -> Nat] /\ written'[q] > 0
        /\ \A p \in Point : written'[p] > 0 => p = q \/ written[p] > 0
        /\ \A p \in Point : written[p] > 0 => written'[p] > 0
    BY <1>2, <2>1, <2>2
  <2>4. /\ left'[t] = left[t] \ {q}
        /\ \A u \in Thread : u # t => left'[u] = left[u]
    BY <2>1
  <2>5. ASSUME NEW i \in GridIndex(level), i < next', NEW p \in GridsAt(level)[i].inner
        PROVE  Covered(i, p)'
    <3>1. Covered(i, p) /\ p \in Point
      BY <1>2, <1>3, <2>2, <2>5
    <3> QED BY <2>2, <2>3, <2>4, <3>1 DEF Covered
  <2> QED BY <1>2, <2>2, <2>3, <2>5
<1>8. CASE EndGrid(t)
  <2>1. /\ written' = written /\ left' = left /\ next' = next /\ at[t] = "write" /\ left[t] = {}
        /\ at' = [at EXCEPT ![t] = "idle"] /\ task' = [task EXCEPT ![t] = 0]
    BY <1>8 DEF EndGrid
  <2>2. \A u \in Thread : u # t => at'[u] = at[u] /\ task'[u] = task[u]
    BY <2>1
  <2>3. ASSUME NEW i \in GridIndex(level), i < next', NEW p \in GridsAt(level)[i].inner
        PROVE  Covered(i, p)'
    <3>1. Covered(i, p)
      BY <1>2, <2>1, <2>3
    <3> QED BY <2>1, <2>2, <3>1 DEF Covered
  <2> QED BY <1>2, <2>1, <2>3
<1> QED BY <1>4, <1>5, <1>6, <1>7, <1>8 DEF GridStep

LEMMA MainWritten ==
  ASSUME RasAssumptions, LoopInv, PlaceInv, WrittenInv, Main
  PROVE  WrittenInv'
<1>1. CASE EndSetupLevel
  BY <1>1 DEF EndSetupLevel, WrittenInv
<1>2. CASE BeginSolve
  <2>1. written' = [p \in Point |-> 0] /\ next' = 1
    BY <1>2 DEF BeginSolve, Unwritten
  <2> QED BY <2>1 DEF WrittenInv, GridIndex
<1>3. CASE EndSolve
  BY <1>3 DEF EndSolve, WrittenInv
<1>4. CASE SolveCoarse \/ UpdateResiduals \/ AddWeights \/ OrthogonalizeWeights
  BY <1>4 DEF SolveCoarse, UpdateResiduals, AddWeights, OrthogonalizeWeights, loopVars,
              WrittenInv, Covered, GridIndex, GridsAt, At
<1> QED BY <1>1, <1>2, <1>3, <1>4 DEF Main

LEMMA NextWritten ==
  ASSUME RasAssumptions, LoopInv, PlaceInv, WrittenInv, [RasNext]_rasVars
  PROVE  WrittenInv'
<1>1. CASE UNCHANGED rasVars
  BY <1>1 DEF rasVars, loopVars, WrittenInv, Covered, GridIndex, GridsAt, At
<1> QED BY <1>1, ThreadWritten, MainWritten DEF RasNext

\* At the barrier every point of the level has been written and no other.
LEMMA AllWritten ==
  ASSUME RasAssumptions, LoopInv, WrittenInv, phase = "apply", LoopDone
  PROVE  {p \in Point : written[p] > 0} = At(level)
<1>1. /\ level \in 1..Top /\ Len(GridsAt(level)) \in Nat
      /\ next \in Nat /\ next > Len(GridsAt(level))
      /\ \A t \in Thread : at[t] = "idle"
  BY GridFacts DEF LoopInv, LoopDone, Idle
<1>2. ASSUME NEW p \in At(level) PROVE p \in Point /\ written[p] > 0
  <2>1. PICK i \in GridIndex(level) : p \in GridsAt(level)[i].inner
    BY <1>1, <1>2, GridFacts
  <2>2. i < next /\ p \in Point
    <3>1. p \in Point
      BY <1>1, <2>1, GridFacts
    <3> QED BY <1>1, <3>1 DEF GridIndex
  <2>3. Covered(i, p)
    BY <1>1, <2>1, <2>2 DEF WrittenInv, LoopDone
  <2> QED BY <1>1, <2>2, <2>3 DEF Covered
<1> QED BY <1>2 DEF WrittenInv, LoopDone

\* Every step is a step of the cycle or leaves it alone.
LEMMA NextImplements ==
  ASSUME RasAssumptions, LoopInv, PlaceInv, WrittenInv, [RasNext]_rasVars
  PROVE  [CycleNext]_cycleVars
<1>1. ASSUME NEW t \in Thread, GridStep(t) PROVE UNCHANGED cycleVars
  BY <1>1 DEF GridStep, TakeGrid, Setup, SolveGrid, WritePoint, EndGrid
<1>2. CASE EndSetupLevel \/ BeginSolve
  BY <1>2 DEF EndSetupLevel, BeginSolve
<1>3. CASE EndSolve
  <2>1. weights' = At(level) /\ level # None
    BY <1>3, AllWritten DEF EndSolve, LoopDone
  <2>2. cyclePc = "solve" /\ level = Now.level
    BY <1>3, <2>1 DEF EndSolve, PlaceInv
  <2>3. Solve
    BY <1>3, <2>1, <2>2 DEF EndSolve, Solve
  <2> QED BY <2>3 DEF CycleNext
<1>4. CASE SolveCoarse \/ UpdateResiduals \/ AddWeights \/ OrthogonalizeWeights
  BY <1>4 DEF SolveCoarse, UpdateResiduals, AddWeights, OrthogonalizeWeights, CycleNext
<1>5. CASE UNCHANGED rasVars
  BY <1>5 DEF rasVars
<1> QED BY <1>1, <1>2, <1>3, <1>4, <1>5 DEF RasNext, Main

\* Whatever the number of threads and however the grids are scheduled, the application
\* of the preconditioner is the sequence of whole corrections of MultilevelCycle.
THEOREM CycleImplemented == ASSUME RasAssumptions PROVE RasSpec => ImplementsCycle
<1>1. RasInit => CycleInit
  BY DEF RasInit
<1>2. LoopInv /\ PlaceInv /\ WrittenInv /\ [RasNext]_rasVars => WrittenInv' /\ [CycleNext]_cycleVars
  BY NextWritten, NextImplements
<1> QED BY <1>1, <1>2, InitWritten, LoopsAlways, PTL DEF RasSpec, CycleSpec, ImplementsCycle

\* So the residuals are exact wherever a level is solved by its grids, too.
THEOREM RasExact == ASSUME RasAssumptions PROVE RasSpec => []ResidualsExact
<1>1. LevelsAssumption
  BY DEF RasAssumptions, Assumptions
<1>2. CycleSpec => []ResidualsExact
  BY <1>1, Exact
<1> QED BY <1>2, CycleImplemented, PTL DEF ImplementsCycle

-----------------------------------------------------------------------------
(* FineGrid and CoarseGrid                                                  *)

\* Rows before k are packed, the others are stored.
Placed(m, k) ==
  \A r \in 0..(GridOrder - 1) : \A c \in 0..r :
    /\ r < k => m[Packed(r) + c] = <<r, c>>
    /\ r >= k => m[Stored(r) + c] = <<r, c>>

\* What each state of a grid has: of a fine one the packed factor is in the cache,
\* of a coarse one the factor stays in its storage.
GridInv ==
  /\ grid \in GridDomains /\ l \in BasisSizes /\ Mu >= l
  /\ gridPc \in {"setup", "pack", "ready", "unpack", "solve", "done"}
  /\ gridPc = "pack" => GridOrder > 0 /\ grid.fine /\ row \in 1..GridOrder /\ Placed(mem, row)
  /\ gridPc = "unpack" =>
       GridOrder > 0 /\ grid.fine /\ row \in 0..(GridOrder - 1) /\ Placed(mem, row + 1)
  /\ gridPc \in {"ready", "unpack", "solve", "done"} /\ GridOrder > 0 /\ grid.fine =>
       \A r \in 0..(GridOrder - 1) : \A c \in 0..r :
         Packed(r) + c \in DOMAIN blob /\ blob[Packed(r) + c] = <<r, c>>
  /\ gridPc \in {"ready", "solve", "done"} /\ GridOrder > 0 /\ ~grid.fine => Placed(mem, 1)
  /\ gridPc = "solve" /\ GridOrder > 0 => Placed(mem, 1)
  /\ gridPc \in {"unpack", "solve"} =>
       values = [k \in 0..(GridSize - 1) |-> ReadPosition(k)] /\ gridWeights = NoWeights
  /\ SolutionInPlace

-----------------------------------------------------------------------------
\* A product grows with its factors.
LEMMA ProductGrows ==
  ASSUME NEW a \in Nat, NEW b \in Nat, NEW c \in Nat, NEW d \in Nat, a <= b, c <= d
  PROVE  a * c <= b * d /\ a * c \in Nat /\ b * d \in Nat
  <1>1. PICK x \in Nat : b = a + x
    <2>1. b - a \in Nat /\ b = a + (b - a)
      OBVIOUS
    <2>. QED BY <2>1
  <1>2. PICK y \in Nat : d = c + y
    <2>1. d - c \in Nat /\ d = c + (d - c)
      OBVIOUS
    <2>. QED BY <2>1
  <1>3. b * d = a * c + a * y + x * c + x * y
    BY <1>1, <1>2
  <1>4. a * c \in Nat /\ a * y \in Nat /\ x * c \in Nat /\ x * y \in Nat
    OBVIOUS
  <1>. QED BY <1>3, <1>4

\* The place of a packed row: after the rows of 1, 2, ... entries before it.
LEMMA PackedPlace ==
  ASSUME NEW r \in Nat
  PROVE  Packed(r) \in Nat /\ 2 * Packed(r) = r * (r + 1)
  <1>1. PICK k \in Nat : r = 2 * k \/ r = 2 * k + 1
    <2>1. r \div 2 \in Nat /\ (r = 2 * (r \div 2) \/ r = 2 * (r \div 2) + 1)
      OBVIOUS
    <2>. QED BY <2>1
  <1>2. PICK h \in Nat : r * (r + 1) = 2 * h
    <2>1. CASE r = 2 * k
      <3>1. r * (r + 1) = 2 * (k * (r + 1)) /\ k * (r + 1) \in Nat
        BY <2>1
      <3>. QED BY <3>1
    <2>2. CASE r = 2 * k + 1
      <3>1. r * (r + 1) = 2 * (r * (k + 1)) /\ r * (k + 1) \in Nat
        BY <2>2
      <3>. QED BY <3>1
    <2>. QED BY <1>1, <2>1, <2>2
  <1>3. (2 * h) \div 2 = h
    OBVIOUS
  <1>. QED BY <1>2, <1>3 DEF Packed

\* A packed row ends before the packed rows that follow it.
LEMMA PackedApart ==
  ASSUME NEW r \in Nat, NEW s \in Nat, r < s
  PROVE  Packed(r) + r < Packed(s)
  <1>1. 2 * Packed(r) = r * (r + 1) /\ 2 * Packed(s) = s * (s + 1) /\ Packed(r) \in Nat
          /\ Packed(s) \in Nat
    BY PackedPlace
  <1>2. (r + 1) * (r + 2) <= s * (s + 1)
    BY ProductGrows
  <1>3. (r + 1) * (r + 2) = r * (r + 1) + 2 * (r + 1)
    OBVIOUS
  <1>4. r * (r + 1) \in Nat /\ s * (s + 1) \in Nat
    OBVIOUS
  <1>. QED BY <1>1, <1>2, <1>3, <1>4

\* A stored row ends before the stored rows that follow it, and within the storage.
LEMMA StoredApart ==
  ASSUME GridOrder \in Nat, NEW r \in Nat, NEW s \in Nat, r < s, s <= GridOrder
  PROVE  /\ Stored(r) \in Nat /\ Stored(s) \in Nat
         /\ Stored(r) + r < Stored(s) /\ Stored(s) <= GridOrder * GridOrder
  <1> DEFINE n == GridOrder
  <1> HIDE DEF n
  <1>1. n \in Nat /\ s <= n
    BY DEF n
  <1>2. (r + 1) * n <= s * n /\ s * n <= n * n /\ (r + 1) * n \in Nat /\ s * n \in Nat
    BY <1>1, ProductGrows
  <1>3. (r + 1) * n = r * n + n /\ r * n \in Nat
    BY <1>1
  <1>. QED BY <1>1, <1>2, <1>3 DEF Stored, n

\* No row is packed to after where it is stored.
LEMMA PackedFirst ==
  ASSUME GridOrder \in Nat, NEW r \in Nat, r <= GridOrder, GridOrder > 0
  PROVE  Packed(r) \in Nat /\ Stored(r) \in Nat /\ Packed(r) <= Stored(r)
  <1> DEFINE n == GridOrder
  <1> HIDE DEF n
  <1>1. n \in Nat /\ r <= n /\ n > 0
    BY DEF n
  <1>2. 2 * Packed(r) = r * (r + 1) /\ Packed(r) \in Nat
    BY PackedPlace
  <1>3. r + 1 <= 2 * n
    BY <1>1
  <1>4. r * (r + 1) <= r * (2 * n)
    BY <1>1, <1>3, ProductGrows
  <1>5. r * (2 * n) = 2 * (r * n) /\ r * n \in Nat
    BY <1>1
  <1>. QED BY <1>2, <1>4, <1>5 DEF Stored, n

\* Packing and unpacking move a row with memcpy.  Where the row is read from and where it
\* is written to have no entry in common, unless the order is 2.
LEMMA CopiesApart ==
  ASSUME GridOrder \in Nat, GridOrder # 2, NEW r \in 1..(GridOrder - 1)
  PROVE  Packed(r) + r < Stored(r)
  <1> DEFINE n == GridOrder
  <1> HIDE DEF n
  <1>1. n \in Nat /\ r \in Nat /\ 1 <= r /\ r + 1 <= n /\ n >= 3
    BY DEF n
  <1>2. 2 * Packed(r) = r * (r + 1) /\ Packed(r) \in Nat
    BY PackedPlace
  <1>3. r + 4 <= 2 * n
    BY <1>1
  <1>4. r * (r + 4) <= r * (2 * n)
    BY <1>1, <1>3, ProductGrows
  <1>5. r * (r + 4) = r * (r + 1) + 3 * r /\ r * (2 * n) = 2 * (r * n) /\ r * n \in Nat
    BY <1>1
  <1>. QED BY <1>1, <1>2, <1>4, <1>5 DEF Stored, n

\* Where the rows are when a place p of n entries has been written from a place q.
LEMMA CopiedAt ==
  ASSUME NEW p \in Nat, NEW q \in Nat, NEW n \in Nat, NEW a \in Nat, a \in Cells,
         NEW new, new = Copied(p, q, n)
  PROVE  /\ a < p \/ a >= p + n => new[a] = mem[a]
         /\ a >= p /\ a < p + n => new[a] = mem[q + (a - p)]
  <1>1. a \in p..(p + n - 1) <=> a >= p /\ a < p + n
    OBVIOUS
  <1>2. a - p + q = q + (a - p)
    OBVIOUS
  <1>. QED BY <1>1, <1>2 DEF Copied

\* The places of an entry of the factor, both within the storage.
LEMMA PlacesInStorage ==
  ASSUME GridOrder \in Nat, GridOrder > 0, NEW r \in 0..(GridOrder - 1), NEW c \in 0..r
  PROVE  /\ r \in Nat /\ c \in Nat /\ Packed(r) \in Nat /\ Stored(r) \in Nat
         /\ Packed(r) + c \in Cells /\ Stored(r) + c \in Cells
         /\ Packed(r) + c \in 0..(Packed(GridOrder) - 1)
  <1>1. r \in Nat /\ c \in Nat /\ c <= r /\ r < GridOrder
    OBVIOUS
  <1>2. /\ Stored(GridOrder) \in Nat /\ Stored(r) \in Nat /\ Stored(r) + r < Stored(GridOrder)
        /\ Stored(GridOrder) <= GridOrder * GridOrder
    BY <1>1, StoredApart
  <1>3. Packed(r) \in Nat /\ Packed(r) <= Stored(r)
    BY <1>1, PackedFirst
  <1>4. Packed(GridOrder) \in Nat /\ Packed(r) + r < Packed(GridOrder)
    BY <1>1, PackedApart, PackedPlace
  <1> DEFINE nn == GridOrder * GridOrder
  <1>5. nn \in Nat
    OBVIOUS
  <1> HIDE DEF nn
  <1>. QED BY <1>1, <1>2, <1>3, <1>4, <1>5 DEF Cells, nn

\* Packing the next row leaves the packed rows before it and the stored rows after it.
LEMMA PackRowPlaces ==
  ASSUME GridOrder \in Nat, NEW k \in 1..(GridOrder - 1), Placed(mem, k)
  PROVE  Placed(Copied(Packed(k), Stored(k), k + 1), k + 1)
  <1> DEFINE new == Copied(Packed(k), Stored(k), k + 1)
  <1> SUFFICES ASSUME NEW r \in 0..(GridOrder - 1), NEW c \in 0..r
               PROVE  /\ r < k + 1 => new[Packed(r) + c] = <<r, c>>
                      /\ r >= k + 1 => new[Stored(r) + c] = <<r, c>>
    BY DEF Placed
  <1>1. /\ r \in Nat /\ c \in Nat /\ Packed(r) \in Nat /\ Stored(r) \in Nat
        /\ Packed(r) + c \in Cells /\ Stored(r) + c \in Cells
    BY PlacesInStorage
  <1>2. k \in Nat /\ k < GridOrder /\ c <= r /\ k + 1 \in Nat
    OBVIOUS
  <1>3. Packed(k) \in Nat /\ Stored(k) \in Nat /\ Packed(k) <= Stored(k)
    BY <1>2, PackedFirst
  <1>7. ASSUME NEW a \in Nat, a \in Cells
        PROVE  /\ a < Packed(k) \/ a >= Packed(k) + (k + 1) => new[a] = mem[a]
               /\ a >= Packed(k) /\ a < Packed(k) + (k + 1)
                    => new[a] = mem[Stored(k) + (a - Packed(k))]
    <2>1. PICK p \in Nat, q \in Nat, n \in Nat : p = Packed(k) /\ q = Stored(k) /\ n = k + 1
      BY <1>2, <1>3
    <2>2. p \in Nat /\ q \in Nat /\ n \in Nat /\ a \in Nat /\ a \in Cells /\ new = Copied(p, q, n)
      BY <1>7, <2>1
    <2> HIDE DEF new
    <2>3. /\ a < p \/ a >= p + n => new[a] = mem[a]
          /\ a >= p /\ a < p + n => new[a] = mem[q + (a - p)]
      BY <2>2, CopiedAt
    <2>. QED BY <2>1, <2>3
  <1>8. Packed(r) + c \in Nat /\ Stored(r) + c \in Nat
    BY <1>1
  <1> HIDE DEF new
  <1>4. CASE r < k
    <2>1. Packed(r) + r < Packed(k)
      BY <1>1, <1>2, <1>4, PackedApart
    <2>2. Packed(r) + c < Packed(k)
      BY <2>1, <1>1, <1>2, <1>3
    <2>3. new[Packed(r) + c] = mem[Packed(r) + c]
      BY <2>2, <1>1, <1>3, <1>7, <1>8
    <2>. QED BY <2>3, <1>1, <1>2, <1>4 DEF Placed
  <1>5. CASE r = k
    <2>1. Packed(r) + c >= Packed(k) /\ Packed(r) + c < Packed(k) + (k + 1)
      BY <1>1, <1>2, <1>3, <1>5
    <2>2. new[Packed(r) + c] = mem[Stored(k) + (Packed(r) + c - Packed(k))]
      BY <2>1, <1>1, <1>3, <1>7, <1>8
    <2>3. Packed(r) + c - Packed(k) = c
      BY <1>1, <1>5
    <2>. QED BY <2>2, <2>3, <1>1, <1>2, <1>5 DEF Placed
  <1>6. CASE r > k
    <2>1. Stored(k) + k < Stored(r)
      BY <1>1, <1>2, <1>6, StoredApart
    <2>2. Stored(r) + c >= Packed(k) + (k + 1)
      BY <2>1, <1>1, <1>2, <1>3
    <2>3. new[Stored(r) + c] = mem[Stored(r) + c]
      BY <2>2, <1>1, <1>3, <1>7, <1>8
    <2>. QED BY <2>3, <1>1, <1>2, <1>6 DEF Placed
  <1>. QED BY <1>1, <1>2, <1>4, <1>5, <1>6

\* Unpacking the last packed row leaves the packed rows before it and the stored ones after it.
LEMMA UnpackRowPlaces ==
  ASSUME GridOrder \in Nat, NEW k \in 1..(GridOrder - 1), Placed(mem, k + 1)
  PROVE  Placed(Copied(Stored(k), Packed(k), k + 1), k)
  <1> DEFINE new == Copied(Stored(k), Packed(k), k + 1)
  <1> SUFFICES ASSUME NEW r \in 0..(GridOrder - 1), NEW c \in 0..r
               PROVE  /\ r < k => new[Packed(r) + c] = <<r, c>>
                      /\ r >= k => new[Stored(r) + c] = <<r, c>>
    BY DEF Placed
  <1>1. /\ r \in Nat /\ c \in Nat /\ Packed(r) \in Nat /\ Stored(r) \in Nat
        /\ Packed(r) + c \in Cells /\ Stored(r) + c \in Cells
    BY PlacesInStorage
  <1>2. k \in Nat /\ k < GridOrder /\ c <= r /\ k + 1 \in Nat
    OBVIOUS
  <1>3. Packed(k) \in Nat /\ Stored(k) \in Nat /\ Packed(k) <= Stored(k)
    BY <1>2, PackedFirst
  <1>7. ASSUME NEW a \in Nat, a \in Cells
        PROVE  /\ a < Stored(k) \/ a >= Stored(k) + (k + 1) => new[a] = mem[a]
               /\ a >= Stored(k) /\ a < Stored(k) + (k + 1)
                    => new[a] = mem[Packed(k) + (a - Stored(k))]
    <2>1. PICK p \in Nat, q \in Nat, n \in Nat : p = Stored(k) /\ q = Packed(k) /\ n = k + 1
      BY <1>2, <1>3
    <2>2. p \in Nat /\ q \in Nat /\ n \in Nat /\ a \in Nat /\ a \in Cells /\ new = Copied(p, q, n)
      BY <1>7, <2>1
    <2> HIDE DEF new
    <2>3. /\ a < p \/ a >= p + n => new[a] = mem[a]
          /\ a >= p /\ a < p + n => new[a] = mem[q + (a - p)]
      BY <2>2, CopiedAt
    <2>. QED BY <2>1, <2>3
  <1>8. Packed(r) + c \in Nat /\ Stored(r) + c \in Nat
    BY <1>1
  <1> HIDE DEF new
  <1>4. CASE r < k
    <2>1. Packed(r) + r < Packed(k)
      BY <1>1, <1>2, <1>4, PackedApart
    <2>2. Packed(r) + c < Stored(k)
      BY <2>1, <1>1, <1>2, <1>3
    <2>3. new[Packed(r) + c] = mem[Packed(r) + c]
      BY <2>2, <1>1, <1>3, <1>7, <1>8
    <2>. QED BY <2>3, <1>1, <1>2, <1>4 DEF Placed
  <1>5. CASE r = k
    <2>1. Stored(r) + c >= Stored(k) /\ Stored(r) + c < Stored(k) + (k + 1)
      BY <1>1, <1>2, <1>3, <1>5
    <2>2. new[Stored(r) + c] = mem[Packed(k) + (Stored(r) + c - Stored(k))]
      BY <2>1, <1>1, <1>3, <1>7, <1>8
    <2>3. Stored(r) + c - Stored(k) = c
      BY <1>1, <1>5
    <2>. QED BY <2>2, <2>3, <1>1, <1>2, <1>5 DEF Placed
  <1>6. CASE r > k
    <2>1. Stored(k) + k < Stored(r)
      BY <1>1, <1>2, <1>6, StoredApart
    <2>2. Stored(r) + c >= Stored(k) + (k + 1)
      BY <2>1, <1>1, <1>2, <1>3
    <2>3. new[Stored(r) + c] = mem[Stored(r) + c]
      BY <2>2, <1>1, <1>3, <1>7, <1>8
    <2>. QED BY <2>3, <1>1, <1>2, <1>6 DEF Placed
  <1>. QED BY <1>1, <1>2, <1>4, <1>5, <1>6

\* An entry of row r and column c of the storage is where the factorization put it.
LEMMA FactorAt ==
  ASSUME GridOrder \in Nat, GridOrder > 0, NEW r \in 0..(GridOrder - 1), NEW c \in 0..r
  PROVE  Factor[Stored(r) + c] = <<r, c>>
  <1> DEFINE n == GridOrder
             a == Stored(r) + c
             q == a \div n
             m == a % n
  <1>1. n \in Nat /\ n > 0 /\ r \in Nat /\ c \in Nat /\ c <= r /\ r < n /\ a \in Cells /\ a \in Nat
    BY PlacesInStorage
  <1>2. a = r * n + c
    BY DEF Stored
  <1> HIDE DEF n, a
  <1>3. q \in Nat /\ m \in 0..(n - 1) /\ a = n * q + m
    BY <1>1
  <1> HIDE DEF q, m
  <1>4. ~(q < r)
    <2>1. SUFFICES ASSUME q < r PROVE FALSE
      OBVIOUS
    <2>2. n * (q + 1) <= n * r
      BY <1>1, <1>3, <2>1, ProductGrows
    <2>3. n * (q + 1) = n * q + n /\ n * r = r * n /\ n * q \in Nat /\ n * r \in Nat
      BY <1>1, <1>3
    <2>. QED BY <1>1, <1>2, <1>3, <2>2, <2>3
  <1>5. ~(r < q)
    <2>1. SUFFICES ASSUME r < q PROVE FALSE
      OBVIOUS
    <2>2. n * (r + 1) <= n * q
      BY <1>1, <1>3, <2>1, ProductGrows
    <2>3. n * (r + 1) = r * n + n /\ n * q \in Nat /\ r * n \in Nat
      BY <1>1, <1>3
    <2>. QED BY <1>1, <1>2, <1>3, <2>2, <2>3
  <1>6. q = r
    BY <1>1, <1>3, <1>4, <1>5
  <1>7. m = c
    <2>1. n * q = r * n /\ r * n \in Nat
      BY <1>1, <1>6
    <2>. QED BY <1>1, <1>2, <1>3, <2>1
  <1>8. Factor[a] = IF m <= q THEN <<q, m>> ELSE Junk
    BY <1>1 DEF Factor, n, q, m
  <1>. QED BY <1>1, <1>6, <1>7, <1>8 DEF a

-----------------------------------------------------------------------------
\* The sizes of a grid are natural numbers.
LEMMA GridSizes ==
  ASSUME grid \in GridDomains, l \in BasisSizes, Mu >= l
  PROVE  /\ Mu \in Nat /\ Len(grid.grads) \in Nat /\ Components \in 1..3
         /\ GridSize \in Nat /\ GridSize = Mu + Components * Len(grid.grads)
         /\ GridOrder \in Nat
  <1>1. Mu \in Nat /\ Len(grid.grads) \in Nat
    BY GridDomainsAssumption DEF Mu
  <1>2. l \in Nat
    BY SizesAssumption
  <1> DEFINE g == Len(grid.grads)
             mu == Mu
  <1>3. GridSize = mu + Components * g
    BY DEF GridSize
  <1>4. GridOrder = GridSize - l
    BY DEF GridOrder
  <1> HIDE DEF g, mu
  <1>5. g \in Nat /\ mu \in Nat /\ mu >= l
    BY <1>1 DEF g, mu
  <1>6. Components * g \in Nat
    BY <1>5, ComponentsAssumption
  <1>7. GridSize \in Nat /\ GridOrder \in Nat
    BY <1>2, <1>3, <1>4, <1>5, <1>6
  <1>. QED BY <1>1, <1>3, <1>7, ComponentsAssumption DEF g, mu

\* The i-th gradient's component j, as a position of the grid's own vectors.
LEMMA GradPosition ==
  ASSUME NEW m \in Nat, NEW n \in Nat, NEW i \in 1..n, NEW j \in 0..(Components - 1)
  PROVE  LET k == m + Components * (i - 1) + j
         IN  /\ k \in 0..(m + Components * n - 1) /\ ~(k < m)
             /\ (k - m) \div Components + 1 = i /\ (k - m) % Components = j
  <1>1. Components = 1 \/ Components = 2 \/ Components = 3
    BY ComponentsAssumption
  <1>2. CASE Components = 1
    BY <1>2
  <1>3. CASE Components = 2
    BY <1>3
  <1>4. CASE Components = 3
    BY <1>4
  <1>. QED BY <1>1, <1>2, <1>3, <1>4

\* A position of the grid's own vectors behind those of its points is one of a gradient.
LEMMA PositionOfGrad ==
  ASSUME NEW m \in Nat, NEW n \in Nat, NEW k \in 0..(m + Components * n - 1), ~(k < m)
  PROVE  (k - m) \div Components + 1 \in 1..n /\ (k - m) % Components \in 0..(Components - 1)
  <1>1. Components = 1 \/ Components = 2 \/ Components = 3
    BY ComponentsAssumption
  <1>2. CASE Components = 1
    BY <1>2
  <1>3. CASE Components = 2
    BY <1>3
  <1>4. CASE Components = 3
    BY <1>4
  <1>. QED BY <1>1, <1>2, <1>3, <1>4

\* The positions that set_solution_to goes through are those the grid is to write.
LEMMA OwnIsWritten ==
  ASSUME grid \in GridDomains, l \in BasisSizes, Mu >= l, NEW p
  PROVE  p \in OwnPositions <=> \E k \in 0..(GridSize - 1) : Writes(k) /\ WritePosition(k) = p
  <1> DEFINE n == Len(grid.grads)
  <1>1. /\ Mu \in Nat /\ n \in Nat /\ Components \in 1..3 /\ GridSize \in Nat
        /\ GridSize = Mu + Components * n
    BY GridSizes
  <1>2. Components * n \in Nat
    BY <1>1
  <1>3. ASSUME NEW i \in 1..Mu, grid.innerPoint[i] \/ ~grid.fine
        PROVE  \E k \in 0..(GridSize - 1) : Writes(k) /\ WritePosition(k) = grid.points[i]
    <2>1. i - 1 \in 0..(GridSize - 1) /\ i - 1 < Mu /\ (i - 1) + 1 = i
      BY <1>1, <1>2
    <2>2. Writes(i - 1) /\ WritePosition(i - 1) = grid.points[i]
      BY <2>1, <1>3 DEF Writes, WritePosition, OfPoint
    <2>. QED BY <2>1, <2>2
  <1>4. ASSUME NEW i \in 1..n, grid.innerGrad[i] \/ ~grid.fine, NEW j \in 0..(Components - 1)
        PROVE  \E k \in 0..(GridSize - 1) :
                 Writes(k) /\ WritePosition(k) = MuFull + Components * grid.grads[i] + j
    <2> DEFINE k == Mu + Components * (i - 1) + j
    <2>1. /\ k \in 0..(Mu + Components * n - 1) /\ ~(k < Mu)
          /\ (k - Mu) \div Components + 1 = i /\ (k - Mu) % Components = j
      BY <1>1, GradPosition
    <2> HIDE DEF k
    <2>2. Writes(k)
      BY <2>1, <1>4 DEF Writes, OfPoint
    <2>3. WritePosition(k) = MuFull + Components * grid.grads[i] + j
      BY <2>1 DEF WritePosition, OfPoint, Grad, Component
    <2>. QED BY <1>1, <2>1, <2>2, <2>3
  <1>5. ASSUME NEW k \in 0..(GridSize - 1), Writes(k)
        PROVE  WritePosition(k) \in OwnPositions
    <2>1. CASE k < Mu
      <3>1. k + 1 \in 1..Mu
        BY <2>1, <1>1
      <3>2. grid.innerPoint[k + 1] \/ ~grid.fine
        BY <1>5, <2>1 DEF Writes, OfPoint
      <3>3. WritePosition(k) = grid.points[k + 1]
        BY <2>1 DEF WritePosition, OfPoint
      <3>. QED BY <3>1, <3>2, <3>3 DEF OwnPositions, Chosen, Mu
    <2>2. CASE ~(k < Mu)
      <3> DEFINE i == (k - Mu) \div Components + 1
                 j == (k - Mu) % Components
      <3>1. i \in 1..n /\ j \in 0..(Components - 1)
        BY <1>1, <2>2, PositionOfGrad
      <3>2. grid.innerGrad[i] \/ ~grid.fine
        BY <1>5, <2>2 DEF Writes, OfPoint
      <3>3. WritePosition(k) = MuFull + Components * grid.grads[i] + j
        BY <2>2 DEF WritePosition, OfPoint, Grad, Component
      <3> HIDE DEF i, j
      <3>4. grid.grads[i] \in Chosen(grid.grads, grid.innerGrad)
        BY <3>1, <3>2 DEF Chosen
      <3>. QED BY <3>1, <3>3, <3>4 DEF OwnPositions
    <2>. QED BY <2>1, <2>2
  <1>6. ASSUME p \in OwnPositions
        PROVE  \E k \in 0..(GridSize - 1) : Writes(k) /\ WritePosition(k) = p
    <2>1. CASE p \in Chosen(grid.points, grid.innerPoint)
      <3>1. PICK i \in 1..Mu : (grid.innerPoint[i] \/ ~grid.fine) /\ p = grid.points[i]
        BY <2>1 DEF Chosen, Mu
      <3>. QED BY <3>1, <1>3
    <2>2. CASE p \notin Chosen(grid.points, grid.innerPoint)
      <3>1. PICK g \in Chosen(grid.grads, grid.innerGrad), j \in 0..(Components - 1) :
              p = MuFull + Components * g + j
        BY <1>6, <2>2 DEF OwnPositions
      <3>2. PICK i \in 1..n : (grid.innerGrad[i] \/ ~grid.fine) /\ g = grid.grads[i]
        BY <3>1 DEF Chosen
      <3>. QED BY <3>1, <3>2, <1>4
    <2>. QED BY <2>1, <2>2
  <1>. QED BY <1>5, <1>6

\* A solution is written to the position its value was read from.
LEMMA WrittenWhereRead == \A k : WritePosition(k) = ReadPosition(k)
  BY DEF WritePosition, ReadPosition

LEMMA GridInvInit == GridInit => GridInv
  BY DEF GridInit, GridInv, SolutionInPlace

LEMMA GridInvNext == GridInv /\ [GridNext]_gridVars => GridInv'
  <1> SUFFICES ASSUME GridInv, [GridNext]_gridVars PROVE GridInv'
    OBVIOUS
  <1>1. grid \in GridDomains /\ l \in BasisSizes /\ Mu >= l /\ GridOrder \in Nat
    BY GridSizes DEF GridInv
  <1>2. CASE SetupGrid
    <2>1. /\ gridPc = "setup" /\ grid' = grid /\ l' = l /\ row' = 1
          /\ GridOrder > 0 => mem' = Factor
          /\ gridPc' = IF GridOrder > 0 /\ grid.fine THEN "pack" ELSE "ready"
      BY <1>2 DEF SetupGrid
    <2>2. ASSUME GridOrder > 0 PROVE Placed(mem, 1)'
      <3>1. \A r \in 0..(GridOrder - 1) : \A c \in 0..r : mem'[Stored(r) + c] = <<r, c>>
        BY <1>1, <2>1, <2>2, FactorAt
      <3>2. Packed(0) = 0 /\ Stored(0) = 0
        BY <1>1 DEF Packed, Stored
      <3>3. ASSUME NEW r \in 0..(GridOrder - 1), NEW c \in 0..r
            PROVE  /\ r < 1 => mem'[Packed(r) + c] = <<r, c>>
                   /\ mem'[Stored(r) + c] = <<r, c>>
        <4>1. r < 1 => r = 0
          BY <1>1
        <4>. QED BY <3>1, <3>2, <4>1
      <3>4. GridOrder' = GridOrder
        BY <2>1 DEF GridOrder, GridSize, Mu
      <3>. QED BY <3>3, <3>4 DEF Placed, Stored, Packed
    <2>. QED BY <1>1, <2>1, <2>2 DEF GridInv, GridOrder, GridSize, Mu, SolutionInPlace
  <1>3. CASE PackRow
    <2>1. /\ gridPc = "pack" /\ row < GridOrder /\ row' = row + 1
          /\ mem' = Copied(Packed(row), Stored(row), row + 1)
          /\ UNCHANGED <<grid, l, blob, values, gridWeights, gridPc>>
      BY <1>3 DEF PackRow
    <2>2. GridOrder > 0 /\ grid.fine /\ row \in 1..(GridOrder - 1) /\ Placed(mem, row)
      BY <1>1, <2>1 DEF GridInv
    <2>3. Placed(Copied(Packed(row), Stored(row), row + 1), row + 1)
      BY <1>1, <2>2, PackRowPlaces
    <2>4. Placed(mem, row)'
      BY <2>1, <2>3 DEF Placed, GridOrder, GridSize, Mu, Stored, Packed
    <2>5. row' \in 1..GridOrder
      BY <1>1, <2>1, <2>2
    <2>. QED BY <1>1, <2>1, <2>2, <2>4, <2>5
         DEF GridInv, GridOrder, GridSize, Mu, SolutionInPlace
  <1>4. CASE Put
    <2>1. /\ gridPc = "pack" /\ row >= GridOrder /\ gridPc' = "ready"
          /\ blob' = [a \in 0..(Packed(GridOrder) - 1) |-> mem[a]]
          /\ UNCHANGED <<grid, l, rows, row, values, gridWeights>>
      BY <1>4 DEF Put
    <2>2. GridOrder > 0 /\ grid.fine /\ row \in 1..GridOrder /\ Placed(mem, row)
      BY <2>1 DEF GridInv
    <2>3. ASSUME NEW r \in 0..(GridOrder - 1), NEW c \in 0..r
          PROVE  Packed(r) + c \in DOMAIN blob' /\ blob'[Packed(r) + c] = <<r, c>>
      <3>1. Packed(r) + c \in 0..(Packed(GridOrder) - 1)
        BY <1>1, <2>2, PlacesInStorage
      <3>2. r < row
        BY <1>1, <2>1, <2>2
      <3>. QED BY <2>1, <2>2, <3>1, <3>2 DEF Placed
    <2>. QED BY <1>1, <2>1, <2>2, <2>3
         DEF GridInv, GridOrder, GridSize, Mu, SolutionInPlace, Packed
  <1>5. CASE ReadValues
    <2>1. /\ gridPc \in {"ready", "done"} /\ UNCHANGED <<grid, l, rows, blob>>
          /\ values' = [k \in 0..(GridSize - 1) |-> ReadPosition(k)] /\ gridWeights' = NoWeights
      BY <1>5 DEF ReadValues
    <2>2. (values = [k \in 0..(GridSize - 1) |-> ReadPosition(k)] /\ gridWeights = NoWeights)'
      BY <2>1 DEF GridSize, Mu, ReadPosition, OfPoint, Grad, Component, NoWeights
    <2>3. CASE GridOrder > 0 /\ grid.fine
      <3>1. /\ mem' = [a \in Cells |-> IF a \in DOMAIN blob THEN blob[a] ELSE Junk]
            /\ row' = GridOrder - 1 /\ gridPc' = "unpack"
        BY <1>5, <2>3 DEF ReadValues
      <3>2. ASSUME NEW r \in 0..(GridOrder - 1), NEW c \in 0..r
            PROVE  mem'[Packed(r) + c] = <<r, c>>
        <4>1. Packed(r) + c \in Cells
          BY <1>1, <2>3, PlacesInStorage
        <4>2. Packed(r) + c \in DOMAIN blob /\ blob[Packed(r) + c] = <<r, c>>
          BY <2>1, <2>3 DEF GridInv
        <4>. QED BY <3>1, <4>1, <4>2
      <3>3. \A r \in 0..(GridOrder - 1) : r < row' + 1 /\ ~(r >= row' + 1)
        BY <1>1, <3>1
      <3>4. Placed(mem, row + 1)'
        BY <2>1, <3>2, <3>3 DEF Placed, GridOrder, GridSize, Mu, Stored, Packed
      <3>5. row' \in 0..(GridOrder - 1)
        BY <1>1, <2>3, <3>1
      <3>. QED BY <1>1, <2>1, <2>2, <2>3, <3>1, <3>4, <3>5
           DEF GridInv, GridOrder, GridSize, Mu, SolutionInPlace, Packed
    <2>4. CASE ~(GridOrder > 0 /\ grid.fine)
      <3>1. mem' = mem /\ row' = row /\ gridPc' = "solve"
        BY <1>5, <2>4 DEF ReadValues
      <3>2. GridOrder > 0 => ~grid.fine /\ Placed(mem, 1)
        BY <2>1, <2>4 DEF GridInv
      <3>3. (GridOrder > 0 => ~grid.fine /\ Placed(mem, 1))'
        BY <2>1, <3>1, <3>2 DEF Placed, GridOrder, GridSize, Mu, Stored, Packed
      <3>. QED BY <1>1, <2>1, <2>2, <2>4, <3>1, <3>2, <3>3
           DEF GridInv, GridOrder, GridSize, Mu, SolutionInPlace
    <2>. QED BY <2>3, <2>4
  <1>6. CASE UnpackRow
    <2>1. /\ gridPc = "unpack" /\ row >= 1 /\ row' = row - 1
          /\ mem' = Copied(Stored(row), Packed(row), row + 1)
          /\ UNCHANGED <<grid, l, rows, blob, values, gridWeights, gridPc>>
      BY <1>6 DEF UnpackRow
    <2>2. GridOrder > 0 /\ grid.fine /\ row \in 1..(GridOrder - 1) /\ Placed(mem, row + 1)
      BY <1>1, <2>1 DEF GridInv
    <2>3. Placed(Copied(Stored(row), Packed(row), row + 1), row)
      BY <1>1, <2>2, UnpackRowPlaces
    <2>4. row' + 1 = row /\ row' \in 0..(GridOrder - 1)
      BY <1>1, <2>1, <2>2
    <2>5. Placed(mem, row + 1)'
      BY <2>1, <2>3, <2>4 DEF Placed, GridOrder, GridSize, Mu, Stored, Packed
    <2>6. (values = [k \in 0..(GridSize - 1) |-> ReadPosition(k)] /\ gridWeights = NoWeights)'
      BY <2>1 DEF GridInv, GridSize, Mu, ReadPosition, OfPoint, Grad, Component, NoWeights
    <2>. QED BY <1>1, <2>1, <2>2, <2>4, <2>5, <2>6
         DEF GridInv, GridOrder, GridSize, Mu, SolutionInPlace, Packed
  <1>7. CASE EndUnpack
    <2>1. /\ gridPc = "unpack" /\ row < 1 /\ gridPc' = "solve"
          /\ UNCHANGED <<grid, l, rows, mem, blob, row, values, gridWeights>>
      BY <1>7 DEF EndUnpack
    <2>2. GridOrder > 0 /\ grid.fine /\ row + 1 = 1 /\ Placed(mem, row + 1)
      BY <1>1, <2>1 DEF GridInv
    <2>3. Placed(mem, 1)'
      BY <2>1, <2>2 DEF Placed, GridOrder, GridSize, Mu, Stored, Packed
    <2>4. (values = [k \in 0..(GridSize - 1) |-> ReadPosition(k)] /\ gridWeights = NoWeights)'
      BY <2>1 DEF GridInv, GridSize, Mu, ReadPosition, OfPoint, Grad, Component, NoWeights
    <2>. QED BY <1>1, <2>1, <2>2, <2>3, <2>4
         DEF GridInv, GridOrder, GridSize, Mu, SolutionInPlace, Packed
  <1>8. CASE SetSolution
    <2> DEFINE own(p) == {k \in 0..(GridSize - 1) : Writes(k) /\ WritePosition(k) = p}
    <2>1. /\ gridPc = "solve" /\ gridPc' = "done" /\ UNCHANGED <<grid, l, rows, blob, row, values>>
          /\ mem' = IF grid.fine THEN <<>> ELSE mem
          /\ gridWeights' = [p \in DOMAIN gridWeights |->
               IF own(p) = {} THEN gridWeights[p]
               ELSE IF GridOrder = 0 THEN Zero ELSE values[CHOOSE k \in own(p) : TRUE]]
      BY <1>8 DEF SetSolution
    <2>2. values = [k \in 0..(GridSize - 1) |-> ReadPosition(k)] /\ gridWeights = NoWeights
      BY <2>1 DEF GridInv
    <2>3. ASSUME NEW p \in DOMAIN gridWeights
          PROVE  gridWeights'[p] = IF p \notin OwnPositions THEN Missing
                                   ELSE IF GridOrder = 0 THEN Zero ELSE p
      <3>1. p \in OwnPositions <=> own(p) # {}
        BY <1>1, OwnIsWritten
      <3>2. gridWeights[p] = Missing
        BY <2>2 DEF NoWeights
      <3>3. ASSUME own(p) # {} PROVE values[CHOOSE k \in own(p) : TRUE] = p
        <4>1. PICK k : k = (CHOOSE i \in own(p) : TRUE) /\ k \in own(p)
          BY <3>3
        <4>. QED BY <2>2, <4>1, WrittenWhereRead
      <3> HIDE DEF own
      <3>. QED BY <2>1, <3>1, <3>2, <3>3
    <2>4. SolutionInPlace'
      <3>1. OwnPositions' = OwnPositions /\ GridOrder' = GridOrder
        BY <2>1 DEF OwnPositions, Chosen, GridOrder, GridSize, Mu
      <3>2. DOMAIN gridWeights' = DOMAIN gridWeights
        BY <2>1
      <3>. QED BY <2>3, <3>1, <3>2 DEF SolutionInPlace
    <2>5. (GridOrder > 0 /\ ~grid.fine => Placed(mem, 1))'
      BY <2>1 DEF GridInv, Placed, GridOrder, GridSize, Mu, Stored, Packed
    <2>. QED BY <1>1, <2>1, <2>4, <2>5 DEF GridInv, GridOrder, GridSize, Mu, Packed
  <1>9. CASE UNCHANGED gridVars
    <2>1. UNCHANGED <<grid, l, rows, mem, blob, row, values, gridWeights, gridPc>>
      BY <1>9 DEF gridVars
    <2>2. SolutionInPlace'
      BY <2>1 DEF GridInv, SolutionInPlace, OwnPositions, Chosen, GridOrder, GridSize, Mu
    <2>3. (gridPc \in {"unpack", "solve"} =>
             values = [k \in 0..(GridSize - 1) |-> ReadPosition(k)] /\ gridWeights = NoWeights)'
      BY <2>1 DEF GridInv, GridSize, Mu, ReadPosition, OfPoint, Grad, Component, NoWeights
    <2>. QED BY <2>1, <2>2, <2>3 DEF GridInv, Placed, GridOrder, GridSize, Mu, Stored, Packed
  <1>. QED BY <1>2, <1>3, <1>4, <1>5, <1>6, <1>7, <1>8, <1>9 DEF GridNext

\* FineGrid and CoarseGrid, of any number of points, gradients and polynomials: a factor
\* comes back from the cache entry by entry, in every solve, and a solution is written
\* where its value was read and nowhere else.
THEOREM GridKept == GridSpec => []GridInPlace
  <1>1. GridInv => GridInPlace
    <2> SUFFICES ASSUME GridInv PROVE FactorSurvives /\ SolutionInPlace
      BY DEF GridInPlace
    <2>1. ASSUME gridPc = "solve", GridOrder > 0, NEW r \in 0..(GridOrder - 1), NEW c \in 0..r
          PROVE  mem[Stored(r) + c] = <<r, c>>
      <3>1. Placed(mem, 1) /\ GridOrder \in Nat
        BY <2>1, GridSizes DEF GridInv
      <3>2. CASE r < 1
        <4>1. Packed(r) + c = Stored(r) + c
          <5>1. r = 0
            BY <3>1, <3>2
          <5>. QED BY <3>1, <5>1 DEF Packed, Stored
        <4>. QED BY <3>1, <3>2, <4>1 DEF Placed
      <3>3. CASE r >= 1
        BY <3>1, <3>3 DEF Placed
      <3>. QED BY <3>1, <3>2, <3>3
    <2>. QED BY <2>1 DEF GridInv, FactorSurvives
  <1>. QED BY <1>1, GridInvInit, GridInvNext, PTL DEF GridSpec
=============================================================================
