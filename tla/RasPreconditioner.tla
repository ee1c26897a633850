------------------------- MODULE RasPreconditioner -------------------------
(***************************************************************************)
(* preconditioner/ras_preconditioner.hpp with the parallel loops over the  *)
(* fine grids: setup, where each grid factorizes its matrix and puts the   *)
(* factor into the shared BinaryCache, and the application of the          *)
(* preconditioner, where each grid gets its factor back, solves for its    *)
(* points and writes the weights of its inner points into one vector.      *)
(*                                                                         *)
(* The loops are `omp parallel for schedule(dynamic)': an idle thread      *)
(* takes the next grid.  put and get are atomic, as BinaryCache implements *)
(* BlobStore; the writes into the vector are not, one point at a time.     *)
(***************************************************************************)
EXTENDS MultilevelCycle, FiniteSets

CONSTANTS
  Thread,   \* the OpenMP threads
  Grids     \* fine_grids_: for each level from 1, its grids [inner, small]

\* A small grid has no more points than the polynomial needs (m_ <= l_) and no factor.
GridsAt(level) == Grids[level]
GridsAssumption ==
  /\ Grids \in Seq(Seq([inner : SUBSET Point, small : BOOLEAN])) /\ Len(Grids) = Top
  /\ \A l \in 1..Top : \A i \in 1..Len(GridsAt(l)) : GridsAt(l)[i].inner \subseteq At(l)
\* What DomainDivider makes of a level.
InnerAssumption ==
  \A l \in 1..Top : \A p \in At(l) :
    \E i \in 1..Len(GridsAt(l)) : /\ p \in GridsAt(l)[i].inner
                                  /\ \A j \in 1..Len(GridsAt(l)) : p \in GridsAt(l)[j].inner => j = i
RasAssumptions == Assumptions /\ GridsAssumption /\ InnerAssumption

VARIABLES
  phase,    \* "setup" (the constructor) or "apply" (operator())
  level,    \* the level whose grids are worked on, None for none
  next,     \* the loop counter that schedule(dynamic) hands out
  task,     \* for each thread its grid, 0 for none
  at,       \* for each thread: "idle", "put", "get" or "write"
  left,     \* for each thread the inner points it has still to write
  cacheId,  \* FineGrid::cache_id_, for each level and grid
  cache,    \* the blobs in cache_, each the factor of a grid
  factor,   \* for each thread the factor it has loaded
  written   \* history: how often each point was written in this solve

loopVars == <<phase, level, next, task, at, left, cacheId, cache, factor, written>>
rasVars == <<cycleVars, loopVars>>

GridOf(t) == GridsAt(level)[task[t]]
Idle(t) == at[t] = "idle"
Unwritten == [p \in Point |-> 0]

RasInit ==
  /\ CycleInit
  /\ phase = IF Top = 0 THEN "apply" ELSE "setup"
  /\ level = IF Top = 0 THEN None ELSE Top
  /\ next = 1
  /\ task = [t \in Thread |-> 0] /\ at = [t \in Thread |-> "idle"]
  /\ left = [t \in Thread |-> {}]
  /\ cacheId = [l \in 1..Top |-> [i \in 1..Len(GridsAt(l)) |-> 0]]
  /\ cache = <<>>
  /\ factor = [t \in Thread |-> <<0, 0>>]
  /\ written = Unwritten

-----------------------------------------------------------------------------
(* The parallel loops.                                                     *)

\* A loop whose counter is read and advanced in two steps: two threads get one grid.
TakeSharedGrid(t) ==
  /\ level # None /\ Idle(t)
  /\ \E i \in {next, next - 1} :
       /\ i \in 1..Len(GridsAt(level))
       /\ task' = [task EXCEPT ![t] = i]
       /\ next' = IF i = next THEN next + 1 ELSE next
       /\ at' = [at EXCEPT ![t] = IF phase = "setup" THEN "put" ELSE "get"]
  /\ UNCHANGED <<cycleVars, phase, level, left, cacheId, cache, factor, written>>

TakeGrid(t) ==
  /\ level # None /\ Idle(t)
  /\ next <= Len(GridsAt(level))
  /\ task' = [task EXCEPT ![t] = next]
  /\ next' = next + 1
  /\ at' = [at EXCEPT ![t] = IF phase = "setup" THEN "put" ELSE "get"]
  /\ UNCHANGED <<cycleVars, phase, level, left, cacheId, cache, factor, written>>

\* The setup of a grid that keeps the id of the last blob.
SetupLastId(t) ==
  /\ at[t] = "put"
  /\ IF GridOf(t).small
       THEN UNCHANGED <<cache, cacheId>>
       ELSE /\ cache' = Append(cache, <<level, task[t]>>)
            /\ cacheId' = [cacheId EXCEPT ![level][task[t]] = Len(cache)]
  /\ at' = [at EXCEPT ![t] = "idle"]
  /\ task' = [task EXCEPT ![t] = 0]
  /\ UNCHANGED <<cycleVars, phase, level, next, left, factor, written>>

\* FineGrid::setup: the factor goes to the cache and is freed.
Setup(t) ==
  /\ at[t] = "put"
  /\ IF GridOf(t).small
       THEN UNCHANGED <<cache, cacheId>>
       ELSE /\ cache' = Append(cache, <<level, task[t]>>)
            /\ cacheId' = [cacheId EXCEPT ![level][task[t]] = Len(cache) + 1]
  /\ at' = [at EXCEPT ![t] = "idle"]
  /\ task' = [task EXCEPT ![t] = 0]
  /\ UNCHANGED <<cycleVars, phase, level, next, left, factor, written>>

\* FineGrid::solve: the factor comes back from the cache.
SolveGrid(t) ==
  /\ at[t] = "get"
  /\ factor' = [factor EXCEPT ![t] =
       IF GridOf(t).small THEN <<0, 0>>
       ELSE LET id == cacheId[level][task[t]] IN IF id = 0 THEN <<0, 0>> ELSE cache[id]]
  /\ left' = [left EXCEPT ![t] = GridOf(t).inner]
  /\ at' = [at EXCEPT ![t] = "write"]
  /\ UNCHANGED <<cycleVars, phase, level, next, task, cacheId, cache, written>>

\* FineGrid::set_solution_to: one inner point.
WritePoint(t) ==
  /\ at[t] = "write"
  /\ \E p \in left[t] :
       /\ left' = [left EXCEPT ![t] = left[t] \ {p}]
       /\ written' = [written EXCEPT ![p] = written[p] + 1]
  /\ UNCHANGED <<cycleVars, phase, level, next, task, at, cacheId, cache, factor>>

EndGrid(t) ==
  /\ at[t] = "write" /\ left[t] = {}
  /\ at' = [at EXCEPT ![t] = "idle"]
  /\ task' = [task EXCEPT ![t] = 0]
  /\ factor' = [factor EXCEPT ![t] = <<0, 0>>]
  /\ UNCHANGED <<cycleVars, phase, level, next, left, cacheId, cache, written>>

LoopDone == level # None /\ next > Len(GridsAt(level)) /\ \A t \in Thread : Idle(t)

-----------------------------------------------------------------------------
(* The constructor: from the finest level down.                            *)

\* The constructor when its loop runs to level 0.
EndSetupLevelTooFar ==
  /\ phase = "setup" /\ LoopDone
  /\ next' = 1
  /\ level' = level - 1
  /\ phase' = IF level > 0 THEN "setup" ELSE "apply"
  /\ UNCHANGED <<cycleVars, task, at, left, cacheId, cache, factor, written>>

EndSetupLevel ==
  /\ phase = "setup" /\ LoopDone
  /\ next' = 1
  /\ level' = IF level > 1 THEN level - 1 ELSE None
  /\ phase' = IF level > 1 THEN "setup" ELSE "apply"
  /\ UNCHANGED <<cycleVars, task, at, left, cacheId, cache, factor, written>>

(* operator()                                                              *)

SolveCoarse ==
  /\ phase = "apply" /\ cyclePc = "solve" /\ Now.level = 0
  /\ Solve
  /\ UNCHANGED loopVars

BeginSolve ==
  /\ phase = "apply" /\ cyclePc = "solve" /\ Now.level > 0 /\ level = None
  /\ level' = Now.level
  /\ next' = 1
  /\ written' = Unwritten
  /\ UNCHANGED <<cycleVars, phase, task, at, left, cacheId, cache, factor>>

\* The end of a loop that does not wait for the grids still being solved.
EndSolveNoWait ==
  /\ phase = "apply" /\ level # None
  /\ next > Len(GridsAt(level))
  /\ weights' = {p \in Point : written[p] > 0}
  /\ cyclePc' = "update"
  /\ level' = None
  /\ at' = [t \in Thread |-> "idle"] /\ task' = [t \in Thread |-> 0]
  /\ UNCHANGED <<step, added, taken, phase, next, left, cacheId, cache, factor, written>>

\* The barrier at the end of the loop: the weights are those that were written.
EndSolve ==
  /\ phase = "apply" /\ LoopDone
  /\ weights' = {p \in Point : written[p] > 0}
  /\ cyclePc' = "update"
  /\ level' = None
  /\ UNCHANGED <<step, added, taken, phase, next, task, at, left, cacheId, cache, factor, written>>

UpdateResiduals == phase = "apply" /\ Update /\ UNCHANGED loopVars
AddWeights == phase = "apply" /\ Add /\ UNCHANGED loopVars
OrthogonalizeWeights == phase = "apply" /\ Orthogonalize /\ UNCHANGED loopVars

GridStep(t) == TakeGrid(t) \/ Setup(t) \/ SolveGrid(t) \/ WritePoint(t) \/ EndGrid(t)
Main == \/ EndSetupLevel \/ SolveCoarse \/ BeginSolve \/ EndSolve
        \/ UpdateResiduals \/ AddWeights \/ OrthogonalizeWeights
RasNext == Main \/ \E t \in Thread : GridStep(t)

RasSpec == RasInit /\ [][RasNext]_rasVars

-----------------------------------------------------------------------------
\* The type of every variable.
RasTypeOK ==
  /\ step \in 1..Len(Plan)
  /\ cyclePc \in {"solve", "update", "add", "orthogonalize", "done"}
  /\ weights \subseteq Point
  /\ phase \in {"setup", "apply"} /\ level \in {None} \cup 1..Top
  /\ \A t \in Thread :
       /\ at[t] \in {"idle", "put", "get", "write"}
       /\ left[t] \subseteq Point
       /\ at[t] # "idle" => level # None /\ task[t] \in 1..Len(GridsAt(level))
  /\ \A l \in 1..Top : \A i \in 1..Len(GridsAt(l)) : cacheId[l][i] \in 0..Len(cache)

\* The threads write the shared vector without a lock: never two the same point.
NoWriteRace ==
  \A t, u \in Thread : t # u /\ at[t] = "write" /\ at[u] = "write" => left[t] \cap left[u] = {}

\* A grid solves with the factor that it made itself in the constructor.
OwnFactor ==
  \A t \in Thread : at[t] = "write" /\ ~GridOf(t).small => factor[t] = <<level, task[t]>>

\* Grids that are solved at the same time do not meet, in the vector or in the cache.
GridsApart == NoWriteRace /\ OwnFactor

\* However the grids are scheduled, an application is the sequence of whole
\* corrections of MultilevelCycle.
ImplementsCycle == CycleSpec
=============================================================================
